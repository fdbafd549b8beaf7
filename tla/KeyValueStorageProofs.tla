------------------------ MODULE KeyValueStorageProofs ------------------------
(***************************************************************************)
(* Theorems about KeyValueStorage: the metadata table and the blob store   *)
(* stay consistent without a transaction over both.  The argument follows  *)
(* the life of a blob: it is written before its row is committed, only the *)
(* operation that removes its row puts it among the garbage, and its put() *)
(* is over by then, so nothing brings the row back.                        *)
(* And a listing that starts each page after the last key of the one       *)
(* before misses no key that stays, and repeats none.                      *)
(***************************************************************************)
EXTENDS KeyValueStorage, FiniteSetTheorems, FunctionTheorems, TLAPS

\* The state without the lister and the clock
StorageTypes ==
  /\ table \in [Keys -> Rows \cup {NoRow}]
  /\ blobs \subseteq Puts
  /\ garbage \subseteq Puts
  /\ puts \in [Puts -> [stage : PutStages, key : Keys, expiration : Expirations]]
  /\ gets \in [Gets -> [stage : GetStages, key : Keys, row : Rows \cup {NoRow}, parts : Int]]

\* The row of a key was committed, and its blob is on disk to stay.
RowsAreCommitted ==
  \A k \in Keys : table[k] # NoRow =>
    /\ puts[table[k].blob].stage = "done"
    /\ table[k].blob \in blobs
    /\ table[k].blob \notin garbage

\* A blob belongs to the key it was put for.
RowsAreOwned == \A k \in Keys : table[k] # NoRow => puts[table[k].blob].key = k

\* What is written and not committed is on disk; only what is over is garbage.
WrittenIsThere == \A p \in Puts : puts[p].stage = "written" => p \in blobs
GarbageIsOver == \A p \in garbage : puts[p].stage \in {"done", "aborted"}

\* A get() found a row that had been committed.
FoundIsCommitted ==
  \A g \in Gets : /\ gets[g].row # NoRow => puts[gets[g].row.blob].stage = "done"
                  /\ gets[g].stage \notin {"idle", "null", "failed"} => gets[g].row # NoRow

Consistent ==
  RowsAreCommitted /\ RowsAreOwned /\ WrittenIsThere /\ GarbageIsOver /\ FoundIsCommitted

IInv == StorageTypes /\ Consistent /\ NothingLeaks /\ UndisturbedGetSucceeds

\* A row is told from NoRow by its blob.
LEMMA RowFacts ==
  /\ NoRow \notin Rows
  /\ \A row \in Rows : row.blob \in Puts /\ row.expiration \in Expirations
BY NoRowAssumption DEF Rows

\* A blob is referenced when some key has it in its row.
LEMMA ReferencedByKey ==
  ASSUME NEW p
  PROVE  p \in Referenced <=> \E k \in Keys : table[k] # NoRow /\ table[k].blob = p
BY DEF Referenced, BlobOf

\* The same of the next state, which a leaf cannot derive from the lemma above.
LEMMA ReferencedByKeyNext ==
  ASSUME NEW p
  PROVE  p \in Referenced' <=> \E k \in Keys : table'[k] # NoRow /\ table'[k].blob = p
BY DEF Referenced, BlobOf

\* Removing the rows of K and collecting their blobs keeps the storage
\* consistent: what get(), delete(), deleteAll() and list() do.
LEMMA Removal ==
  ASSUME IInv, NEW K \in SUBSET Keys,
         table' = [k \in Keys |-> IF k \in K THEN NoRow ELSE table[k]],
         Collect(K), UNCHANGED <<blobs, puts, dangling>>
  PROVE  /\ table' \in [Keys -> Rows \cup {NoRow}]
         /\ garbage' \subseteq Puts
         /\ RowsAreCommitted' /\ RowsAreOwned' /\ WrittenIsThere' /\ GarbageIsOver'
         /\ NothingLeaks'
<1> USE DEF IInv, Consistent
<1>1. \A p : p \in garbage' <=> p \in garbage \/ \E k \in K : table[k] # NoRow /\ table[k].blob = p
  BY DEF Collect, BlobOf
<1>2. table' \in [Keys -> Rows \cup {NoRow}]
  BY DEF StorageTypes
<1>3. garbage' \subseteq Puts
  BY <1>1, RowFacts DEF StorageTypes
<1>4. RowsAreCommitted'
  BY <1>1, RowFacts DEF StorageTypes, RowsAreCommitted, RowsAreOwned
<1>5. RowsAreOwned'
  BY DEF RowsAreOwned
<1>6. WrittenIsThere'
  BY DEF WrittenIsThere
<1>7. GarbageIsOver'
  BY <1>1 DEF GarbageIsOver, RowsAreCommitted
<1>8. NothingLeaks'
  <2> SUFFICES ASSUME NEW p \in blobs, p \notin Referenced'
               PROVE  p \in garbage' \cup dangling
                        \cup {q \in Puts : puts[q].stage \in {"written", "insertFailed"}}
    BY DEF NothingLeaks
  <2>1. CASE p \in Referenced
    <3>1. PICK k \in Keys : table[k] # NoRow /\ table[k].blob = p
      BY <2>1, ReferencedByKey
    <3>2. k \in K
      BY <3>1, ReferencedByKeyNext
    <3> QED BY <1>1, <3>1, <3>2
  <2>2. CASE p \notin Referenced
    BY <1>1, <2>2 DEF NothingLeaks
  <2> QED BY <2>1, <2>2
<1> QED BY <1>2, <1>3, <1>4, <1>5, <1>6, <1>7, <1>8

\* Removing rows disturbs no get() that has its answer, or waits for it.
LEMMA RemovalUndisturbing ==
  ASSUME IInv, NEW K \in SUBSET Keys,
         table' = [k \in Keys |-> IF k \in K THEN NoRow ELSE table[k]],
         UNCHANGED <<puts, gets>>
  PROVE  FoundIsCommitted' /\ UndisturbedGetSucceeds'
BY DEF IInv, Consistent, StorageTypes, FoundIsCommitted, UndisturbedGetSucceeds

\* The storage is consistent in every reachable state.
THEOREM Consistency == Spec => []IInv
<1>1. Init => IInv
  BY LimitsAssumption DEF Init, IInv, StorageTypes, PutStages, GetStages, Consistent, RowsAreCommitted,
    RowsAreOwned, WrittenIsThere, GarbageIsOver, FoundIsCommitted, NothingLeaks,
    UndisturbedGetSucceeds
<1>2. IInv /\ [Next]_vars => IInv'
  <2> SUFFICES ASSUME IInv, [Next]_vars PROVE IInv'
    OBVIOUS
  <2>1. ASSUME NEW p \in Puts, PutBegins(p) PROVE IInv'
    BY <2>1, RowFacts, ReferencedByKey, ReferencedByKeyNext
      DEF PutBegins, SetPut, IInv, StorageTypes, PutStages, Consistent, RowsAreCommitted,
      RowsAreOwned, WrittenIsThere, GarbageIsOver, FoundIsCommitted, NothingLeaks,
      UndisturbedGetSucceeds, Referenced
  <2>2. ASSUME NEW p \in Puts, PutFails(p) PROVE IInv'
    BY <2>2, RowFacts
      DEF PutFails, SetPut, IInv, StorageTypes, PutStages, Consistent, RowsAreCommitted,
      RowsAreOwned, WrittenIsThere, GarbageIsOver, FoundIsCommitted, NothingLeaks,
      UndisturbedGetSucceeds, Referenced
  <2>3. ASSUME NEW p \in Puts, BlobWritten(p) PROVE IInv'
    BY <2>3, RowFacts
      DEF BlobWritten, SetPut, IInv, StorageTypes, PutStages, Consistent, RowsAreCommitted,
      RowsAreOwned, WrittenIsThere, GarbageIsOver, FoundIsCommitted, NothingLeaks,
      UndisturbedGetSucceeds, Referenced
  <2>4. ASSUME NEW p \in Puts, PutCommits(p) PROVE IInv'
    <3> DEFINE k == puts[p].key
               row == [blob |-> p, expiration |-> puts[p].expiration]
    <3>1. /\ puts[p].stage = "written" /\ k \in Keys /\ row \in Rows
          /\ table' = [table EXCEPT ![k] = row]
          /\ puts' = [puts EXCEPT ![p].stage = "done"]
          /\ UNCHANGED <<blobs, gets, dangling>>
      BY <2>4 DEF PutCommits, SetPut, SetTable, IInv, StorageTypes, Rows
    <3>2. \A q : q \in garbage' <=> q \in garbage \/ (table[k] # NoRow /\ table[k].blob = q)
      BY <2>4, <3>1 DEF PutCommits, Collect, BlobOf
    <3>3. StorageTypes'
      BY <3>1, <3>2, RowFacts DEF IInv, StorageTypes, PutStages
    <3>4. RowsAreCommitted'
      BY <3>1, <3>2, RowFacts
        DEF IInv, StorageTypes, Consistent, RowsAreCommitted, RowsAreOwned, WrittenIsThere,
        GarbageIsOver
    <3>5. RowsAreOwned' /\ WrittenIsThere'
      BY <3>1, RowFacts DEF IInv, StorageTypes, Consistent, RowsAreOwned, WrittenIsThere
    <3>6. GarbageIsOver'
      BY <3>1, <3>2, RowFacts
        DEF IInv, StorageTypes, Consistent, GarbageIsOver, RowsAreCommitted
    <3>7. FoundIsCommitted'
      BY <3>1, RowFacts DEF IInv, StorageTypes, Consistent, FoundIsCommitted
    <3>8. NothingLeaks'
      <4> SUFFICES ASSUME NEW q \in blobs, q \notin Referenced'
                   PROVE  q \in garbage' \cup dangling
                            \cup {r \in Puts : puts'[r].stage \in {"written", "insertFailed"}}
        BY <3>1 DEF NothingLeaks
      <4>1. q # p
        BY <3>1, RowFacts, ReferencedByKeyNext DEF IInv, StorageTypes
      <4>2. CASE q \in Referenced
        <5>1. PICK j \in Keys : table[j] # NoRow /\ table[j].blob = q
          BY <4>2, ReferencedByKey
        <5>2. j = k
          BY <3>1, <5>1, ReferencedByKeyNext DEF IInv, StorageTypes
        <5> QED BY <3>2, <5>1, <5>2
      <4>3. CASE q \notin Referenced
        BY <3>1, <3>2, <4>1, <4>3 DEF IInv, StorageTypes, NothingLeaks
      <4> QED BY <4>2, <4>3
    <3>9. UndisturbedGetSucceeds'
      BY <3>1, RowFacts
        DEF IInv, StorageTypes, Consistent, FoundIsCommitted, UndisturbedGetSucceeds
    <3> QED BY <3>3, <3>4, <3>5, <3>6, <3>7, <3>8, <3>9 DEF IInv, Consistent
  <2>5. ASSUME NEW p \in Puts, InsertFails(p) PROVE IInv'
    BY <2>5, RowFacts
      DEF InsertFails, SetPut, IInv, StorageTypes, PutStages, Consistent, RowsAreCommitted,
      RowsAreOwned, WrittenIsThere, GarbageIsOver, FoundIsCommitted, NothingLeaks,
      UndisturbedGetSucceeds, Referenced
  <2>6. ASSUME NEW g \in Gets, GetBegins(g) PROVE IInv'
    <3> DEFINE k == gets[g].key
               row == table[k]
    <3>0. k \in Keys /\ row \in Rows \cup {NoRow} /\ gets[g].stage = "idle"
      BY <2>6 DEF GetBegins, IInv, StorageTypes
    <3>1. CASE row = NoRow /\ SetGet(g, "null") /\ UNCHANGED <<table, garbage, due>>
      BY <2>6, <3>0, <3>1
        DEF GetBegins, SetGet, IInv, StorageTypes, GetStages, Consistent, RowsAreCommitted,
        RowsAreOwned, WrittenIsThere, GarbageIsOver, FoundIsCommitted, NothingLeaks,
        UndisturbedGetSucceeds, Referenced
    <3>2. CASE row # NoRow /\ SetGet(g, "null") /\ RemoveRows({k}) /\ Collect({k})
      <4>1. /\ table' = [j \in Keys |-> IF j \in {k} THEN NoRow ELSE table[j]]
            /\ UNCHANGED <<blobs, puts, dangling>>
        BY <2>6, <3>2 DEF GetBegins, RemoveRows, SetTable
      <4>2. /\ table' \in [Keys -> Rows \cup {NoRow}] /\ garbage' \subseteq Puts
            /\ RowsAreCommitted' /\ RowsAreOwned' /\ WrittenIsThere' /\ GarbageIsOver'
            /\ NothingLeaks'
        BY <3>0, <3>2, <4>1, Removal
      <4>3. gets' = [gets EXCEPT ![g].stage = "null"]
        BY <3>2 DEF SetGet
      <4>4. StorageTypes'
        BY <4>1, <4>2, <4>3 DEF IInv, StorageTypes, GetStages
      <4>5. FoundIsCommitted' /\ UndisturbedGetSucceeds'
        BY <4>1, <4>3
          DEF IInv, Consistent, StorageTypes, FoundIsCommitted, UndisturbedGetSucceeds
      <4> QED BY <4>2, <4>4, <4>5 DEF IInv, Consistent
    <3>3. CASE /\ row # NoRow
               /\ \E stage \in {"fetching", "heading"} :
                    gets' = [gets EXCEPT ![g].stage = stage, ![g].row = row]
               /\ UNCHANGED <<table, garbage, due>>
      BY <2>6, <3>0, <3>3
        DEF GetBegins, IInv, StorageTypes, GetStages, Consistent, RowsAreCommitted,
        RowsAreOwned, WrittenIsThere, GarbageIsOver, FoundIsCommitted, NothingLeaks,
        UndisturbedGetSucceeds, Referenced
    <3> QED BY <2>6, <3>1, <3>2, <3>3 DEF GetBegins
  <2>7. ASSUME NEW g \in Gets, BlobFetched(g) \/ BlobHeaded(g) \/ RangeFetched(g) PROVE IInv'
    <3>1. /\ UNCHANGED <<table, blobs, garbage, puts, dangling>>
          /\ gets' \in [Gets -> [stage : GetStages, key : Keys, row : Rows \cup {NoRow}, parts : Int]]
          /\ \A h \in Gets : gets'[h].key = gets[h].key /\ gets'[h].row = gets[h].row
      BY <2>7 DEF BlobFetched, BlobHeaded, RangeFetched, SetGet, IInv, StorageTypes, GetStages
    <3>2. \A h \in Gets : \/ gets'[h].stage = gets[h].stage
                          \/ /\ gets[h].stage \in {"fetching", "heading", "streaming"}
                             /\ gets'[h].stage \in {"missed", "broken"} =>
                                  gets[h].row.blob \notin blobs
      BY <2>7 DEF BlobFetched, BlobHeaded, RangeFetched, SetGet, IInv, StorageTypes
    <3>3. StorageTypes' /\ RowsAreCommitted' /\ RowsAreOwned' /\ WrittenIsThere' /\ GarbageIsOver'
            /\ NothingLeaks'
      BY <3>1 DEF IInv, StorageTypes, Consistent, RowsAreCommitted, RowsAreOwned,
        WrittenIsThere, GarbageIsOver, NothingLeaks, Referenced
    <3>4. FoundIsCommitted'
      BY <3>1, <3>2 DEF IInv, Consistent, FoundIsCommitted
    <3>5. UndisturbedGetSucceeds'
      BY <3>1, <3>2
        DEF IInv, StorageTypes, Consistent, FoundIsCommitted, RowsAreCommitted,
        UndisturbedGetSucceeds
    <3> QED BY <3>3, <3>4, <3>5 DEF IInv, Consistent
  <2>8. ASSUME NEW K \in SUBSET Keys, RemoveRows(K), Collect(K),
               UNCHANGED <<blobs, puts, gets, dangling>>
        PROVE  IInv'
    <3>1. table' = [k \in Keys |-> IF k \in K THEN NoRow ELSE table[k]]
      BY <2>8 DEF RemoveRows, SetTable
    <3>2. /\ table' \in [Keys -> Rows \cup {NoRow}] /\ garbage' \subseteq Puts
          /\ RowsAreCommitted' /\ RowsAreOwned' /\ WrittenIsThere' /\ GarbageIsOver'
          /\ NothingLeaks'
      BY <2>8, <3>1, Removal
    <3>3. FoundIsCommitted' /\ UndisturbedGetSucceeds'
      BY <2>8, <3>1, RemovalUndisturbing
    <3> QED BY <2>8, <3>2, <3>3 DEF IInv, Consistent, StorageTypes
  <2>9. ASSUME NEW b \in Puts, BlobDeleted(b) PROVE IInv'
    BY <2>9, RowFacts
      DEF BlobDeleted, IInv, StorageTypes, Consistent, RowsAreCommitted, RowsAreOwned,
      WrittenIsThere, GarbageIsOver, FoundIsCommitted, NothingLeaks, UndisturbedGetSucceeds,
      Referenced
  <2>10. ASSUME NEW b \in Puts, BlobDeleteFails(b) PROVE IInv'
    BY <2>10
      DEF BlobDeleteFails, IInv, StorageTypes, Consistent, RowsAreCommitted, RowsAreOwned,
      WrittenIsThere, GarbageIsOver, FoundIsCommitted, NothingLeaks, UndisturbedGetSucceeds,
      Referenced
  <2>11. CASE ListPage
    BY <2>8, <2>11 DEF ListPage, Outdated
  <2>12. CASE Tick \/ UNCHANGED vars
    BY <2>12
      DEF Tick, vars, IInv, StorageTypes, Consistent, RowsAreCommitted, RowsAreOwned,
      WrittenIsThere, GarbageIsOver, FoundIsCommitted, NothingLeaks, UndisturbedGetSucceeds,
      Referenced
  <2>13. CASE Crash
    <3>1. /\ UNCHANGED <<table, blobs>> /\ garbage' = {}
          /\ \A p \in Puts : \/ puts'[p] = puts[p] /\ puts[p].stage \notin {"writing", "written"}
                             \/ /\ puts[p].stage \in {"writing", "written"}
                                /\ puts'[p] = [puts[p] EXCEPT !.stage = "failed"]
          /\ puts' \in [Puts -> [stage : PutStages, key : Keys, expiration : Expirations]]
      BY <2>13 DEF Crash, IInv, StorageTypes, PutStages
    <3>2. /\ \A g \in Gets : \/ gets'[g] = gets[g]
                             \/ gets'[g] = [gets[g] EXCEPT !.stage = "failed"]
          /\ gets' \in [Gets -> [stage : GetStages, key : Keys, row : Rows \cup {NoRow}, parts : Int]]
      BY <2>13 DEF Crash, IInv, StorageTypes, GetStages
    <3>3. StorageTypes'
      BY <3>1, <3>2 DEF IInv, StorageTypes
    <3>4. RowsAreCommitted' /\ RowsAreOwned'
      BY <3>1, RowFacts DEF IInv, StorageTypes, Consistent, RowsAreCommitted, RowsAreOwned
    <3>5. WrittenIsThere' /\ GarbageIsOver'
      BY <3>1 DEF IInv, StorageTypes, Consistent, WrittenIsThere, GarbageIsOver
    <3>6. FoundIsCommitted'
      <4> SUFFICES ASSUME NEW g \in Gets
                   PROVE  /\ gets'[g].row # NoRow => puts'[gets'[g].row.blob].stage = "done"
                          /\ gets'[g].stage \notin {"idle", "null", "failed"} =>
                               gets'[g].row # NoRow
        BY DEF FoundIsCommitted
      <4>1. gets'[g].row = gets[g].row /\ gets'[g].stage \in {gets[g].stage, "failed"}
        BY <3>2 DEF IInv, StorageTypes
      <4>2. gets[g].row # NoRow => gets[g].row.blob \in Puts
        BY RowFacts DEF IInv, StorageTypes
      <4> QED BY <3>1, <4>1, <4>2 DEF IInv, Consistent, FoundIsCommitted
    <3>7. UndisturbedGetSucceeds'
      BY <3>1, <3>2 DEF IInv, StorageTypes, UndisturbedGetSucceeds
    <3>8. NothingLeaks'
      <4>1. dangling' = dangling \cup garbage
               \cup ({p \in Puts : puts[p].stage \in {"writing", "written"}} \cap blobs)
        BY <2>13 DEF Crash
      <4> QED BY <3>1, <4>1 DEF IInv, StorageTypes, NothingLeaks, Referenced
    <3> QED BY <3>3, <3>4, <3>5, <3>6, <3>7, <3>8 DEF IInv, Consistent
  <2>14. ASSUME NEW k \in Keys, Delete(k) PROVE IInv'
    BY <2>8, <2>14 DEF Delete
  <2>15. CASE DeleteAll
    BY <2>8, <2>15 DEF DeleteAll
  <2> QED
    BY <2>1, <2>2, <2>3, <2>4, <2>5, <2>6, <2>7, <2>9, <2>10, <2>11, <2>12, <2>13, <2>14, <2>15
      DEF Next
<1> QED BY <1>1, <1>2, PTL DEF Spec

\* "Atomic updates": a key that the table knows always has its value on disk,
\* however put(), get(), delete(), list(), background deletions and crashes of
\* the process interleave.
THEOREM EveryRowHasItsBlob == Spec => []RowsHaveBlobs
<1>1. IInv => RowsHaveBlobs
  BY ReferencedByKey DEF IInv, Consistent, RowsAreCommitted, RowsHaveBlobs
<1> QED BY <1>1, Consistency, PTL

\* The only blobs without a row are those that operations in progress own, that
\* wait for their deletion, or that a failure left behind.
THEOREM OnlyFailuresLeak == Spec => []NothingLeaks
<1>1. IInv => NothingLeaks
  BY DEF IInv
<1> QED BY <1>1, Consistency, PTL

\* A put() whose value turns out to be too large leaves no trace a get() sees.
THEOREM AbortsAreInvisible == Spec => []AbortedNeverVisible
<1>1. IInv => AbortedNeverVisible
  BY ReferencedByKey
    DEF IInv, Consistent, RowsAreCommitted, FoundIsCommitted, AbortedNeverVisible
<1> QED BY <1>1, Consistency, PTL

\* A get() of a key that nobody touches meanwhile does not fail.
THEOREM UndisturbedGets == Spec => []UndisturbedGetSucceeds
<1>1. IInv => UndisturbedGetSucceeds
  BY DEF IInv
<1> QED BY <1>1, Consistency, PTL

-----------------------------------------------------------------------------
(* Finite sets of naturals, which the listings cut into pages *)

Below(S, k) == {j \in S : j < k}
Rank(S, k) == Cardinality(Below(S, k))

LEMMA Ranks ==
  ASSUME NEW S \in SUBSET Nat, IsFiniteSet(S)
  PROVE  /\ Cardinality(S) \in Nat
         /\ \A k \in S : Rank(S, k) \in Nat /\ Rank(S, k) < Cardinality(S)
         /\ \A j, k \in S : j < k => Rank(S, j) < Rank(S, k)
<1>1. \A k : IsFiniteSet(Below(S, k)) /\ Rank(S, k) \in Nat
  <2>. TAKE k
  <2>1. Below(S, k) \in SUBSET S
    BY DEF Below
  <2>. QED  BY <2>1, FS_Subset, FS_CardinalityType DEF Rank
<1>2. ASSUME NEW j \in S, NEW T \in SUBSET S, Below(S, j) \subseteq T, j \in T
      PROVE  Rank(S, j) < Cardinality(T)
  <2>1. IsFiniteSet(T)
    BY FS_Subset
  <2>2. /\ Below(S, j) \in SUBSET T /\ j \notin Below(S, j)
    BY <1>2 DEF Below
  <2>3. /\ Cardinality(Below(S, j)) <= Cardinality(T)
        /\ Cardinality(T) = Cardinality(Below(S, j)) => T = Below(S, j)
    BY <2>1, <2>2, FS_Subset
  <2>4. Cardinality(T) \in Nat
    BY <2>1, FS_CardinalityType
  <2>. QED  BY <1>1, <1>2, <2>2, <2>3, <2>4 DEF Rank
<1>3. ASSUME NEW k \in S  PROVE Rank(S, k) < Cardinality(S)
  <2>1. Below(S, k) \subseteq S
    BY DEF Below
  <2>. QED  BY <1>2, <2>1
<1>4. ASSUME NEW j \in S, NEW k \in S, j < k  PROVE Rank(S, j) < Rank(S, k)
  <2>1. Below(S, j) \subseteq Below(S, k) /\ j \in Below(S, k) /\ Below(S, k) \subseteq S
    <3>1. \A i \in S : i \in Nat
      OBVIOUS
    <3>2. \A i \in S : i < j => i < k
      BY <1>4, <3>1
    <3>. QED  BY <1>4, <3>2 DEF Below
  <2>. QED  BY <1>2, <2>1 DEF Rank
<1>. QED  BY <1>1, <1>3, <1>4, FS_CardinalityType

\* A member of each rank
LEMMA EveryRankIsTaken ==
  ASSUME NEW S \in SUBSET Nat, IsFiniteSet(S), NEW i \in 0..(Cardinality(S) - 1)
  PROVE  \E k \in S : Rank(S, k) = i
<1>. DEFINE f == [k \in S |-> Rank(S, k)]
            T == 0..(Cardinality(S) - 1)
<1>1. Cardinality(S) \in Nat /\ f \in [S -> T]
  BY Ranks
<1>2. \A j, k \in S : j = k \/ j < k \/ k < j
  OBVIOUS
<1>3. \A j, k \in S : f[j] = f[k] => j = k
  BY <1>2, Ranks
<1>4. f \in Injection(S, T)
  BY <1>1, <1>3, Fun_IsInj
<1>5. IsFiniteSet(T) /\ Cardinality(T) = Cardinality(S)
  BY <1>1, FS_Interval
<1>6. f \in Surjection(S, T)
  BY <1>4, <1>5, FS_Injection
<1>. QED  BY <1>6 DEF Surjection

\* The last member
LEMMA LastMember ==
  ASSUME NEW S \in SUBSET Nat, IsFiniteSet(S), S # {}
  PROVE  \E k \in S : \A j \in S : j <= k
<1>1. Cardinality(S) \in Nat /\ Cardinality(S) # 0
  BY Ranks, FS_EmptySet
<1>2. PICK k \in S : Rank(S, k) = Cardinality(S) - 1
  BY <1>1, EveryRankIsTaken
<1>3. \A j \in S : ~(k < j)
  BY <1>1, <1>2, Ranks
<1>. QED  BY <1>3

\* The first n members are an initial segment, n of them if there are that many.
LEMMA FirstMembers ==
  ASSUME NEW S \in SUBSET Nat, IsFiniteSet(S), NEW n \in Nat
  PROVE  LET P == FirstKeys(S, n) IN
         /\ P \subseteq S /\ IsFiniteSet(P)
         /\ \A k \in P, j \in S : j < k => j \in P
         /\ Cardinality(P) = IF Cardinality(S) <= n THEN Cardinality(S) ELSE n
         /\ Cardinality(S) <= n => P = S
<1>. DEFINE P == FirstKeys(S, n)
<1>1. \A k \in S : k \in P <=> Rank(S, k) < n
  BY DEF FirstKeys, Rank, Below
<1>2. P \subseteq S /\ IsFiniteSet(P)
  <2>1. P \in SUBSET S
    BY DEF FirstKeys
  <2>. QED  BY <2>1, FS_Subset
<1>. HIDE DEF P
<1>3. ASSUME NEW k \in P, NEW j \in S, j < k  PROVE j \in P
  BY <1>1, <1>2, <1>3, Ranks
<1>4. CASE Cardinality(S) <= n
  <2>1. \A k \in S : k \in P
    BY <1>1, <1>4, Ranks
  <2>. QED  BY <1>2, <1>3, <1>4, <2>1 DEF P
<1>5. CASE ~(Cardinality(S) <= n)
  <2>. DEFINE f == [k \in P |-> Rank(S, k)]
              T == 0..(n - 1)
  <2>1. f \in [P -> T]
    BY <1>1, <1>2, Ranks
  <2>2. \A j, k \in P : f[j] = f[k] => j = k
    <3>1. \A j, k \in P : j = k \/ j < k \/ k < j
      BY <1>2
    <3>. QED  BY <1>2, <3>1, Ranks
  <2>3. f \in Injection(P, T)
    BY <2>1, <2>2, Fun_IsInj
  <2>4. \A i \in T : \E k \in P : f[k] = i
    <3>. TAKE i \in T
    <3>1. i \in 0..(Cardinality(S) - 1) /\ i < n
      BY <1>5, Ranks
    <3>2. PICK k \in S : Rank(S, k) = i
      BY <3>1, EveryRankIsTaken
    <3>. QED  BY <1>1, <3>1, <3>2
  <2>5. f \in Surjection(P, T)
    BY <2>1, <2>4, Fun_IsSurj
  <2>6. IsFiniteSet(T) /\ Cardinality(T) = n
    BY FS_Interval
  <2>7. Cardinality(P) = n
    BY <2>3, <2>5, <2>6, FS_Injection
  <2>. QED  BY <1>2, <1>3, <1>5, <2>7 DEF P
<1>. QED  BY <1>4, <1>5

\* A page is listed in order, without omissions.
LEMMA InOrder ==
  ASSUME NEW S \in SUBSET Nat, IsFiniteSet(S)
  PROVE  /\ Ascending(S) \in Seq(S) /\ Len(Ascending(S)) = Cardinality(S)
         /\ Range(Ascending(S)) = S
         /\ \A i, j \in DOMAIN Ascending(S) : i < j => Ascending(S)[i] < Ascending(S)[j]
<1>. DEFINE n == Cardinality(S)
            IsAscending(s) == \A i, j \in DOMAIN s : i < j => s[i] < s[j]
            f == [i \in 1..n |-> CHOOSE k \in S : Rank(S, k) = i - 1]
<1>1. n \in Nat
  BY Ranks
<1>2. \A i \in 1..n : f[i] \in S /\ Rank(S, f[i]) = i - 1
  <2>. TAKE i \in 1..n
  <2>1. i - 1 \in 0..(Cardinality(S) - 1)
    BY <1>1
  <2>2. \E k \in S : Rank(S, k) = i - 1
    BY <2>1, EveryRankIsTaken
  <2>. QED  BY <2>2
<1>3. f \in [1..n -> S] /\ IsAscending(f)
  <2>1. f \in [1..n -> S]
    BY <1>2
  <2>. HIDE DEF f
  <2>2. ASSUME NEW i \in 1..n, NEW j \in 1..n, i < j  PROVE f[i] < f[j]
    <3>1. f[i] \in Nat /\ f[j] \in Nat /\ Rank(S, f[i]) < Rank(S, f[j])
      <4>1. f[i] \in S /\ f[j] \in S /\ Rank(S, f[i]) = i - 1 /\ Rank(S, f[j]) = j - 1
        BY <1>2
      <4>2. i - 1 < j - 1
        BY <1>1, <2>2
      <4>3. Rank(S, f[i]) < Rank(S, f[j])
        BY <4>1, <4>2
      <4>. QED  BY <4>1, <4>3
    <3>2. ~(f[j] < f[i]) /\ f[i] # f[j]
      BY <1>2, <3>1, Ranks
    <3>. QED  BY <3>1, <3>2
  <2>. QED  BY <2>1, <2>2
<1>4. PICK s : s = Ascending(S)
  OBVIOUS
<1>5. s \in [1..n -> S] /\ IsAscending(s)
  <2>. HIDE DEF f
  <2>1. \E g \in [1..n -> S] : IsAscending(g)
    BY <1>3
  <2>2. s = CHOOSE g \in [1..n -> S] : IsAscending(g)
    BY <1>4 DEF Ascending
  <2>. QED  BY <2>1, <2>2
<1>6. s \in Seq(S) /\ Len(s) = n /\ DOMAIN s = 1..n
  BY <1>1, <1>5
<1>7. Range(s) = S
  <2>1. \A i, j \in 1..n : i = j \/ i < j \/ j < i
    BY <1>1
  <2>2. \A i, j \in 1..n : s[i] = s[j] => i = j
    <3>1. \A i \in 1..n : s[i] \in Nat
      BY <1>5
    <3>. QED  BY <1>5, <2>1, <3>1
  <2>3. s \in Injection(1..n, S)
    BY <1>5, <2>2, Fun_IsInj
  <2>4. Cardinality(1..n) = Cardinality(S)
    BY <1>1, FS_Interval
  <2>5. s \in Surjection(1..n, S)
    BY <2>3, <2>4, FS_Injection
  <2>. QED  BY <1>5, <2>5 DEF Surjection, Range
<1>. QED  BY <1>4, <1>5, <1>6, <1>7

\* A listing grows by a page that continues its order R.
LEMMA Continues ==
  ASSUME NEW S, NEW a \in Seq(S), NEW b \in Seq(S), NEW R,
         \A i, j \in DOMAIN a : i < j => <<a[i], a[j]>> \in R,
         \A i, j \in DOMAIN b : i < j => <<b[i], b[j]>> \in R,
         \A i \in DOMAIN a, j \in DOMAIN b : <<a[i], b[j]>> \in R
  PROVE  /\ a \o b \in Seq(S)
         /\ Range(a \o b) = Range(a) \cup Range(b)
         /\ \A i, j \in DOMAIN (a \o b) : i < j => <<(a \o b)[i], (a \o b)[j]>> \in R
<1>. DEFINE c == a \o b
<1>0. PICK k \in Nat, l \in Nat : k = Len(a) /\ l = Len(b)
  OBVIOUS
<1>1. /\ c \in Seq(S) /\ DOMAIN a = 1..k /\ DOMAIN b = 1..l /\ DOMAIN c = 1..(k + l)
      /\ \A i \in 1..(k + l) : c[i] = IF i <= k THEN a[i] ELSE b[i - k]
  <2>1. c \in Seq(S) /\ Len(c) = k + l
    BY <1>0
  <2>. QED  BY <1>0, <2>1
<1>. HIDE DEF c
<1>2. \A i \in 1..(k + l) :
        \/ i \in 1..k /\ c[i] = a[i]
        \/ ~(i <= k) /\ i - k \in 1..l /\ c[i] = b[i - k]
  <2>. TAKE i \in 1..(k + l)
  <2>1. CASE i <= k
    <3>1. i \in 1..k
      BY <2>1
    <3>. QED  BY <1>1, <2>1, <3>1
  <2>2. CASE ~(i <= k)
    <3>1. i - k \in 1..l
      BY <2>2
    <3>. QED  BY <1>1, <2>2, <3>1
  <2>. QED  BY <2>1, <2>2
<1>3. Range(c) = Range(a) \cup Range(b)
  <2>1. \A i \in 1..(k + l) : c[i] \in Range(a) \cup Range(b)
    BY <1>1, <1>2 DEF Range
  <2>2. \A i \in 1..k : a[i] \in Range(c)
    <3>1. \A i \in 1..k : i \in 1..(k + l) /\ c[i] = a[i]
      BY <1>1
    <3>. QED  BY <1>1, <3>1 DEF Range
  <2>3. \A i \in 1..l : b[i] \in Range(c)
    <3>. TAKE i \in 1..l
    <3>1. k + i \in 1..(k + l) /\ c[k + i] = b[i]
      <4>1. k + i \in 1..(k + l) /\ ~(k + i <= k) /\ (k + i) - k = i
        OBVIOUS
      <4>. QED  BY <1>1, <4>1
    <3>. QED  BY <1>1, <3>1 DEF Range
  <2>. QED  BY <1>1, <2>1, <2>2, <2>3 DEF Range
<1>4. ASSUME NEW i \in 1..(k + l), NEW j \in 1..(k + l), i < j  PROVE <<c[i], c[j]>> \in R
  <2>1. CASE i <= k /\ j <= k
    BY <1>1, <1>2, <1>4, <2>1
  <2>2. CASE i <= k /\ ~(j <= k)
    BY <1>1, <1>2, <1>4, <2>2
  <2>3. CASE ~(i <= k) /\ ~(j <= k)
    <3>1. i - k \in 1..l /\ j - k \in 1..l /\ i - k < j - k
      BY <1>2, <1>4, <2>3
    <3>. QED  BY <1>1, <2>3, <3>1
  <2>4. i <= k \/ ~(j <= k)
    BY <1>4
  <2>. QED  BY <2>1, <2>2, <2>3, <2>4
<1>. QED  BY <1>1, <1>3, <1>4 DEF c

-----------------------------------------------------------------------------
(* The listing *)

Present == {k \in Keys : table[k] # NoRow}

\* Page after page: what was listed is in order and not behind the cursor, and no key
\* that stayed was passed over.
ListingInv ==
  /\ lister \in [stage : {"paging", "done"}, after : Keys \cup {0}, keys : Seq(Keys)]
  /\ due \subseteq Matching
  /\ IsFiniteSet(Present)
  /\ \A i, j \in DOMAIN lister.keys : i < j => lister.keys[i] < lister.keys[j]
  /\ lister.stage = "paging" => \A k \in Range(lister.keys) : k <= lister.after
  /\ \A k \in due : k \in Range(lister.keys) \/ (lister.stage = "paging" /\ k > lister.after)

\* Every other operation leaves the lister alone, and the table in a state in which
\* SetTable, or nothing, determines what is due.
LEMMA ListerRests ==
  ASSUME ListingInv, IsFiniteSet(Present'), UNCHANGED lister, SetTable(table') \/ UNCHANGED due
  PROVE  ListingInv'
BY DEF ListingInv, SetTable

\* A page of rows
LEMMA ListPageLists ==
  ASSUME IInv, ListingInv, ListPage
  PROVE  ListingInv'
<1>. DEFINE page == FirstKeys(Listable, Limit)
            keys == lister.keys
            after == lister.after
<1>1. /\ Listable \in SUBSET Nat /\ IsFiniteSet(Listable) /\ Limit \in Nat \ {0}
      /\ Listable \subseteq Keys /\ after \in Nat
  <2>1. Listable \in SUBSET Present
    BY KeysAssumption DEF Listable, Present
  <2>2. IsFiniteSet(Listable)
    BY <2>1, FS_Subset DEF ListingInv
  <2>3. Listable \subseteq Keys /\ Listable \in SUBSET Nat
    BY KeysAssumption DEF Listable
  <2>4. after \in Nat
    <3>1. lister \in [stage : {"paging", "done"}, after : Keys \cup {0}, keys : Seq(Keys)]
      BY DEF ListingInv
    <3>2. after \in Keys \cup {0}
      BY <3>1
    <3>3. \A x \in Keys \cup {0} : x \in Nat
      BY KeysAssumption
    <3>. QED  BY <3>2, <3>3
  <2>. QED  BY <2>2, <2>3, <2>4, LimitsAssumption
<1>2. /\ page \in SUBSET Listable /\ IsFiniteSet(page)
      /\ \A k \in page, j \in Listable : j < k => j \in page
      /\ page = {} => Listable = {}
  <2>1. /\ page \subseteq Listable /\ IsFiniteSet(page)
        /\ \A k \in page, j \in Listable : j < k => j \in page
        /\ Cardinality(page) = IF Cardinality(Listable) <= Limit THEN Cardinality(Listable) ELSE Limit
    BY <1>1, FirstMembers
  <2>2. page = {} => Cardinality(page) = 0
    BY FS_EmptySet
  <2>3. Cardinality(Listable) = 0 => Listable = {}
    BY <1>1, FS_EmptySet
  <2>. QED  BY <1>1, <2>1, <2>2, <2>3
<1>3. /\ lister.stage = "paging"
      /\ lister' = [stage |-> IF Listable = page THEN "done" ELSE "paging",
                    after |-> NextCursor(page),
                    keys  |-> keys \o Ascending(page)]
      /\ due' = {k \in Matching : /\ Permanent(table'[k])
                                  /\ k \in due \/ k > after}
      /\ table' = [k \in Keys |-> IF k \in Outdated THEN NoRow ELSE table[k]]
  BY DEF ListPage, RemoveRows, SetTable
<1>. HIDE DEF page, keys, after
<1>4. PICK stage \in {"paging", "done"}, next \in Keys \cup {0} :
        /\ lister' = [stage |-> stage, after |-> next, keys |-> keys \o Ascending(page)]
        /\ stage = "done" => Listable = page
        /\ stage = "paging" => /\ after < next /\ next \in page
                               /\ \A k \in page : k <= next
  <2>1. CASE Listable = page
    <3>1. NextCursor(page) = after /\ after \in Keys \cup {0}
      BY <2>1 DEF NextCursor, after, ListingInv
    <3>. QED  BY <1>3, <2>1, <3>1
  <2>2. CASE Listable # page
    <3>1. page \in SUBSET Nat /\ page # {}
      BY <1>1, <1>2, <2>2
    <3>2. \E k \in page : \A j \in page : j <= k
      BY <1>2, <3>1, LastMember
    <3>3. NextCursor(page) = CHOOSE k \in page : \A j \in page : j <= k
      BY <2>2 DEF NextCursor
    <3>4. PICK next \in page : next = NextCursor(page) /\ \A j \in page : j <= next
      BY <3>2, <3>3
    <3>5. next \in Keys /\ after < next
      BY <1>1, <1>2 DEF Listable, after
    <3>. QED  BY <1>3, <2>2, <3>4, <3>5
  <2>. QED  BY <2>1, <2>2
<1>5. /\ Ascending(page) \in Seq(Keys) /\ Range(Ascending(page)) = page
      /\ \A i, j \in DOMAIN Ascending(page) : i < j => Ascending(page)[i] < Ascending(page)[j]
  <2>1. page \in SUBSET Nat /\ page \subseteq Keys
    BY <1>1, <1>2
  <2>2. Ascending(page) \in Seq(page)
    BY <1>2, <2>1, InOrder
  <2>3. Ascending(page) \in Seq(Keys)
    <3>1. PICK s \in Seq(page) : s = Ascending(page)
      BY <2>2
    <3>2. /\ Len(s) \in Nat /\ s = [i \in 1..Len(s) |-> s[i]]
          /\ \A i \in 1..Len(s) : s[i] \in Keys
      BY <2>1
    <3>3. s \in Seq(Keys)
      BY <3>2
    <3>. QED  BY <3>1, <3>3
  <2>. QED  BY <1>2, <2>1, <2>3, InOrder
<1>6. /\ keys \in Seq(Keys) /\ \A k \in Range(keys) : k \in Keys /\ k <= after
      /\ \A i, j \in DOMAIN keys : i < j => keys[i] < keys[j]
  <2>1. keys \in Seq(Keys)
    BY DEF ListingInv, keys
  <2>2. \A k \in Range(keys) : k \in Keys
    BY <2>1 DEF Range
  <2>. QED  BY <1>3, <2>1, <2>2 DEF ListingInv, keys, after
<1>7. PICK page1 \in Seq(Keys) : page1 = Ascending(page)
  BY <1>5
<1>8. /\ keys \o page1 \in Seq(Keys) /\ Range(keys \o page1) = Range(keys) \cup page
      /\ \A i, j \in DOMAIN (keys \o page1) : i < j => (keys \o page1)[i] < (keys \o page1)[j]
  <2>. DEFINE R == {r \in Keys \X Keys : r[1] < r[2]}
  <2>1. \A j, k : <<j, k>> \in R <=> j \in Keys /\ k \in Keys /\ j < k
    OBVIOUS
  <2>. HIDE DEF R
  <2>2. \A i, j \in DOMAIN keys : i < j => <<keys[i], keys[j]>> \in R
    BY <1>6, <2>1
  <2>3. \A i, j \in DOMAIN page1 : i < j => <<page1[i], page1[j]>> \in R
    BY <1>5, <1>7, <2>1
  <2>4. \A i \in DOMAIN keys, j \in DOMAIN page1 : <<keys[i], page1[j]>> \in R
    <3>. TAKE i \in DOMAIN keys, j \in DOMAIN page1
    <3>1. keys[i] \in Range(keys) /\ page1[j] \in page
      BY <1>5, <1>7 DEF Range
    <3>2. page1[j] \in Keys /\ after < page1[j]
      BY <1>1, <1>2, <3>1 DEF Listable, after
    <3>3. keys[i] \in Nat /\ page1[j] \in Nat /\ keys[i] <= after
      BY <1>6, <3>1, <3>2, KeysAssumption
    <3>. QED  BY <1>1, <1>6, <2>1, <3>1, <3>2, <3>3
  <2>5. /\ keys \o page1 \in Seq(Keys)
        /\ Range(keys \o page1) = Range(keys) \cup Range(page1)
        /\ \A i, j \in DOMAIN (keys \o page1) : i < j => <<(keys \o page1)[i], (keys \o page1)[j]>> \in R
    BY <1>6, <2>2, <2>3, <2>4, Continues
  <2>. QED  BY <1>5, <1>7, <2>1, <2>5
<1>9. PICK listed \in Seq(Keys) :
        /\ lister' = [stage |-> stage, after |-> next, keys |-> listed]
        /\ Range(listed) = Range(keys) \cup page
        /\ \A i, j \in DOMAIN listed : i < j => listed[i] < listed[j]
  BY <1>4, <1>7, <1>8
<1>10. stage = "paging" => \A k \in Range(listed) : k <= next
  <2>1. SUFFICES ASSUME stage = "paging", NEW k \in Range(listed)  PROVE k <= next
    OBVIOUS
  <2>2. next \in page /\ next \in Nat /\ after < next
    BY <1>1, <1>2, <1>4, <2>1
  <2>3. CASE k \in page
    BY <1>4, <2>1, <2>3
  <2>4. CASE k \in Range(keys)
    <3>1. k \in Nat /\ k <= after
      BY <1>6, <2>4, KeysAssumption
    <3>. QED  BY <1>1, <2>2, <3>1
  <2>. QED  BY <1>9, <2>1, <2>3, <2>4
<1>11. ASSUME NEW k \in due'  PROVE k \in Range(listed) \/ (stage = "paging" /\ k > next)
  <2>1. k \in Matching /\ k \in Keys /\ Permanent(table[k]) /\ (k \in due \/ k > after)
    BY <1>3, <1>11, KeysAssumption DEF Permanent
  <2>2. CASE k \in Range(keys)
    BY <1>9, <2>2
  <2>3. CASE k > after
    <3>1. k \in Listable
      BY <2>1, <2>3 DEF Listable, Permanent, after
    <3>2. CASE stage = "done"
      BY <1>4, <1>9, <3>1, <3>2
    <3>3. CASE stage = "paging" /\ ~(k > next)
      <4>1. next \in page /\ next \in Nat /\ k \in Nat
        BY <1>1, <1>2, <1>4, <3>1, <3>3
      <4>2. k = next \/ k < next
        BY <3>3, <4>1
      <4>. QED  BY <1>2, <1>9, <3>1, <4>1, <4>2
    <3>. QED  BY <3>2, <3>3
  <2>4. k \in Range(keys) \/ k > after
    BY <2>1 DEF ListingInv, keys, after
  <2>. QED  BY <2>2, <2>3, <2>4
<1>12. IsFiniteSet(Present')
  <2>1. Present' \in SUBSET Present
    BY <1>3 DEF Present
  <2>2. IsFiniteSet(Present)
    BY DEF ListingInv
  <2>. QED  BY <2>1, <2>2, FS_Subset
<1>13. due' \subseteq Matching
  BY <1>3
<1>. QED  BY <1>9, <1>10, <1>11, <1>12, <1>13 DEF ListingInv

\* The other operations change few rows, and never the lister.
LEMMA OthersRest ==
  ASSUME IInv, ListingInv, [Next]_vars, ~ListPage
  PROVE  ListingInv'
<1>1. \/ UNCHANGED <<table, due, lister>>
      \/ /\ UNCHANGED lister
         /\ \E K \in SUBSET Keys : RemoveRows(K)
      \/ /\ UNCHANGED lister
         /\ \E p \in Puts : SetTable([table EXCEPT ![puts[p].key] = [blob |-> p, expiration |-> puts[p].expiration]])
  <2>1. ASSUME NEW g \in Gets, GetBegins(g)
        PROVE  \/ UNCHANGED <<table, due, lister>>
               \/ UNCHANGED lister /\ \E K \in SUBSET Keys : RemoveRows(K)
    <3>1. gets[g].key \in Keys
      BY DEF IInv, StorageTypes
    <3>. QED  BY <2>1, <3>1 DEF GetBegins
  <2>2. ASSUME NEW p \in Puts, PutBegins(p) \/ PutFails(p) \/ BlobWritten(p) \/ InsertFails(p)
                               \/ BlobDeleted(p) \/ BlobDeleteFails(p)
        PROVE  UNCHANGED <<table, due, lister>>
    BY <2>2 DEF PutBegins, PutFails, BlobWritten, InsertFails, BlobDeleted, BlobDeleteFails
  <2>3. ASSUME NEW g \in Gets, BlobFetched(g) \/ BlobHeaded(g) \/ RangeFetched(g)
        PROVE  UNCHANGED <<table, due, lister>>
    BY <2>3 DEF BlobFetched, BlobHeaded, RangeFetched
  <2>4. CASE Tick \/ Crash \/ UNCHANGED vars
    BY <2>4 DEF Tick, Crash, vars
  <2>5. CASE DeleteAll \/ \E k \in Keys : Delete(k)
    BY <2>5 DEF DeleteAll, Delete
  <2>6. ASSUME NEW p \in Puts, PutCommits(p)
        PROVE  UNCHANGED lister /\ SetTable([table EXCEPT ![puts[p].key] = [blob |-> p, expiration |-> puts[p].expiration]])
    BY <2>6 DEF PutCommits
  <2>. QED  BY <2>1, <2>2, <2>3, <2>4, <2>5, <2>6 DEF Next
<1>2. IsFiniteSet(Present)
  BY DEF ListingInv
<1>3. CASE UNCHANGED <<table, due, lister>>
  BY <1>2, <1>3, ListerRests DEF Present
<1>4. ASSUME UNCHANGED lister, NEW K \in SUBSET Keys, RemoveRows(K)  PROVE ListingInv'
  <2>1. SetTable(table') /\ table' = [k \in Keys |-> IF k \in K THEN NoRow ELSE table[k]]
    BY <1>4 DEF RemoveRows, SetTable
  <2>2. Present' \in SUBSET Present
    BY <2>1 DEF Present
  <2>. QED  BY <1>2, <1>4, <2>1, <2>2, FS_Subset, ListerRests
<1>5. ASSUME UNCHANGED lister, NEW p \in Puts,
             SetTable([table EXCEPT ![puts[p].key] = [blob |-> p, expiration |-> puts[p].expiration]])
      PROVE  ListingInv'
  <2>1. SetTable(table') /\ table' = [table EXCEPT ![puts[p].key] = [blob |-> p, expiration |-> puts[p].expiration]]
    BY <1>5 DEF SetTable
  <2>2. Present' \in SUBSET (Present \cup {puts[p].key})
    BY <2>1 DEF Present, IInv, StorageTypes
  <2>3. IsFiniteSet(Present \cup {puts[p].key})
    BY <1>2, FS_AddElement
  <2>. QED  BY <1>5, <2>1, <2>2, <2>3, FS_Subset, ListerRests
<1>. QED  BY <1>1, <1>3, <1>4, <1>5

\* `ListingInv` holds in every reachable state, whatever the other calls do between the pages
\* of a listing.
THEOREM ListingInvariance == Spec => []ListingInv
<1>1. Init => ListingInv
  <2>. SUFFICES ASSUME Init PROVE ListingInv
    OBVIOUS
  <2>1. Present = {} /\ IsFiniteSet({})
    BY FS_EmptySet DEF Init, Present
  <2>2. lister = [stage |-> "paging", after |-> 0, keys |-> <<>>] /\ due = {} /\ <<>> \in Seq(Keys)
    BY DEF Init
  <2>3. lister.keys = <<>> /\ Range(<<>>) = {} /\ DOMAIN <<>> = {}
    BY <2>2 DEF Range
  <2>. QED  BY <2>1, <2>2, <2>3 DEF ListingInv
<1>2. IInv /\ ListingInv /\ [Next]_vars => ListingInv'
  BY ListPageLists, OthersRest
<1>. QED  BY <1>1, <1>2, Consistency, PTL DEF Spec

\* Following the cursors to the end returns, once and in order, every key that stayed
\* or was put behind the cursor and never expires, whatever happens between the pages.
THEOREM ListingsAreComplete == Spec => []ListingIsComplete
<1>1. ListingInv => ListingIsComplete
  BY DEF ListingInv, ListingIsComplete
<1>. QED  BY <1>1, ListingInvariance, PTL

\* The rest of the types: a get() counts its ranges down to the last.
CountersFit ==
  /\ now \in 0..MaxNow /\ dangling \subseteq Puts
  /\ \A g \in Gets :
       /\ gets[g].parts \in 0..Parts
       /\ gets[g].stage \in {"idle", "fetching", "heading", "streaming"} => gets[g].parts # 0

LEMMA CountersStayFit == IInv /\ CountersFit /\ [Next]_vars => CountersFit'
<1>. SUFFICES ASSUME IInv, CountersFit, [Next]_vars PROVE CountersFit'
  OBVIOUS
<1>. USE DEF IInv, StorageTypes, CountersFit
<1>1. ASSUME NEW g \in Gets, GetBegins(g) \/ BlobFetched(g) \/ BlobHeaded(g)
      PROVE  CountersFit'
  <2>1. UNCHANGED <<now, dangling>>
    BY <1>1 DEF GetBegins, BlobFetched, BlobHeaded
  <2>2. ASSUME NEW h \in Gets
        PROVE  /\ gets'[h].parts = gets[h].parts
               /\ h # g => gets'[h] = gets[h]
    BY <1>1 DEF GetBegins, BlobFetched, BlobHeaded, SetGet
  <2>3. gets[g].stage \in {"idle", "fetching", "heading"}
    BY <1>1 DEF GetBegins, BlobFetched, BlobHeaded
  <2>. QED  BY <2>1, <2>2, <2>3
<1>2. ASSUME NEW g \in Gets, RangeFetched(g)  PROVE CountersFit'
  <2>1. /\ UNCHANGED <<now, dangling>>
        /\ \A h \in Gets : h # g => gets'[h] = gets[h]
    BY <1>2 DEF RangeFetched
  <2>2. CASE gets[g].row.blob \in blobs
    <3>1. /\ gets'[g].parts = gets[g].parts - 1
          /\ gets'[g].stage = IF gets[g].parts = 1 THEN "value" ELSE "streaming"
      BY <1>2, <2>2 DEF RangeFetched
    <3>2. gets[g].stage = "streaming"
      BY <1>2 DEF RangeFetched
    <3>3. gets[g].parts \in 0..Parts /\ gets[g].parts # 0
      BY <3>2, LimitsAssumption
    <3>. QED  BY <2>1, <3>1, <3>3, LimitsAssumption
  <2>3. CASE gets[g].row.blob \notin blobs
    <3>1. gets'[g].parts = gets[g].parts /\ gets'[g].stage = "broken"
      BY <1>2, <2>3 DEF RangeFetched
    <3>. QED  BY <2>1, <3>1
  <2>. QED  BY <2>2, <2>3
<1>3. CASE Crash
  <2>1. now' = now /\ dangling' \subseteq Puts
    BY <1>3 DEF Crash
  <2>2. ASSUME NEW g \in Gets
        PROVE  gets'[g] = gets[g] \/ (gets'[g].parts = gets[g].parts /\ gets'[g].stage = "failed")
    BY <1>3 DEF Crash
  <2>. QED  BY <2>1, <2>2
<1>4. CASE Tick
  BY <1>4, LimitsAssumption DEF Tick
<1>5. ASSUME NEW p \in Puts, BlobDeleteFails(p)  PROVE CountersFit'
  BY <1>5 DEF BlobDeleteFails
<1>6. CASE UNCHANGED <<now, dangling, gets>>
  BY <1>6
<1>7. UNCHANGED <<now, dangling, gets>> \/ Crash \/ Tick \/ (\E p \in Puts : BlobDeleteFails(p))
      \/ (\E g \in Gets : GetBegins(g) \/ BlobFetched(g) \/ BlobHeaded(g) \/ RangeFetched(g))
  BY DEF Next, vars, PutBegins, PutFails, BlobWritten, PutCommits, InsertFails, BlobDeleted,
         Delete, DeleteAll, ListPage
<1>. QED  BY <1>1, <1>2, <1>3, <1>4, <1>5, <1>6, <1>7

\* The types of KeyValueStorage hold for any number of puts, gets and keys.
THEOREM StorageTypeCorrect == Spec => []TypeOK
<1>1. Init => CountersFit
  BY LimitsAssumption DEF Init, CountersFit
<1>2. Spec => []CountersFit
  BY <1>1, CountersStayFit, Consistency, PTL DEF Spec
<1>3. IInv /\ ListingInv /\ CountersFit => TypeOK
  <2>. SUFFICES ASSUME IInv, ListingInv, CountersFit PROVE TypeOK
    OBVIOUS
  <2>1. ASSUME NEW g \in Gets
        PROVE  gets[g] \in [stage : GetStages, key : Keys, row : Rows \cup {NoRow}, parts : 0..Parts]
    <3>1. gets[g] \in [stage : GetStages, key : Keys, row : Rows \cup {NoRow}, parts : Int]
      BY DEF IInv, StorageTypes
    <3>2. gets[g].parts \in 0..Parts
      BY LimitsAssumption DEF CountersFit
    <3>. QED  BY <3>1, <3>2
  <2>2. gets \in [Gets -> [stage : GetStages, key : Keys, row : Rows \cup {NoRow}, parts : 0..Parts]]
    BY <2>1 DEF IInv, StorageTypes
  <2>3. lister \in [stage : {"paging", "done"}, after : Keys \cup {0}, keys : Seq(Keys)] /\ due \subseteq Keys
    BY KeysAssumption DEF ListingInv
  <2>. QED  BY <2>2, <2>3 DEF IInv, StorageTypes, CountersFit, TypeOK
<1>. QED  BY <1>2, <1>3, Consistency, ListingInvariance, PTL
=============================================================================
