------------------------------ MODULE MCStorage ------------------------------
(* The stores of the simulators for TLC.  They do not share state, so each *)
(* behaviour is about one of them: `store' says which, and the others rest *)
(* in one initial state.                                                   *)
EXTENDS KeyValueStorage, R2Bucket, R2Listing, R2Ranges, StreamStore, TLC

CONSTANTS w1, w2, w3,   \* writes: puts of entries, of the bucket, and captions
          u1, u2,       \* multipart uploads
          r1,           \* a read
          k1,           \* a key of the bucket
          v1, m1        \* a video, a watermark

VARIABLE store

storageVars == <<vars, bucketVars, listingVars, rangeVars, streamVars, store>>

\* One part that is smaller than the others
MCSizeOf == [w \in Writes |-> IF w = w1 THEN 1 ELSE 2]

MCGroupOf == [k \in ListedKeys |-> IF k \in {2, 3} THEN 2 ELSE k]

\* w1 writes the smaller part.
StorageSymmetry == Permutations({w2, w3}) \cup Permutations(Uploads)

\* Writes that differ in nothing but their names need not be tried in every order.
Ordered(rank(_)) == rank(w1) <= rank(w2) /\ rank(w2) <= rank(w3)

PutRank(p) == 2 * puts[p].key + (IF puts[p].expiration = Never THEN 1 ELSE 0)
CaptionRank(c) == IF captions[c].generated THEN 1 ELSE 0

\* The same value for all of them, when the behaviour is about another store
RestingUnless(name, f, x) == store # name => \A d \in DOMAIN f : f[d] = x

StorageInit ==
  /\ store \in {"entries", "bucket", "listing", "ranges", "stream"}
  /\ Init
  /\ Ordered(PutRank)
  /\ RestingUnless("entries", puts, [stage |-> "idle", key |-> 1, expiration |-> Never])
  /\ puts[w2].key = 1                  \* two puts of one key, one of which may expire
  /\ puts[w2].expiration = Never
  /\ \A g \in Gets : gets[g].key = 1   \* which is read
  /\ BucketInit
  /\ ListingInit
  /\ store # "listing" => present = {}
  /\ RangesInit
  /\ store # "ranges" => /\ object = [parts |-> 1, last |-> 1]
                         /\ request = [by |-> "header", start |-> Unset, end |-> Unset]
  /\ StreamInit
  /\ Ordered(CaptionRank)
  /\ RestingUnless("stream", captions,
                   [video |-> v1, generated |-> FALSE, stage |-> "idle", old |-> NoCaption])

StorageNext ==
  \/ /\ store = "entries" /\ Next
     /\ UNCHANGED <<bucketVars, listingVars, rangeVars, streamVars, store>>
  \/ /\ store = "bucket" /\ BucketNext
     /\ UNCHANGED <<vars, listingVars, rangeVars, streamVars, store>>
  \/ /\ store = "listing" /\ ListingNext
     /\ UNCHANGED <<vars, bucketVars, rangeVars, streamVars, store>>
  \/ /\ store = "ranges" /\ RangesNext
     /\ UNCHANGED <<vars, bucketVars, listingVars, streamVars, store>>
  \/ /\ store = "stream" /\ StreamNext
     /\ UNCHANGED <<vars, bucketVars, listingVars, rangeVars, store>>

StorageSpec == StorageInit /\ [][StorageNext]_storageVars

StorageTypeOK == TypeOK /\ BucketTypeOK /\ ListingTypeOK /\ StreamTypeOK
=============================================================================
