\* Entries: a reader, a lister and three puts of two keys, with crashes.  Bucket:
\* two uploads, three writes and a read of one key.  A listing; ranged reads.
\* Stream: a video, a watermark and three calls for one caption.
SPECIFICATION StorageSpec
CONSTANTS
  Never = Never
  NoRow = NoRow
  Keys = {1, 2}
  Matching = {1, 2}
  Puts = {w1, w2, w3}
  Gets = {r1}
  Expirations = {1, Never}
  MaxNow = 1
  Limit = 1
  Parts = 2
  k1 = k1
  w1 = w1
  w2 = w2
  w3 = w3
  u1 = u1
  u2 = u2
  r1 = r1
  ObjectKeys = {k1}
  Uploads = {u1, u2}
  Writes = {w1, w2, w3}
  Reads = {r1}
  PartNumbers = {1, 2}
  SizeOf <- MCSizeOf
  MinPartSize = 2
  Nothing = Nothing
  Anything = Anything
  ListedKeys = {1, 2, 3, 4}
  GroupOf <- MCGroupOf
  Prefixes = {2}
  PageLimit = 1
  StartAfter = 0
  PartSize = 2
  MaxParts = 3
  MaxAsked = 7
  Unset = Unset
  v1 = v1
  m1 = m1
  Videos = {v1}
  Watermarks = {m1}
  Captions = {w1, w2, w3}
  NoCaption = NoCaption
  NoBlob = NoBlob
SYMMETRY StorageSymmetry
INVARIANTS
  RowsHaveBlobs
  NothingLeaks
  UndisturbedGetSucceeds
  ListingIsComplete
  ObjectsMatchParts
  BlobsAreKept
  NoLostUpdate
  OnlyInvalidPutsLeak
  PagesAreComplete
  RangesAreExact
  TablesMatchBlobs
\* When every operation has ended nothing is left to do.
CHECK_DEADLOCK FALSE
