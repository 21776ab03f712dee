SPECIFICATION FairSpec
CONSTANTS
  Objects = {o1}
  Workers = {w1}
  Readers = {r1, r2}
  None = None
  Caching = TRUE
  Depth = 1
  MaxAttempts = 1
  Environment = {"offline", "crash"}
  MaxVersion = 2
  MaxEvents = 2
INVARIANTS NothingLost ReadersSeeLatest OneRecall
PROPERTY UploadsHappen
