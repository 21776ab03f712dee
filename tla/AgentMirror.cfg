SPECIFICATION Spec
CONSTANTS
  Objects = {o1, o2}
  Workers = {w1, w2}
  Readers = {r1}
  None = None
  Caching = FALSE
  Depth = 1
  MaxAttempts = 2
  Environment = {"delete", "newdir", "offline", "crash"}
  MaxVersion = 2
  MaxEvents = 3
SYMMETRY Symmetry
INVARIANTS NoZombies UnchangedMeansStored OneUpload
