SPECIFICATION Spec
CONSTANTS
  Keys = {k1, k2}
  Hashes = {h1, h2}
  Clients = {c1, c2}
  None = None
  Grace = 1
  Interval = 0
  Environment = {"crash", "kill", "commitFails", "rebuild", "reupload", "sameKey"}
  MaxSeq = 4
  MaxClock = 0
SYMMETRY Symmetry
INVARIANTS RebuildIsReplay
