SPECIFICATION Spec
CONSTANTS
  Keys = {k1, k2}
  Hashes = {h1, h2}
  Clients = {c1}
  None = None
  Grace = 2
  Interval = 1
  Environment = {"reupload"}
  MaxSeq = 3
  MaxClock = 2
SYMMETRY Symmetry
INVARIANT Healthy
