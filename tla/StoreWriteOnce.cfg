SPECIFICATION Spec
CONSTANTS
  Keys = {k1, k2}
  Hashes = {h1, h2, h3}
  Clients = {c1, c2}
  None = None
  Grace = 2
  Interval = 1
  Environment = {"crash", "passFails"}
  MaxSeq = 3
  MaxClock = 2
SYMMETRY Symmetry
INVARIANTS Healthy ReadFindsBlob RefsExact
