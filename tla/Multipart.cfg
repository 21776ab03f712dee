SPECIFICATION MultipartSpec
CONSTANTS
  Keys = {k1}
  Hashes = {h1, h2, h12}
  Whole = h12
  Clients = {c1, c2}
  Uploads = {u1}
  Numbers = {1, 2}
  None = None
  Grace = 1
  Interval = 1
  Environment = {"crash", "rebuild"}
  Mishaps = {}
  MaxSeq = 1
  MaxClock = 2
SYMMETRY Symmetry
INVARIANTS PartsCounted PartsKept AckedPartKept
CHECK_DEADLOCK FALSE
