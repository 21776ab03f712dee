SPECIFICATION JournalSpec
CONSTANTS
  Records = {r1, r2}
  Corrupt = Corrupt
  MaxSegment = 2
  Environment = {"kill", "power", "diskFails"}
  MaxSeq = 5
SYMMETRY Symmetry
INVARIANTS AckedIsDurable ReplayIsExact
PROPERTY ImplementsLog
