SPECIFICATION FairSpec
CONSTANTS
  Keys = {k1, k2}
  Hashes = {h1, h2}
  Clients = {c1}
  None = None
  Grace = 1
  Interval = 1
  Environment = {"crash", "reupload"}
  MaxSeq = 3
  MaxClock = 2
INVARIANTS TypeOK IndexIsReplay RecoveryReachesJournal NeverInflated
PROPERTIES ImplementsObjects GarbageIsReclaimed
