SPECIFICATION FairReplicaSpec
CONSTANTS
  Keys = {k1, k2}
  Hashes = {h1, h2}
  Clients = {}
  None = None
  Grace = 1
  Interval = 0
  Environment = {"crash", "rebuild", "reupload", "commitFails"}
  MaxSeq = 4
  MaxClock = 0
  Batch = 2
  Hardships = {"offline"}
INVARIANTS ReplicaTypeOK JournalIsPrefix MirrorsPrimary ReplicaHealthy
PROPERTY CatchesUp
