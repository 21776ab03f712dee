SPECIFICATION CacheSpec
CONSTANTS
  Objects = {o1, o2, o3}
  Sizes = {1, 2}
  NeverEvict = {o3}
  KeepBelow = 2
  MaxSize = 2
  None = None
  Hardships = {"short", "flushFails"}
  MaxFiles = 2
  MaxClock = 1
SYMMETRY Symmetry
INVARIANTS StatsExact PassFits ColdestGo MountAnswers
PROPERTIES KeepersKeep
