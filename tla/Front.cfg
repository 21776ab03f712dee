SPECIFICATION FrontSpec
CONSTANTS
  a = a
  b = b
  other = other
  garbage = garbage
  Documents <- MCDocuments
  Garbage <- garbage
  Invalid = Invalid
  DefaultKeep = 2
  MaxEdits = 2
  Bucket = wp
  Keys = {1, 2, 3, 4}
  Matching = {1, 2, 3, 4}
  Group <- MCGroup
  Versions = {1, 2}
  PageSize = 2
  None = None
  MaxChanges = 2
INVARIANTS KeptApart SettledRuns ListedOnce NothingMissed ReplyMatches
PROPERTY ListingEnds
