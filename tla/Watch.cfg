SPECIFICATION WatchSpec
CONSTANTS
  year = year
  jan = jan
  feb = feb
  Root = uploads
  Dirs = {uploads, year, jan, feb}
  ParentOf <- MCParentOf
  Hardships = {}
  MaxWrites = 3
  MaxEvents = 3
SYMMETRY Symmetry
INVARIANT NothingUnnoticed
