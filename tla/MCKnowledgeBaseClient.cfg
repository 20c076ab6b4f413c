SPECIFICATION FairSpec
CONSTANTS
  f1 = f1
  f2 = f2
  None = None
  File <- TwoFiles
  TotalChunks = 2
  MaxUploads = 1
  Parallel = 1
  PageSize = 1
  MaxActs = 2
  MaxFails = 1
  MaxLists = 2
CHECK_DEADLOCK FALSE
INVARIANTS TasksTrue
PROPERTIES UploadsMove
