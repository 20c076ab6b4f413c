SPECIFICATION FairSpec
CONSTANTS
  Loads = 2
  NumPages = 2
  Scales = {1, 2}
  CluePages = {1}
  MaxDoings = 2
  MaxFaults = 1
CHECK_DEADLOCK FALSE
INVARIANTS PictureTrue
PROPERTIES ViewerSettles
