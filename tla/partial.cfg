\* Run 1 may lose one of its two batches.
SPECIFICATION FairSpec
CONSTANTS
  Runs = {1, 2}
  Workers = {w1}
  Limit = 8
  Wide = {1}
  NoClaim = {}
  NoTools = {}
  NoRepair = {}
  Lossy = {1}
  Unruly = {}
  NONE = NONE
PROPERTIES CompleteGroupsReduce
CHECK_DEADLOCK FALSE
