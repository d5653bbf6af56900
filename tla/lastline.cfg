SPECIFICATION Spec
CONSTANTS
  NONE = NONE  PROJECT = PROJECT  NOWHERE = NOWHERE  UNSAID = UNSAID
  Scenarios <- LastLine
  Providers = 1
  MaxRounds = 1
  MaxRequests = 1
INVARIANTS CommentsOnAddedLines
CHECK_DEADLOCK FALSE
