SPECIFICATION Spec
CONSTANTS
  NONE = NONE  PROJECT = PROJECT  NOWHERE = NOWHERE  UNSAID = UNSAID
  Scenarios <- Planned
  Providers = 2
  MaxRounds = 2
  MaxRequests = 3
INVARIANTS PlansAreKept
CHECK_DEADLOCK FALSE
