SPECIFICATION FairSpec
CONSTANTS
  NONE = NONE  PROJECT = PROJECT  NOWHERE = NOWHERE  UNSAID = UNSAID
  Scenarios <- Everything
  Providers = 2
  MaxRounds = 2
  MaxRequests = 3
INVARIANTS TypeOK ObligationsHold CallsAreAllowed IncompleteReviewsFail EvidenceIsRelevant AcceptedIsGrounded InlineOnAddedLine GateIsHonest
PROPERTIES ReviewEnds
CHECK_DEADLOCK FALSE
