SPECIFICATION FairSpec
CONSTANTS
  NONE = NONE  TYPED = TYPED
  Runs = {r1}
  Findings = {f1}
  Deliveries = {d1}
  Workers = {w1}
  Callers = {h1}
  QueueSize = 1
  MaxAsked = 3
  MaxFaults = 1
INVARIANTS TypeOK OnlyApprovedIsFinal RunningIsWorkedOn OneCommentEach FinalizedIsDelivered
PROPERTIES MarksAreCleared
CHECK_DEADLOCK FALSE
