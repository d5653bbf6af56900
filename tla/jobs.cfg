\* A sealed plan of two batches, or one batch over two routes; two tool rounds,
\* every repair, two claims per action.
SPECIFICATION FairSpec
CONSTANTS
  Width = 2
  Rounds = 2
  MaxFence = 2
  NONE = NONE
PROPERTIES ImplementsDialogue PlannedJobsEnd
CHECK_DEADLOCK FALSE
