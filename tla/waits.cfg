\* One worker, scans of one candidate.  The budget refuses run 1's tools and
\* repairs and run 2's claims; run 2 may lose a call, run 3's formatter may ask
\* for tools.
SPECIFICATION FairSpec
CONSTANTS
  Runs = {1, 2, 3}
  Workers = {w1}
  Limit = 1
  Wide = {3}
  NoClaim = {2}
  NoTools = {1}
  NoRepair = {1}
  Lossy = {2}
  Unruly = {3}
  NONE = NONE
INVARIANTS TypeOK NothingIsForgotten CompletedIsFinal
PROPERTIES PendingIsClaimed ToolsAdvance PreparedIsSent
CHECK_DEADLOCK FALSE
