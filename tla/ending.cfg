\* One handler and two deliveries, of one revision or of two; two actions, which may
\* be of one run or of two.
SPECIFICATION FairSpec
CONSTANTS
  NONE = NONE
  c1 = c1  d1 = d1  d2 = d2  h1 = h1  h2 = h2
  Changes = {c1}
  Handlers = {h1}
  Actions = {1, 2}
  Requests <- EndingRequests
  MaxRun = 2
  MaxHead = 2
  MaxFence = 1
PROPERTIES RunsEnd UnusedIsReleased
CHECK_DEADLOCK FALSE
