\* Two handlers that accept a delivery and operators' requests for one change, each
\* repeated at will.
SPECIFICATION Spec
CONSTANTS
  NONE = NONE
  c1 = c1  d1 = d1  d2 = d2  h1 = h1  h2 = h2
  Changes = {c1}
  Handlers = {h1, h2}
  Actions = {1}
  Requests <- DispatchRequests
  MaxRun = 2
  MaxHead = 2
  MaxFence = 2
INVARIANTS TypeOK OneRunPerDelivery OneLine SnapshotsAdvance FinishedIsResolved
PROPERTIES StoppedStaysStopped
SYMMETRY Identical
CHECK_DEADLOCK FALSE
