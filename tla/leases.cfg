SPECIFICATION Spec
CONSTANTS
  NONE = NONE
  t1 = t1  t2 = t2  c1 = c1  c2 = c2  a1 = a1  a2 = a2  a3 = a3
  Attempts = {t1}
  Changes = {c1}
  Project = project
  Actions = {a1, a3}
  Workers = {w1, w2, w3}
  Resources <- MCResources
  ChangeOf <- MCChangeOf
  Upper <- MCUpper
  Limit <- MCLimit
  Ceiling <- MCCeiling
  Deadline <- LongDeadline
  ValidFrom <- MCFrom
  ValidUntil <- MCUntil
  Anchor <- MCAnchor
  Duration <- MCDuration
  LeaseTime = 1
  Outcomes <- MCOutcomes
  FinalReceipts <- MCOverrun
  MaxFence = 3
  MaxNow = 3
  MaxQuarantine = 0
INVARIANTS
  AtMostOneCall
PROPERTIES
  IncidentFreezes
CHECK_DEADLOCK FALSE
