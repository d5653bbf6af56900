SPECIFICATION Spec
CONSTANTS
  NONE = NONE
  t1 = t1  t2 = t2  c1 = c1  c2 = c2  a1 = a1  a2 = a2  a3 = a3
  Attempts = {t1, t2}
  Changes = {c1, c2}
  Project = project
  Actions = {a1, a2}
  Workers = {}
  Resources <- MCResources
  ChangeOf <- MCChangeOf
  Upper <- MCUpper
  Limit <- MCLimit
  Ceiling <- MCCeiling
  Deadline <- MCDeadline
  ValidFrom <- MCFrom
  ValidUntil <- MCUntil
  Anchor <- MCAnchor
  Duration <- MCDuration
  LeaseTime = 1
  Outcomes <- MCOutcomes
  FinalReceipts <- MCReceipts
  MaxFence = 0
  MaxNow = 2
  MaxQuarantine = 1
INVARIANTS
  TypeOK
  PeriodWithinCeiling
PROPERTIES
  ChargeFallsOnlyOnProof
  ImplementsSpendingCap
CHECK_DEADLOCK FALSE
