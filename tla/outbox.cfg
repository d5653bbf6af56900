\* Two authorizations of two attempts, a claim and its takeover or lookup each.
SPECIFICATION FairSpec
CONSTANTS
  Commands = {k1, k2}
  MaxAttempt = 2
  MaxFence = 2
  NONE = NONE
CHECK_DEADLOCK FALSE
PROPERTIES ImplementsPromise SendingResolves AuthorizationsMaterialize
