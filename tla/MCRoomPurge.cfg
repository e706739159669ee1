CONSTANTS
  o1 = o1
  Owner = {o1}
  Purge = {1, 2}
  PurgeAttempts = 2
SPECIFICATION FairSpec
INVARIANTS TypeOK PurgeSound NoResurrection
PROPERTIES PurgeEnds
CHECK_DEADLOCK FALSE
