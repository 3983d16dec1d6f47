SPECIFICATION FairSpec
CONSTANTS
  t1 = t1
  t2 = t2
  t3 = t3
  t4 = t4
  NULL = NULL
  Thread = {t1, t2, t3}
  Main = t1
  JoinPairs <- TwoJoiners
  KillPairs <- NoPairs
  EarlyHandles = TRUE
PROPERTY JoinReturns
CHECK_DEADLOCK FALSE
