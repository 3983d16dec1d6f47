SPECIFICATION Spec
CONSTANTS
  t1 = t1
  t2 = t2
  t3 = t3
  t4 = t4
  NULL = NULL
  Thread = {t1, t2, t3}
  Main = t1
  JoinPairs <- TwoJoiners
  KillPairs <- KillMain
  EarlyHandles = FALSE
INVARIANT JoinAfterExit
