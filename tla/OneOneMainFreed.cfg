SPECIFICATION Spec
CONSTANTS
  t1 = t1
  t2 = t2
  t3 = t3
  t4 = t4
  NULL = NULL
  Thread = {t1, t2}
  Main = t1
  JoinPairs <- JoinMain
  KillPairs <- NoPairs
  EarlyHandles = FALSE
INVARIANT FreedOnce
