SPECIFICATION FairSpec
CONSTANTS
  t1 = t1
  t2 = t2
  t3 = t3
  t4 = t4
  NULL = NULL
  Thread = {t1, t2, t3, t4}
  Main = t1
  JoinPairs <- ChildJoins
  KillPairs <- KillTarget
  EarlyHandles = FALSE
INVARIANTS
  StackInUse
  FreedOnce
  JoinAfterExit
  NoSleepOnOver
  JoinerFrees
PROPERTIES
  JoinReturns
