SPECIFICATION FairSpec
CHECK_DEADLOCK FALSE
CONSTANTS
  t1 = t1
  t2 = t2
  t3 = t3
  t4 = t4
  NULL = NULL
  Main = t1
  Thread = {t1, t2, t3}
  OneOne = {t1, t3}
  KThread = {k1}
  Signal = {}
  JoinPairs <- MMJoinsOO
  KillPairs <- NoPairs
  Masker = {}
  Creator = {t1, t2, t3}
PROPERTY
  JoinReturns
