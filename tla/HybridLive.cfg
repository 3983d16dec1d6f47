SPECIFICATION FairSpec
CONSTANTS
  t1 = t1
  t2 = t2
  t3 = t3
  t4 = t4
  NULL = NULL
  Main = t1
  Thread = {t1, t2, t3}
  OneOne = {t1}
  KThread = {k1}
  Signal = {s1}
  JoinPairs <- JoinChain
  KillPairs <- KillMM
  Masker = {t3}
  Creator = {t1, t2, t3}
PROPERTIES
  JoinReturns
  KillReturns
  SignalDelivered
