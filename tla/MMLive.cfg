SPECIFICATION FairSpec
CONSTANTS
  t1 = t1
  t2 = t2
  t3 = t3
  NULL = NULL
  Main = t1
  Thread = {t1, t2}
  KThread = {k1, k2}
  Mutex = {m1}
  Signal = {}
  Ops = {"create", "join", "init", "lock", "unlock", "exit"}
  JoinPairs <- JoinChild
  KillPairs <- NoPairs
PROPERTIES
  HandOverArrives
  JoinReturns
  ProgramExits
