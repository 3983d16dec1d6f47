SPECIFICATION Spec
CONSTANTS
  t1 = t1
  t2 = t2
  t3 = t3
  NULL = NULL
  Main = t1
  Thread = {t1, t2}
  KThread = {k1, k2}
  Mutex = {}
  Signal = {s1}
  Ops = {"create", "kill", "sigmask", "exit"}
  JoinPairs <- NoPairs
  KillPairs <- KillChild
INVARIANTS
  SignalToTarget
