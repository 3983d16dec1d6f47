SPECIFICATION Spec
CONSTANTS
  t1 = t1
  t2 = t2
  t3 = t3
  NULL = NULL
  Main = t1
  Thread = {t1, t2, t3}
  KThread = {k1, k2}
  Mutex = {m1}
  Signal = {}
  Ops = {"create", "join", "init", "destroy", "lock", "trylock", "unlock", "exit"}
  JoinPairs <- TwoJoiners
  KillPairs <- NoPairs
SYMMETRY Symmetry
INVARIANTS
  OnePlace
  NoLostThread
  MutexExclusion
  DestroyedNotUsed
PROPERTIES
  ImplementsMutex
