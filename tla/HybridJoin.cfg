CHECK_DEADLOCK FALSE
SPECIFICATION Spec
CONSTANTS
  t1 = t1
  t2 = t2
  t3 = t3
  t4 = t4
  NULL = NULL
  Main = t1
  Thread = {t1, t2, t3, t4}
  OneOne = {t1, t3}
  KThread = {k1, k2}
  Signal = {s1}
  JoinPairs <- MixedJoins
  KillPairs <- KillOO
  Masker = {t3}
  Creator = {t1, t2}
SYMMETRY Symmetry
INVARIANTS
  TypeOK
  JoinSound
  FreedOnce
  OnePlace
  NoSleepOnOver
  HolderOnCpu
