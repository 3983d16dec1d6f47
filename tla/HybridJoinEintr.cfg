SPECIFICATION Spec
CHECK_DEADLOCK FALSE
CONSTANTS
  t1 = t1
  t2 = t2
  t3 = t3
  t4 = t4
  NULL = NULL
  Main = t1
  Thread = {t1, t2}
  OneOne = {t1}
  KThread = {k1}
  Signal = {s1}
  JoinPairs <- JoinChild
  KillPairs <- KillJoiner
  Masker = {}
  Creator = {t1}
INVARIANT
  JoinSound
