SPECIFICATION FairSpec
CONSTANTS
  Thread = {t1, t2, t3, t4}
  NULL = NULL
INVARIANTS
  MutualExclusion
  OwnerIsHolder
  NoLostWakeup
PROPERTIES
  FreeMutexTaken
  ImplementsMutex
