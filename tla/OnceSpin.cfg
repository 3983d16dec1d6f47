SPECIFICATION FairOnceSpec
CONSTANTS
  Thread = {t1, t2, t3, t4}
  NULL = NULL
INVARIANT
  OwnerAlone
PROPERTIES
  ImplementsMutex
  UsesSpinLock
  OnceInitializes
