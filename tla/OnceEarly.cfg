SPECIFICATION OnceSpec
CONSTANTS
  Thread = {t1, t2}
  NULL = NULL
INVARIANT
  ReadyOnReturn
