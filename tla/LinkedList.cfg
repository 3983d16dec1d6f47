SPECIFICATION Spec
CONSTANTS
  NULL = NULL
  JUNK = JUNK
  Actor = {a1, a2}
  Node = {n1, n2, n3, n4}
  List = {ready, waiting}
INVARIANT
  Represents
PROPERTY
  ImplementsQueue
