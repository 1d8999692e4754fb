SPECIFICATION Spec
CONSTANTS
  a = a
  b = b
  g = g
  NULL = null
  Object = {a, b}
  Generated = {}
  EqualTo <- Identity
  Reentrant = TRUE
  Failing = FALSE
  MaxId = 4
  MaxDepth = 2
INVARIANTS
  HeldKnown
CHECK_DEADLOCK FALSE
