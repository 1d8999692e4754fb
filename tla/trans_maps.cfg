SPECIFICATION FairParts
CONSTANTS
  a = a
  b = b
  g = g
  NULL = null
  Object = {a, b, g}
  Generated = {g}
  EqualTo <- Identity
  Reentrant = FALSE
  Failing = TRUE
  MaxId = 6
  MaxDepth = 1
  x = x
  y = y
  main = main
  registry = registry
  nil = nil
  Obj = {main, registry, x, y}
  Main = main
  Registry = registry
  NIL = nil
  NewKinds = {"closure"}
  NewModes <- NoModes
  FullGCs = TRUE
  MaxRefs = 1
  MaxStack = 2
INVARIANTS
  IInv
  HeldKnown
  PushesSelf
PROPERTIES
  ImplementsHandles
  EventuallyReleased
  EventuallyCollected
CHECK_DEADLOCK FALSE
