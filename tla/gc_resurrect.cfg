SPECIFICATION Spec
CONSTANTS
  Main = main
  Registry = registry
  NIL = nil
  Obj = {main, registry, a, b, c}
  a = a
  b = b
  main = main
  registry = registry
  nil = nil
  NewKinds = {"udata", "table"}
  NewModes <- WeakKeys
  FullGCs = TRUE
  MaxRefs = 2
  MaxStack = 3
SYMMETRY Symmetry
CONSTRAINT OneTable
ACTION_CONSTRAINTS InTurns SweepOrder
PROPERTIES
  FinalizesGarbage
