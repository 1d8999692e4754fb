SPECIFICATION Spec
CONSTANTS
  Main = main
  Registry = registry
  NIL = nil
  Obj = {main, registry, a, b}
  a = a
  b = b
  main = main
  registry = registry
  nil = nil
  NewKinds = {"udata", "table"}
  NewModes <- WeakKeys
  FullGCs = FALSE
  MaxRefs = 1
  MaxStack = 2
SYMMETRY Symmetry
INVARIANTS
  BarrierAsserts
