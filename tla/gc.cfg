SPECIFICATION Spec
CONSTANTS
  Main = main
  Registry = registry
  NIL = nil
  Obj = {main, registry, a, b}
  a = a
  b = b
  main = main
  registry = registry
  nil = nil
  NewKinds = {"thread", "string", "table", "closure", "udata"}
  NewModes <- WeakModes
  FullGCs = TRUE
  MaxRefs = 1
  MaxStack = 2
SYMMETRY Symmetry
CONSTRAINT Families
ACTION_CONSTRAINT SweepOrder
INVARIANTS
  IInv
  TriColor
  NoDangling
  GrayListed
  IdleWhite
PROPERTIES
  FinalizeFirst
  ImplementsHeap
