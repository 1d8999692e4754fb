SPECIFICATION RefSpec
CONSTANTS
  b1 = b1
  t1 = t1
  t2 = t2
  x = x
  y = y
  LUA_TNIL = nil
  Bases = {b1}
  Threads = {t1, t2}
  Obj = {x, y}
  Twice = TRUE
  MaxRef = 3
SYMMETRY Symmetry
INVARIANTS
  ThreadsKept
CHECK_DEADLOCK FALSE
