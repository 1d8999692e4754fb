SPECIFICATION Spec
CONSTANTS
  a = a
  b = b
  m = m
  Coroutine = {a, b}
  Hosted = {b}
  Main = m
  CallsOn = {m}
  LUAI_MAXCCALLS = 4
  Spare = 2
  MaxFrames <- Frames
CONSTRAINT InAll
INVARIANTS
  Counted
  CStackBounded
  YieldClean
PROPERTIES
  YieldReturns
  ImplementsLifecycle
