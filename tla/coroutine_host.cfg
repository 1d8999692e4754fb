SPECIFICATION Spec
CONSTANTS
  a = a
  b = b
  m = m
  Coroutine = {a, b}
  Hosted = {b}
  Main = m
  CallsOn = {m, b}
  LUAI_MAXCCALLS = 4
  Spare = 2
  MaxFrames <- Frames
PROPERTIES
  YieldReturns
