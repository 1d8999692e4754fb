SPECIFICATION SpecParts
CONSTANTS
  b1 = b1
  o1 = o1
  Key = {1, 2, 3, b1, o1}
  StringKeys = {b1}
  ObjectKeys = {o1}
  Val = {v}
  Nil = nil
  Hashes <- Collisions
  Value <- Digits
  NIL = nil
  Less <- LessDef
  Lists <- ListsDef
  Wild <- Anything
  String = {"a", "b", "c", "d", "e"}
  Hash <- StringHash
  MINSTRTABSIZE = 1
  LUAL_BUFFERSIZE = 2
  LIMIT = 4
  MaxText = 16
  MaxAdd = 4
  Calls <- CallsDef
  Matcher <- AttemptDef
  Meaning <- MeaningDef
  IsPattern <- IsPatternDef
  Name = {m1, m2, m3}
  Loaders = 2
  Bases = {base1, base2}
  Threads = {thread1}
  Obj = {x, y}
  LUA_TNIL = niltype
  Twice = FALSE
  MaxRef = 3
INVARIANTS
  IInv
  Sorts
  ChainsOK
  MainInvariant
  RoomAfterRehash
  NoneSkipped
  GetnIsBorder
  Interned
  MatchesAsManual
  BufferKeepsText
  LoadsOnce
  RefInv
  RefsHold
  FreeListOK
PROPERTIES
  ImplementsMap
  ImplementsRefTable
CHECK_DEADLOCK FALSE
