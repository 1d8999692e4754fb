SPECIFICATION Spec
CONSTANTS
  Programs <- AllPrograms
  Parse    <- Parsed
  Manual   <- Meant
INVARIANTS RunsAsWritten CompilerAssertsHold UndumpRestores VMAssertsHold OpenUpvaluesLive FlagsSound
CHECK_DEADLOCK FALSE
