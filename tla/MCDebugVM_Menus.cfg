CONSTANTS
  MemoryWords = 18
  MetadataWords = 2
  ByteMod <- MCWordMod
  WordMod <- MCWordMod
  Mnemonic <- MCMnemonic
  Junk <- MCJunk
  Trap <- MCTrap
  UintOp <- MCUintOp
  IntOp <- MCIntOp
  IntLess <- MCIntLess
  WorkWords = 2
  CallBlock = 2
  Programs <- MCMenuPrograms
  FreshTypes = {"NOTYPE"}
  LockOptions = {TRUE}
  Inputs <- MCMenuInputs
  EditWords <- MCEditWords
  EditValues <- MCEditValues
  MaxFrames = 12
  MaxHistory = 1
SPECIFICATION Spec
INVARIANTS TypeOK PositionAgrees EndedSessionEnds
\* The program may exit, and an exception nobody catches ends it.
CHECK_DEADLOCK FALSE
