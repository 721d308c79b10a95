CONSTANTS
  MemoryWords = 18
  MetadataWords = 2
  ByteMod <- MCWordMod
  WordMod <- MCWordMod
  Mnemonic <- MCMnemonic
  Junk <- MCJunk
  Trap <- MCTrap
  UintOp <- MCUintOp
  IntOp <- MCIntOp
  IntLess <- MCIntLess
  WorkWords = 4
  CallBlock = 2
  Programs <- MCStackPrograms
  FreshTypes = {"NOTYPE"}
  LockOptions = {TRUE}
  Inputs <- MCUndoInputs
  EditWords <- MCEditWords
  EditValues <- MCEditValues
  MaxFrames = 12
  MaxHistory = 3
SPECIFICATION Spec
PROPERTY UndoReverses
\* The program may exit, and an exception nobody catches ends it.
CHECK_DEADLOCK FALSE
