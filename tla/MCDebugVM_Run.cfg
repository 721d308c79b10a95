CONSTANTS
  MemoryWords = 18
  MetadataWords = 2
  ByteMod <- MCWordMod
  WordMod <- MCWordMod
  Mnemonic <- MCMnemonic
  Junk <- MCJunk
  Trap <- MCTrap
  UintOp <- MCUintOp
  IntOp <- MCIntOp
  IntLess <- MCIntLess
  WorkWords = 4
  CallBlock = 2
  Programs <- MCFinite
  FreshTypes = {"NOTYPE"}
  LockOptions = {TRUE, FALSE}
  Inputs <- MCRunInputs
  EditWords <- MCEditWords
  EditValues <- MCEditValues
  MaxFrames = 12
  MaxHistory = 3
SPECIFICATION FairSpec
PROPERTIES UndoRestoresWorkStack BreakpointRunStops
\* The program may exit, and an exception nobody catches ends it.
CHECK_DEADLOCK FALSE
