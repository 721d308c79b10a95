CONSTANTS
  MemoryWords = 20
  MetadataWords = 2
  ByteMod = 16
  Mnemonic <- MCMnemonic
  Junk <- MCJunk
  MaxInstrs = 4
  OperandValues = {0, 3}
SPECIFICATION Programs
INVARIANT PrefixIsRecorded
\* Programs have at most MaxInstrs instructions.
CHECK_DEADLOCK FALSE
