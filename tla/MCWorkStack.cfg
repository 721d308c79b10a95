CONSTANTS
  Value = {v1, v2}
  Torn = Torn
  Junk = Junk
  NoValue = NoValue
  WordMod <- MCWordMod
  MemorySizes <- MCMemorySizes
  SetAddrs <- MCSetAddrs
  FreshTypes <- MCFreshTypes
SPECIFICATION Spec
INVARIANTS TypeOK TopTracksCount WordsAreWhole
PROPERTY ImplementsTypedStack
\* An exception nobody catches ends the program.
CHECK_DEADLOCK FALSE
