CONSTANTS
  Junk = Junk
  NoAddr = NoAddr
  Addr = {a1, a2}
  WordMod <- MCWordMod
  FarIndex <- MCFarIndex
  Limits <- MCLimits
  InitLimits <- MCInitLimits
SPECIFICATION Spec
INVARIANTS TypeOK TopTracksLevel
PROPERTY ImplementsLifo
\* An exception nobody catches ends the program.
CHECK_DEADLOCK FALSE
