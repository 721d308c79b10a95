CONSTANTS
  Programs <- MCPrograms
  Inputs <- MCInputs
  MaxFrames = 5
SPECIFICATION FairSpec
INVARIANTS TypeOK WalksBuiltFrames
PROPERTIES DoneBuilderIsSafe QuitEndsProcess
\* The process ends.
CHECK_DEADLOCK FALSE
