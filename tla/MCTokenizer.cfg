CONSTANTS
  Files <- MCFiles
  Opcode <- MCOpcode
  MAX_ID_LEN = 6
  LINEBUF_INIT_SIZE = 8
  LINEBUF_GROWTH_FACTOR = 4
  MaxLinenum = 2
SPECIFICATION FairSpec
INVARIANTS TypeOK TokenizesWords RefusesExactly ColumnsPoint ErrorsQuoteTheirLine
PROPERTY ParseEnds
\* Parsing ends, in one way or another.
CHECK_DEADLOCK FALSE
