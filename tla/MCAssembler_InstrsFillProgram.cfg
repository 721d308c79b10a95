CONSTANTS
  Source <- MCSource
  MainPaths <- MCMainPaths
  FileId <- MCFileId
  ImportPaths <- MCImportPaths
  IdLength <- MCIdLength
  StrayLength = 2
  Unknown = Unknown
  Trap = Trap
  Width = 16
  MaxNesting = 3
  MaxInstrs = 4
SPECIFICATION Spec
INVARIANT InstrsFillProgram
\* The assembler ends, in one way or another.
CHECK_DEADLOCK FALSE
