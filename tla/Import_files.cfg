SPECIFICATION ImportSpec
CONSTANTS
  None = None
  Run = {1, 2}
  File <- MCFile
  BatchSize = 4
  MaxTries = 2
  Registered = {}
  Reads <- ProgramOf
  Disputed <- SaidTwice
  Homeless <- Unsourced
  DateOf <- MCDate
  StampOf <- MCStamp
  ChunkMax = 2
  SpanMax = 3
  Flush = 3
CHECK_DEADLOCK FALSE
INVARIANTS
  
  NothingElse
  UnderTheRoot
