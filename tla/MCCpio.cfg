SPECIFICATION Spec
CONSTANTS
  BitAnd <- MCBitAnd
  MaxOff = 20000
  MaxU32 = 6000
  NamesizeMax = 4096
  Aligns = {0, 2, 16, 4096}
  InitSizes = {0, 6}
  NameLens = {1, 4, 4094, 4095}
  DataLens = {0, 17, 5001, 6001}
  TgtLens = {5, 4096}
  Leftovers = {115}
  MaxRuns = 2
  MaxHeaders = 3
INVARIANTS TypeOK NoPanic WalkFollows Separated NamesizeBounded DataAligned
CHECK_DEADLOCK FALSE
