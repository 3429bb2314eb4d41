SPECIFICATION FairSpec
CONSTANTS
  Name <- MCName
  Host <- BaseHost
  BinPaths <- MCBinPaths
  LibPaths <- MCLibPaths
  KmodRoot <- MCKmodRoot
  KmodDb <- MCKmodDb
  Kmod <- BaseKmod
  KmodFile <- BaseKmodFile
  Inputs <- MCInputs
  MaxOpen = 3
  AutorunName <- MCAutorunName
  CoreElfs <- MCCoreElfs
  ConfKmods <- MCConfKmods
INVARIANTS TypeOK ParentFirst NoDuplicate TraversalStops ElfClosure KmodClosure
PROPERTIES FilterHolds WellGrown AutorunOrder Terminates
CHECK_DEADLOCK FALSE
