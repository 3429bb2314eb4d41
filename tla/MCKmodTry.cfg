SPECIFICATION Spec
CONSTANTS
  Name <- MCName
  Host <- BaseHost
  BinPaths <- MCBinPaths
  LibPaths <- MCLibPaths
  KmodRoot <- MCKmodRoot
  KmodDb <- MCKmodDb
  Kmod <- BaseKmod
  KmodFile <- BaseKmodFile
  Inputs <- TryInputs
  MaxOpen = 3
  AutorunName <- MCAutorunName
  CoreElfs <- MCCoreElfs
  ConfKmods <- MCConfKmods
INVARIANT KmodClosure
CHECK_DEADLOCK FALSE
