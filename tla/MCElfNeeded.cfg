SPECIFICATION Spec
CONSTANTS
  Name <- MCName
  Host <- BaseHost
  BinPaths <- MCBinPaths
  LibPaths <- MCLibPaths
  KmodRoot <- MCKmodRoot
  KmodDb <- MCKmodDb
  Kmod <- BaseKmod
  KmodFile <- BaseKmodFile
  Inputs <- FileInputs
  MaxOpen = 3
  AutorunName <- MCAutorunName
  CoreElfs <- MCCoreElfs
  ConfKmods <- MCConfKmods
INVARIANT AllNeeded
CHECK_DEADLOCK FALSE
