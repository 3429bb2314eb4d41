SPECIFICATION FairSpec
CONSTANTS
  Procs = {a, b, c}
  MaxVm = 2
  Pids = {x, y, z}
  NoPid = NoPid
  NoProc = NoProc
INVARIANTS TypeOK RunningRecorded UniqueNum
PROPERTIES ScanEnds Allocates
CHECK_DEADLOCK FALSE
