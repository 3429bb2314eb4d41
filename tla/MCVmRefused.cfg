SPECIFICATION Spec
CONSTANTS
  Procs = {a, b}
  MaxVm = 2
  Pids = {x, y}
  NoPid = NoPid
  NoProc = NoProc
INVARIANT NeverRefused
CHECK_DEADLOCK FALSE
