SPECIFICATION Spec
CONSTANTS
  None = None
  Confs <- PlainConfs
  Tests <- MCTests
  NetConfs <- MCNetConfs
  Hostnames = {None, "h"}
  Nums = {1, 2}
  Trees = {"r2", "r3"}
  Hosts = {"r1", "r2"}
  Kernels <- MCKernels
  HostTaps = {"t1", "t2", "t3", "t4"}
  MaxEdits = 1
INVARIANT RngDriven
CHECK_DEADLOCK FALSE
