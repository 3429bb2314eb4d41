SPECIFICATION Spec
CONSTANTS
  None = None
  Confs <- SomeConfs
  Tests <- MCTests
  NetConfs <- MCNetConfs
  Hostnames = {None, "h"}
  Nums = {1, 2}
  Trees = {"r2", "r3"}
  Hosts = {"r1", "r2"}
  Kernels <- MCKernels
  HostTaps = {"t1", "t2", "t3", "t4"}
  MaxEdits = 1
INVARIANTS TypeOK KernelMatches ModulesThere NoPanic NetReady Identity
PROPERTY BootSettles
CHECK_DEADLOCK FALSE
