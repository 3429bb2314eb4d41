SPECIFICATION Spec
CONSTANTS
  Drivers = {1, 2}
  Tests = {"t1", "t2", "t3"}
  Archive <- MCArchive
  MaxJobs = 2
  None = None
INVARIANTS OwnImage ResourcesMatch
PROPERTY CommandEnds
CHECK_DEADLOCK FALSE
