SPECIFICATION Spec
CONSTANTS
  Setups = {s1, s2}
  Teardowns = {t}
  Br <- MCBr
  BR_IF = eth0
  BR_ADDR = TRUE
  DHCP = TRUE
  Conf <- MCConf
  MaxFaults = 1
  MaxLines = 2
  None = None
  s1 = s1
  s2 = s2
  t = t
INVARIANTS Unwound Wired
PROPERTIES OthersKept TornDown
CHECK_DEADLOCK FALSE
