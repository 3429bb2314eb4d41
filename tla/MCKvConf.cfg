SPECIFICATION Spec
CONSTANTS
  Texts <- MCTexts
  CONF_LINE_MAX = 10
INVARIANT Agrees
CHECK_DEADLOCK FALSE
