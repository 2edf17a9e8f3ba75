CONSTANTS
  Run = {r1}
  NoRun = NoRun
SPECIFICATION Spec
PROPERTIES
  CancelStops
CHECK_DEADLOCK FALSE
