CONSTANTS
  Run = {r1, r2}
  NoRun = NoRun
SPECIFICATION Spec
INVARIANTS
  SingleHarness
CHECK_DEADLOCK FALSE
