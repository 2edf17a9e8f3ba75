CONSTANTS
  Run = {r1, r2}
  NoRun = NoRun
SPECIFICATION LiveSpec
INVARIANTS
  NoResidue
  CancelReportTrue
  ConsultationStops
PROPERTIES
  CancelledChildGoes
  EndedChildTold
  ImplementsContract
CHECK_DEADLOCK FALSE
