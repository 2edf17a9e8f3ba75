CONSTANTS
  Chain = {c1, c2, c3}
  NoRoot = NoRoot
  Suspension = {u1}
  NoLease = NoLease
  Signal = {}
  Waiter = {w1}
  MaxReset = 1
SPECIFICATION Spec
SYMMETRY Symmetry
INVARIANTS
  ReferencesExact
  DrainWaiterHasWork
PROPERTIES
  DrainIsFinal
  ClosedAdmitsOnlyDescendants
CHECK_DEADLOCK FALSE
