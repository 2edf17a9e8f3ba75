CONSTANTS
  Chain = {c1, c2}
  NoRoot = NoRoot
  Suspension = {u1, u2}
  NoLease = NoLease
  Signal = {s1, s2}
  Waiter = {}
  MaxReset = 1
SPECIFICATION Spec
SYMMETRY Symmetry
INVARIANTS
  OpenWaiterNotStranded
  LeaseHolderAgrees
  FenceHasOwner
CHECK_DEADLOCK FALSE
