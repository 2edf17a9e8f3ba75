CONSTANTS
  Chain = {c1, c2}
  NoRoot = NoRoot
  Suspension = {u1, u2}
  NoLease = NoLease
  Signal = {s1}
  Waiter = {}
  MaxReset = 1
  Request = {h1, h2}
  NoRequest = NoRequest
  Ttl = 2
  MaxRenew = 1
SPECIFICATION CoordinatorSpec
SYMMETRY Symmetry
INVARIANTS
  CoordinatorTypeOK
  CoordinatorOwnsFence
  SchedulerFollowsFence
PROPERTIES
  SuspendedStaysIdle
CHECK_DEADLOCK FALSE
