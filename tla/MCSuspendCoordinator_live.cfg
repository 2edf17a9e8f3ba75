CONSTANTS
  Chain = {c1, c2}
  NoRoot = NoRoot
  Suspension = {u1, u2}
  NoLease = NoLease
  Signal = {}
  Waiter = {}
  MaxReset = 1
  Request = {h1}
  NoRequest = NoRequest
  Ttl = 1
  MaxRenew = 1
SPECIFICATION LiveCoordinatorSpec
PROPERTIES
  WaitingCallerAnswered
CHECK_DEADLOCK FALSE
