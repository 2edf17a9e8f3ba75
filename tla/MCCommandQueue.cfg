CONSTANTS
  e1 = e1
  e2 = e2
  e3 = e3
  Lane <- MCLane
  ProbeLane <- MCProbe
  Entry = {e1, e2, e3}
  LaneOf <- MCLaneOf
  Priority <- MCPriority
  HasTimeout <- MCTimed
  Limit <- MCPause
  Waiter = {"w1"}
  MaxGeneration = 1
SPECIFICATION LiveSpec
INVARIANTS
  SlotAccounting
  NoIdleSlot
  WaiterHasWork
PROPERTIES
  StartsWithinLimit
  StartsInOrder
  QueuedCallLeaves
