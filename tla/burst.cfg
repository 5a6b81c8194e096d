SPECIFICATION GuardSpec
CONSTANTS
  o1 = o1
  o2 = o2
  o3 = o3
  e1 = e1
  e2 = e2
  e3 = e3
  e4 = e4
  NoEvent = NoEvent
  Orders <- BurstOrders
  Events <- BurstEvents
  OrderOf <- BurstOrderOf
  LogRetention = FALSE
  MaxFaults = 1
  MaxRestarts = 1
  MaxConcurrent = 2
  Modes = {"off", "enforce"}
  Levels = {"review"}
INVARIANTS
  SlotsAccounted
  NoLostWakeup
PROPERTIES
  WaitersServed
  AssessedUnlessCut
CHECK_DEADLOCK FALSE
