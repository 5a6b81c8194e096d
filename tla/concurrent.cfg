SPECIFICATION FairSpec
CONSTANTS
  o1 = o1
  e1 = e1
  e2 = e2
  NoEvent = NoEvent
  NoCase = NoCase
  Orders <- OneOrder
  Events <- TwoDeliveries
  OrderOf <- SameOrder
  LogRetention = FALSE
  MaxFaults = 1
  MaxRestarts = 1
  MaxConcurrent = 2
  Modes = {"monitor", "enforce"}
  Levels = {"review"}
  Admins = {"ann"}
  Crons = {"worker"}
  CancelOptions = {TRUE}
  FirstQuestion = "assessed"
  HeldQueryMayFail = FALSE
INVARIANTS
  TypeOK
  CaseBeforeLog
  ReleasedWereCleared
  AuditTrail
PROPERTIES
  StaleCasesReleased
CHECK_DEADLOCK FALSE
