SPECIFICATION Spec
CONSTANTS
  o1 = o1
  e1 = e1
  e2 = e2
  NoEvent = NoEvent
  NoCase = NoCase
  Orders <- OneOrder
  Events <- TwoDeliveries
  OrderOf <- SameOrder
  LogRetention = TRUE
  MaxFaults = 1
  MaxRestarts = 1
  MaxConcurrent = 2
  Modes = {"enforce"}
  Levels = {"low", "review"}
  Admins = {"ann"}
  Crons = {}
  CancelOptions = {TRUE, FALSE}
  FirstQuestion = "assessed"
  HeldQueryMayFail = FALSE
INVARIANTS
  RejectedStayHeld
PROPERTIES
  DecisionFinal
  ImplementsHoldPolicy
CHECK_DEADLOCK FALSE
