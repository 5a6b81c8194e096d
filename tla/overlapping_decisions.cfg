SPECIFICATION Spec
CONSTANTS
  o1 = o1
  e1 = e1
  e2 = e2
  NoEvent = NoEvent
  NoCase = NoCase
  Orders <- OneOrder
  Events <- OneEvent
  OrderOf <- SameOrder
  LogRetention = FALSE
  MaxFaults = 0
  MaxRestarts = 0
  MaxConcurrent = 2
  Modes = {"enforce"}
  Levels = {"review"}
  Admins = {"ann", "bob"}
  Crons = {}
  CancelOptions = {TRUE}
  FirstQuestion = "assessed"
  HeldQueryMayFail = FALSE
PROPERTIES
  DecisionFinal
CHECK_DEADLOCK FALSE
