SPECIFICATION Spec
CONSTANTS
  p1 = p1
  p2 = p2
  Payments = {p1, p2}
  Calls = {c1}
  Cases = {k1}
  Amount <- TwoEach
  Placed <- AnyPlaced
  Channels = {"shop", "outlet"}
  CaseChannel = "old shop"
  DefaultChannel = "default"
  CancelOptions = {TRUE}
  RefundOptions = {TRUE, FALSE}
  FailedRefunds = TRUE
  MaxFaults = 0
  MaxTrouble = 0
INVARIANTS
  RefundedOrSaid
CHECK_DEADLOCK FALSE
