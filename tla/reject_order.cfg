SPECIFICATION Spec
CONSTANTS
  p1 = p1
  p2 = p2
  Payments = {p1, p2}
  Calls = {c1, c2}
  Cases = {k1}
  Amount <- TwoEach
  Placed <- AnyPlaced
  Channels = {"shop", "outlet"}
  CaseChannel = "old shop"
  DefaultChannel = "default"
  CancelOptions = {TRUE}
  RefundOptions = {TRUE, FALSE}
  FailedRefunds = TRUE
  MaxFaults = 1
  MaxTrouble = 2
INVARIANTS
  NothingLeftUnsaid
  OutcomeTold
PROPERTIES
  RejectionsConclude
CHECK_DEADLOCK FALSE
