--------------------------- MODULE MCRejectOrder ---------------------------
(* Two rejections of one order with two payments, of two units each.       *)
EXTENDS RejectOrder

CONSTANTS p1, p2

TwoEach == [p \in Payments |-> 2]
Found(state, first, second) ==
    [state |-> state, payments |-> [p \in Payments |-> IF p = p1 THEN first ELSE second]]
AnyPlaced == {Found("PaymentAuthorized", "Authorized", "Created"),
              Found("PaymentAuthorized", "Settled", "Authorized"),
              Found("PaymentSettled", "Settled", "Authorized"),
              Found("PaymentSettled", "Settled", "Settled"),
              Found("Cancelled", "Settled", "Created")}

=============================================================================
