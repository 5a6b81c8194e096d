---------------------------- MODULE MCOrderGuard ----------------------------
(* The order guard alone, on a burst of orders.                            *)
EXTENDS OrderGuard

CONSTANTS o1, o2, o3, e1, e2, e3, e4

\* Four events, the last one a second delivery for the first order.
BurstOrders == {o1, o2, o3}
BurstEvents == {e1, e2, e3, e4}
BurstOrderOf ==
    [e \in BurstEvents |-> CASE e \in {e1, e4} -> o1
                             [] e = e2        -> o2
                             [] e = e3        -> o3]

\* Two events of two orders, one of which has to wait.
PairOrders  == {o1, o2}
PairEvents  == {e1, e2}
PairOrderOf == [e \in PairEvents |-> IF e = e1 THEN o1 ELSE o2]

=============================================================================
