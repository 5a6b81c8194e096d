-------------------------- MODULE MCFraudPrevention --------------------------
(* The whole system on small instances.                                    *)
EXTENDS FraudPrevention

CONSTANTS o1, e1, e2

\* One order, delivered once or twice.
OneOrder        == {o1}
OneEvent        == {e1}
TwoDeliveries   == {e1, e2}
SameOrder       == [e \in Events |-> o1]

=============================================================================
