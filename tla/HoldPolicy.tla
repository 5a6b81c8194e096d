----------------------------- MODULE HoldPolicy -----------------------------
(***************************************************************************)
(* What fraud prevention promises about fulfilment, without guard, cases   *)
(* or log: an order is released only after something has cleared it (an    *)
(* assessment that did not hold it, or an approval) and never once one of  *)
(* its cases was rejected.                                                 *)
(***************************************************************************)
CONSTANT Orders

VARIABLES cleared, rejected, released

vars == <<cleared, rejected, released>>

Init == cleared = {} /\ rejected = {} /\ released = {}

Clear(o) ==
    /\ cleared' = cleared \cup {o}
    /\ UNCHANGED <<rejected, released>>

Reject(o) ==
    /\ rejected' = rejected \cup {o}
    /\ UNCHANGED <<cleared, released>>

Release(o) ==
    /\ o \in cleared
    /\ o \notin rejected
    /\ released' = released \cup {o}
    /\ UNCHANGED <<cleared, rejected>>

Next == \E o \in Orders : Clear(o) \/ Reject(o) \/ Release(o)

Spec == Init /\ [][Next]_vars

=============================================================================
