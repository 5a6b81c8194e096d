--------------------------- MODULE FulfilmentGate ---------------------------
(***************************************************************************)
(* The host's fulfilment path, which the plugin cannot see but documents   *)
(* (README.md:223): before an order is shipped it asks two queries, one    *)
(* after the other.  The order's review case must not hold it and it must  *)
(* have been assessed; otherwise the run leaves the order for the next.    *)
(***************************************************************************)
EXTENDS FraudTables

CONSTANTS FirstQuestion,    \* "held", as in the README's example, or "assessed"
          HeldQueryMayFail  \* heldOrderIds may meet a database error

ASSUME GateAssumption ==
    /\ FirstQuestion \in {"held", "assessed"}
    /\ HeldQueryMayFail \in BOOLEAN

VARIABLES asked,    \* orders that passed the first question of the current run
          released  \* orders that were fulfilled

gateVars == <<asked, released>>

GateTypeOK == asked \subseteq Orders /\ released \subseteq Orders

GateInit == asked = {} /\ released = {}

(* heldOrderIds answers an empty set when its query fails.                 *)
HeldAnswers == {HeldOrderIds} \cup IF HeldQueryMayFail THEN {{}} ELSE {}

NotHeld(o) == \E answer \in HeldAnswers : o \notin answer
SeenHeld(o) == o \in HeldOrderIds

Awaiting(o) == orderState[o] = "Paid" /\ o \notin released

AskFirst(o) ==
    /\ Awaiting(o)
    /\ o \notin asked
    /\ IF FirstQuestion = "held" THEN NotHeld(o) ELSE IsAssessed(o)
    /\ asked' = asked \cup {o}
    /\ UNCHANGED <<released, tableVars>>

AskSecondAndRelease(o) ==
    /\ o \in asked
    /\ Awaiting(o)
    /\ IF FirstQuestion = "held" THEN IsAssessed(o) ELSE NotHeld(o)
    /\ asked' = asked \ {o}
    /\ released' = released \cup {o}
    /\ UNCHANGED tableVars

(* The second answer says no: the next run starts from the first question. *)
AskSecondAndSkip(o) ==
    /\ o \in asked
    /\ IF FirstQuestion = "held" THEN ~IsAssessed(o) ELSE SeenHeld(o)
    /\ asked' = asked \ {o}
    /\ UNCHANGED <<released, tableVars>>

GateStep ==
    \E o \in Orders : AskFirst(o) \/ AskSecondAndRelease(o) \/ AskSecondAndSkip(o)

=============================================================================
