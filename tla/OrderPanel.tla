----------------------------- MODULE OrderPanel -----------------------------
(***************************************************************************)
(* The panel on an order's page: the page emits its order again and again; *)
(* the first time a paid order comes by, its assessment is asked for.      *)
(***************************************************************************)
EXTENDS Integers, FiniteSets

CONSTANTS PageOrders, \* orders the page may show
          NoOrder,
          MaxLoads    \* bound: requests for one order in flight

VARIABLE panel

PanelInit ==
    panel = [order |-> NoOrder, paid |-> FALSE, loadedFor |-> NoOrder, data |-> NoOrder,
             loads |-> [o \in PageOrders |-> 0], overtaken |-> FALSE]

Asking == \E o \in PageOrders : panel.loads[o] > 0

Emit(o, paid) ==
    LET seen == [panel EXCEPT !.order = o, !.paid = paid] IN
    \/ /\ ~paid \/ panel.loadedFor = o
       /\ panel' = seen
    \/ /\ paid /\ panel.loadedFor # o /\ panel.loads[o] < MaxLoads
       /\ panel' = [seen EXCEPT !.loadedFor = o, !.loads[o] = @ + 1, !.overtaken = @ \/ Asking]

(* An answer is shown, whatever the page shows by then; nothing asks again *)
(* after an error.                                                         *)
Answered(o) ==
    /\ panel.loads[o] > 0
    /\ \/ panel' = [panel EXCEPT !.loads[o] = @ - 1, !.data = o]
       \/ panel' = [panel EXCEPT !.loads[o] = @ - 1, !.overtaken = TRUE]

PanelNext == \E o \in PageOrders : Answered(o) \/ \E paid \in BOOLEAN : Emit(o, paid)

(* An assessment is shown on the page of its own order, unless one is      *)
(* being asked for, a request failed, or one answer overtook another.      *)
ShownWhereItBelongs ==
    panel.paid /\ panel.data # NoOrder /\ ~Asking /\ ~panel.overtaken
    => panel.data = panel.order

=============================================================================
