---------------------------- MODULE FraudTables ----------------------------
(***************************************************************************)
(* The rows the components share: the review cases, the assessment log and *)
(* the state of the host's orders, with the queries a fulfilment path asks *)
(* of them.  Every statement is one database step; steps of different      *)
(* requests, processes and crons interleave between them.                  *)
(*                                                                         *)
(* A placed order is published as an event.  Usually one event per order,  *)
(* but an event can be delivered again, so several events may map to one   *)
(* order.  Handling an event inserts at most one case, so the event names  *)
(* the row: caseStatus[e] is the status column of the case opened for e.   *)
(***************************************************************************)
EXTENDS Integers, FiniteSets

CONSTANTS Orders,        \* the shop's placed orders
          Events,        \* deliveries of OrderPlacedEvent
          OrderOf,       \* the order an event is about
          LogRetention,  \* logRetentionDays is positive: the log is pruned
          MaxFaults,     \* bound: statements that fail
          MaxRestarts    \* bound: process restarts

ASSUME TablesAssumption ==
    /\ IsFiniteSet(Events)
    /\ OrderOf \in [Events -> Orders]
    /\ LogRetention \in BOOLEAN
    /\ MaxFaults \in Nat
    /\ MaxRestarts \in Nat

VARIABLES caseStatus,  \* fraud_blocked_orders.status, "none" before the insert
          fraudLog,    \* fraud_log, the rows as a set: no property counts them
          orderState,  \* Vendure's order.state, as far as the host looks at it
          faults,      \* failing statements still to come
          restarts     \* restarts still to come

tableVars == <<caseStatus, fraudLog, orderState, faults, restarts>>

HeldActions       == {"review", "block"}
AssessmentActions == {"allow", "flag", "shadow"} \cup HeldActions
Decisions         == {"approved", "rejected"}
Statuses          == {"none", "pending"} \cup Decisions
LogRow            == [event : Events, action : AssessmentActions \cup Decisions]

TablesTypeOK ==
    /\ caseStatus \in [Events -> Statuses]
    /\ fraudLog \subseteq LogRow
    /\ orderState \in [Orders -> {"Paid", "Cancelled"}]
    /\ faults \in 0..MaxFaults
    /\ restarts \in 0..MaxRestarts

TablesInit ==
    /\ caseStatus = [e \in Events |-> "none"]
    /\ fraudLog = {}
    /\ orderState = [o \in Orders |-> "Paid"]
    /\ faults = MaxFaults
    /\ restarts = MaxRestarts

-----------------------------------------------------------------------------
(* The queries.                                                            *)

EventsOf(o) == {e \in Events : OrderOf[e] = o}

PendingCases == {e \in Events : caseStatus[e] = "pending"}

HasOpenCase(o) == \E e \in EventsOf(o) : caseStatus[e] = "pending"

HasCase(o) == \E e \in EventsOf(o) : caseStatus[e] # "none"

\* Mutant: the query of pendingOrderIds, which forgets rejected cases.
HeldOrderIdsPendingOnly ==
    {o \in Orders : \E e \in EventsOf(o) : caseStatus[e] = "pending"}

HeldOrderIds ==
    {o \in Orders : \E e \in EventsOf(o) : caseStatus[e] \in {"pending", "rejected"}}

IsAssessed(o) == \E row \in fraudLog : OrderOf[row.event] = o

-----------------------------------------------------------------------------
(* The statements that write.                                              *)

InsertLog(e, a) == fraudLog' = fraudLog \cup {[event |-> e, action |-> a]}

StatementFails == /\ faults > 0
                  /\ faults' = faults - 1

Restart == /\ restarts > 0
           /\ restarts' = restarts - 1

(* The nightly retention cron deletes the rows past the retention in       *)
(* chunks.  Time is not modelled: which rows are past it is a choice.      *)
PruneLog ==
    /\ LogRetention
    /\ \E old \in SUBSET fraudLog \ {{}} : fraudLog' = fraudLog \ old
    /\ UNCHANGED <<caseStatus, orderState, faults, restarts>>

=============================================================================
