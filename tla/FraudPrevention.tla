-------------------------- MODULE FraudPrevention --------------------------
(***************************************************************************)
(* The order guard, the resolution of review cases and the host's          *)
(* fulfilment path together, over the shared tables: server handlers,      *)
(* administrators' requests, the worker's crons and the host interleave    *)
(* statement by statement, statements fail and processes restart.          *)
(***************************************************************************)
EXTENDS OrderGuard, CaseResolution, FulfilmentGate

vars == <<tableVars, guardVars, resolutionVars, gateVars>>

TypeOK == TablesTypeOK /\ GuardTypeOK /\ ResolutionTypeOK /\ GateTypeOK

Init == TablesInit /\ GuardInit /\ ResolutionInit /\ GateInit

(* The server process holds the handlers and the administrators' requests. *)
ServerRestart ==
    /\ GuardRestart
    /\ Forget(Admins)
    /\ UNCHANGED gateVars

Next ==
    \/ GuardStep /\ UNCHANGED <<resolutionVars, gateVars>>
    \/ ResolutionStep /\ UNCHANGED <<guardVars, gateVars>>
    \/ GateStep /\ UNCHANGED <<guardVars, resolutionVars>>
    \/ PruneLog /\ UNCHANGED <<guardVars, resolutionVars, gateVars>>
    \/ ServerRestart

Spec == Init /\ [][Next]_vars

FairSpec == Spec /\ GuardFairness /\ ResolutionFairness

-----------------------------------------------------------------------------
(* The orders something has cleared, and those a reviewer has rejected.    *)
Cleared ==
    {o \in Orders : \E e \in EventsOf(o) :
        assessment[e] \in AssessmentActions \ HeldActions \/ <<e, "approved">> \in decided}

Rejected ==
    {o \in Orders : \E e \in EventsOf(o) : <<e, "rejected">> \in decided}

(* An order whose every assessment held it is not fulfilled before one of  *)
(* its cases was approved, however handlers, reviewers, the cron and the   *)
(* fulfilment run interleave, fail and restart, and with the log pruned.   *)
ReleasedWereCleared == released \subseteq Cleared

(* A rejection that was written outlasts everything: the order stays held. *)
RejectedStayHeld == Rejected \subseteq HeldOrderIds

(* The promise the composition keeps.                                      *)
Policy == INSTANCE HoldPolicy WITH cleared <- Cleared, rejected <- Rejected

ImplementsHoldPolicy == Policy!Spec

=============================================================================
