--------------------------- MODULE CaseResolution ---------------------------
(***************************************************************************)
(* resolveCase: an administrator approves or rejects a review case on the  *)
(* server, or the hourly cron of the worker approves the cases nobody      *)
(* looked at.  A call reads the row, checks that it is pending, and then   *)
(* updates it by id in a second statement: another call may come between   *)
(* the two.  A rejection goes on to cancel the order through Vendure, and  *)
(* either decision ends with a row in the log.                             *)
(***************************************************************************)
EXTENDS FraudTables

CONSTANTS Admins,        \* administrators' requests that may overlap
          Crons,         \* worker processes that run autoReleaseStale
          CancelOptions, \* values of opts.cancel ?? options.cancelOnReject ?? true
          NoCase         \* a resolver that works on no case

Resolvers == Admins \cup Crons

ASSUME ResolutionAssumption ==
    /\ Admins \cap Crons = {}
    /\ CancelOptions \subseteq BOOLEAN
    /\ NoCase \notin Events

VARIABLES step,      \* where each resolver's call is
          target,    \* the case it read
          decision,  \* what it was told to decide
          stale,     \* the stale cases a cron has listed and not yet done
          decided    \* history: the decisions that were ever written

resolutionVars == <<step, target, decision, stale, decided>>

ResolutionTypeOK ==
    /\ step \in [Resolvers -> {"idle", "updating", "cancelling", "auditing"}]
    /\ target \in [Resolvers -> Events \cup {NoCase}]
    /\ decision \in [Resolvers -> Decisions]
    /\ stale \in [Crons -> SUBSET Events]
    /\ decided \subseteq Events \X Decisions

ResolutionInit ==
    /\ step = [r \in Resolvers |-> "idle"]
    /\ target = [r \in Resolvers |-> NoCase]
    /\ decision = [r \in Resolvers |-> "approved"]
    /\ stale = [c \in Crons |-> {}]
    /\ decided = {}

Become(r, s) == step' = [step EXCEPT ![r] = s]

(* The call returns or throws; the next one starts afresh.                 *)
Return(r) ==
    /\ Become(r, "idle")
    /\ target' = [target EXCEPT ![r] = NoCase]
    /\ decision' = [decision EXCEPT ![r] = "approved"]

-----------------------------------------------------------------------------
\* Mutant: the status is not checked.
SelectAnyCase(r, e, d) ==
    /\ step[r] = "idle"
    /\ caseStatus[e] # "none"
    /\ Become(r, "updating")
    /\ target' = [target EXCEPT ![r] = e]
    /\ decision' = [decision EXCEPT ![r] = d]
    /\ UNCHANGED <<stale, decided, tableVars>>

(* The call reads the case and finds it pending.  A call that finds it     *)
(* closed, or finds no row, answers ok: false and changes nothing.         *)
SelectCase(r, e, d) ==
    /\ step[r] = "idle"
    /\ caseStatus[e] = "pending"
    /\ Become(r, "updating")
    /\ target' = [target EXCEPT ![r] = e]
    /\ decision' = [decision EXCEPT ![r] = d]
    /\ UNCHANGED <<stale, decided, tableVars>>

(* An approve or reject request.                                           *)
Review(r, e) ==
    \E d \in Decisions : SelectCase(r, e, d)

(* autoReleaseStale lists the pending cases past their hours.  Time is not *)
(* modelled: which of the pending ones are past them is a choice.          *)
ListStale(c) ==
    /\ step[c] = "idle"
    /\ stale[c] = {}
    /\ \E S \in SUBSET PendingCases \ {{}} : stale' = [stale EXCEPT ![c] = S]
    /\ UNCHANGED <<step, target, decision, decided, tableVars>>

ReleaseStale(c, e) ==
    /\ e \in stale[c]
    /\ SelectCase(c, e, "approved")

(* Somebody has closed the case since it was listed.                       *)
SkipClosed(c, e) ==
    /\ e \in stale[c]
    /\ step[c] = "idle"
    /\ caseStatus[e] # "pending"
    /\ stale' = [stale EXCEPT ![c] = @ \ {e}]
    /\ UNCHANGED <<step, target, decision, decided, tableVars>>

\* Mutant: UPDATE ... WHERE orderId = ?
UpdateCasesOfOrder(r) ==
    /\ step[r] = "updating"
    /\ caseStatus' = [e \in Events |->
          IF OrderOf[e] = OrderOf[target[r]] /\ caseStatus[e] # "none"
          THEN decision[r] ELSE caseStatus[e]]
    /\ decided' = decided \cup {<<target[r], decision[r]>>}
    /\ \/ /\ decision[r] = "rejected"
          /\ TRUE \in CancelOptions
          /\ Become(r, "cancelling")
       \/ /\ decision[r] = "approved" \/ FALSE \in CancelOptions
          /\ Become(r, "auditing")
    /\ UNCHANGED <<target, decision, stale, fraudLog, orderState, faults, restarts>>

(* UPDATE ... WHERE id = ?, whatever the status has become meanwhile.  A   *)
(* rejection cancels the order unless the caller or the options say not.   *)
UpdateCase(r) ==
    /\ step[r] = "updating"
    /\ caseStatus' = [caseStatus EXCEPT ![target[r]] = decision[r]]
    /\ decided' = decided \cup {<<target[r], decision[r]>>}
    /\ \/ /\ decision[r] = "rejected"
          /\ TRUE \in CancelOptions
          /\ Become(r, "cancelling")
       \/ /\ decision[r] = "approved" \/ FALSE \in CancelOptions
          /\ Become(r, "auditing")
    /\ UNCHANGED <<target, decision, stale, fraudLog, orderState, faults, restarts>>

(* cancelRejectedOrder: voids, refunds and cancels through Vendure.  What  *)
(* Vendure refuses or throws becomes a warning and the call goes on.       *)
CancelRejectedOrder(r) ==
    /\ step[r] = "cancelling"
    /\ \/ orderState' = [orderState EXCEPT ![OrderOf[target[r]]] = "Cancelled"]
       \/ UNCHANGED orderState
    /\ Become(r, "auditing")
    /\ UNCHANGED <<target, decision, stale, decided, caseStatus, fraudLog, faults, restarts>>

\* Mutant: the decision is logged for every case of the order.
LogDecisionOfAll(r) ==
    /\ step[r] = "auditing"
    /\ fraudLog' = fraudLog \cup
          {[event |-> e, action |-> decision[r]] : e \in EventsOf(OrderOf[target[r]])}
    /\ stale' = [c \in Crons |-> IF c = r THEN stale[c] \ {target[r]} ELSE stale[c]]
    /\ Return(r)
    /\ UNCHANGED <<decided, caseStatus, orderState, faults, restarts>>

(* The decision's row in the log; a cron turns to the next stale case.     *)
(* (Before it, a rejection clears order.active, which Vendure has cleared  *)
(* when the order was placed.)                                             *)
LogDecision(r) ==
    /\ step[r] = "auditing"
    /\ InsertLog(target[r], decision[r])
    /\ stale' = [c \in Crons |-> IF c = r THEN stale[c] \ {target[r]} ELSE stale[c]]
    /\ Return(r)
    /\ UNCHANGED <<decided, caseStatus, orderState, faults, restarts>>

\* Mutant: nothing ends a call that has thrown.
FailAndHang(r) ==
    /\ step[r] \in {"updating", "auditing"}
    /\ StatementFails
    /\ Become(r, "hanging")
    /\ UNCHANGED <<target, decision, stale, decided, caseStatus, fraudLog, orderState, restarts>>

(* A statement of the call throws.  The cron's loop ends with it.          *)
Fail(r) ==
    /\ step[r] \in {"updating", "auditing"}
    /\ StatementFails
    /\ stale' = [c \in Crons |-> IF c = r THEN {} ELSE stale[c]]
    /\ Return(r)
    /\ UNCHANGED <<decided, caseStatus, fraudLog, orderState, restarts>>

(* The calls of the processes that go down, wherever they are.             *)
Forget(lost) ==
    /\ step' = [r \in Resolvers |-> IF r \in lost THEN "idle" ELSE step[r]]
    /\ target' = [r \in Resolvers |-> IF r \in lost THEN NoCase ELSE target[r]]
    /\ decision' = [r \in Resolvers |-> IF r \in lost THEN "approved" ELSE decision[r]]
    /\ stale' = [c \in Crons |-> IF c \in lost THEN {} ELSE stale[c]]
    /\ UNCHANGED decided

WorkerRestart(c) ==
    /\ Restart
    /\ Forget({c})
    /\ UNCHANGED <<caseStatus, fraudLog, orderState, faults>>

-----------------------------------------------------------------------------
Cron(c) == \/ ListStale(c)
           \/ \E e \in Events : ReleaseStale(c, e) \/ SkipClosed(c, e)

Proceed(r) == UpdateCase(r) \/ CancelRejectedOrder(r) \/ LogDecision(r)

ResolutionStep ==
    \/ \E r \in Admins, e \in Events : Review(r, e)
    \/ \E c \in Crons : Cron(c) \/ WorkerRestart(c)
    \/ \E r \in Resolvers : Proceed(r) \/ Fail(r)

(* A started call is carried on, and the cron comes round every hour.      *)
(* Nothing obliges administrators to look.                                 *)
ResolutionFairness ==
    /\ \A r \in Resolvers : WF_<<resolutionVars, tableVars>>(Proceed(r))
    /\ \A c \in Crons : WF_<<resolutionVars, tableVars>>(Cron(c))

-----------------------------------------------------------------------------
(* A closed case keeps its decision: "A second decision on the same case   *)
(* is refused" (fraud-prevention.e2e-spec.ts:611).                         *)
DecisionFinal ==
    [][\A e \in Events :
          caseStatus[e] \in Decisions => caseStatus'[e] = caseStatus[e]]_caseStatus

(* The weekend safety valve: with the auto-release on, no case stays       *)
(* pending for ever, whatever the administrators do, fail to do, or do at  *)
(* the same moment as the cron.                                            *)
StaleCasesReleased ==
    \A e \in Events : caseStatus[e] = "pending" ~> caseStatus[e] \in Decisions

(* The audit trail tells what was decided: a decision in the log was       *)
(* written to the case it names, and a decision that was written is in the *)
(* log, or a call is still on its way to put it there, unless a statement  *)
(* failed or a process went down, or the row is past the retention.        *)
Undisturbed == faults = MaxFaults /\ restarts = MaxRestarts /\ ~LogRetention

AuditTrail ==
    /\ \A row \in fraudLog :
          row.action \in Decisions => <<row.event, row.action>> \in decided
    /\ Undisturbed =>
          \A d \in decided :
             \/ [event |-> d[1], action |-> d[2]] \in fraudLog
             \/ \E r \in Resolvers : /\ step[r] \in {"cancelling", "auditing"}
                                     /\ <<target[r], decision[r]>> = d

=============================================================================
