---------------------------- MODULE RejectOrder ----------------------------
(***************************************************************************)
(* A rejection against the host's orders: resolveCase goes on from the     *)
(* status of the case to cancelRejectedOrder, which voids what is only     *)
(* authorized, refunds what is settled and cancels the order, all on one   *)
(* snapshot of it, and ends with a row in the log that tells the outcome.  *)
(* Meanwhile payments are captured, other administrators refund and        *)
(* cancel, and a second rejection of the order may be under way.           *)
(*                                                                         *)
(* Vendure's order service is external: it voids, refunds and cancels,     *)
(* answers an error instead, or throws, before or after the deed.          *)
(***************************************************************************)
EXTENDS Integers, FiniteSetsExt

CONSTANTS Calls,         \* rejections of the order, each made once
          Cases,         \* review cases of the order
          Payments,
          Amount,        \* what each payment is over
          Placed,        \* orders as they may be found: state and payments
          Channels,      \* channels the order is in
          CaseChannel,   \* the channel of the case
          DefaultChannel,
          CancelOptions, RefundOptions, \* what requests and options may say
          FailedRefunds, \* the handler of a payment may answer a failed refund
          MaxFaults,     \* bound: statements and calls that throw
          MaxTrouble     \* bound: those, and what others do to the order

ASSUME RejectAssumption ==
    /\ IsFiniteSet(Payments)
    /\ Amount \in [Payments -> Nat \ {0}]
    /\ CancelOptions \subseteq BOOLEAN /\ RefundOptions \subseteq BOOLEAN
    /\ FailedRefunds \in BOOLEAN
    /\ MaxFaults \in Nat /\ MaxTrouble \in Nat
    /\ \A found \in Placed :
          found = [state |-> found.state, payments |-> [p \in Payments |-> found.payments[p]]]
    /\ Calls \cap Nat = {}       \* refunds by hand are counted
    /\ "threw" \notin Payments   \* warnings are told apart

VARIABLES order,      \* Vendure's order: its state, the state of each payment
          refunds,    \* Vendure's refunds
          caseStatus, \* fraud_blocked_orders.status
          call,       \* where each rejection is, and what it knows
          fraudLog,   \* the rows of the decisions
          trouble     \* what has gone wrong, and what others have done

vars == <<order, refunds, caseStatus, call, fraudLog, trouble>>

-----------------------------------------------------------------------------
Already(p) ==
    LET counted == {r \in refunds : r.payment = p /\ r.state # "Failed"}
    IN SumFunction([r \in counted |-> r.total])

Outstanding(p) == Amount[p] - Already(p)

HoldsMoney(p) == \/ order.payments[p] = "Authorized"
                 \/ order.payments[p] = "Settled" /\ Outstanding(p) > 0

Refundable(state) == state \notin {"AddingItems", "ArrangingPayment", "PaymentAuthorized"}

Fresh == [at |-> "idle", case |-> "none", refund |-> TRUE, state |-> "unknown",
          authorized |-> {}, settled |-> {}, due |-> [p \in Payments |-> 0],
          todo |-> {}, cancelled |-> FALSE, refunded |-> {}, warned |-> {}]

Init ==
    /\ order \in Placed
    /\ refunds = {}
    /\ caseStatus = [k \in Cases |-> "pending"]
    /\ call = [c \in Calls |-> Fresh]
    /\ fraudLog = {}
    /\ trouble = [faults |-> 0, meddling |-> 0]

Host == <<order, refunds>>

Faulty(n) == /\ trouble.faults + n <= MaxFaults
             /\ trouble.faults + trouble.meddling + n <= MaxTrouble
             /\ trouble' = [trouble EXCEPT !.faults = @ + n]

-----------------------------------------------------------------------------
(* resolveCase.                                                            *)

ReadCase(c) ==
    /\ call[c].at = "idle"
    /\ \E k \in Cases, refund \in RefundOptions :
          /\ caseStatus[k] = "pending"
          /\ call' = [call EXCEPT ![c] = [Fresh EXCEPT !.at = "updating", !.case = k, !.refund = refund]]
    /\ UNCHANGED <<Host, caseStatus, fraudLog, trouble>>

UpdateCase(c) ==
    /\ call[c].at = "updating"
    /\ caseStatus' = [caseStatus EXCEPT ![call[c].case] = "rejected"]
    /\ \E cancel \in CancelOptions :
          call' = [call EXCEPT ![c].at = IF cancel THEN "finding" ELSE "logging"]
    /\ UNCHANGED <<Host, fraudLog, trouble>>

(* The row tells what was done: cancelled, refunds, warnings.  (Before it, *)
(* order.active is cleared, which Vendure has done at the placement.)      *)
LogDecision(c) ==
    /\ call[c].at = "logging"
    /\ fraudLog' = fraudLog \cup
          {[call |-> c, cancelled |-> call[c].cancelled,
            refunded |-> call[c].refunded, warned |-> call[c].warned]}
    /\ call' = [call EXCEPT ![c].at = "done"]
    /\ UNCHANGED <<Host, caseStatus, trouble>>

(* One of its own statements throws, and nothing resumes the call.         *)
Fail(c) ==
    /\ call[c].at \in {"updating", "logging"}
    /\ Faulty(1)
    /\ call' = [call EXCEPT ![c].at = "failed"]
    /\ UNCHANGED <<Host, caseStatus, fraudLog>>

-----------------------------------------------------------------------------
(* cancelRejectedOrder.                                                    *)

Warn(c, what) == [call[c] EXCEPT !.warned = @ \cup {what}]

(* The administrator's context: the case's channel if the order is in it,  *)
(* else some channel of the order.  When the query of its channels fails,  *)
(* the case's channel; when that fails too, the default one.               *)
ContextChannels(rowsAnswer, tokenAnswers) ==
    IF rowsAnswer /\ Channels # {}
    THEN IF CaseChannel \in Channels THEN {CaseChannel} ELSE Channels
    ELSE {IF tokenAnswers THEN CaseChannel ELSE DefaultChannel}

(* The snapshot that everything after it relies on.                        *)
FindOrder(c) ==
    /\ call[c].at = "finding"
    /\ \E rowsAnswer, tokenAnswers \in BOOLEAN :
          /\ Faulty(Cardinality({a \in {"rows", "token"} :
                       (a = "rows" /\ ~rowsAnswer) \/ (a = "token" /\ ~tokenAnswers)}))
          /\ \E channel \in ContextChannels(rowsAnswer, tokenAnswers) :
                \/ /\ channel \notin Channels
                   /\ call' = [call EXCEPT ![c] = [Warn(c, "not found") EXCEPT !.at = "logging"]]
                \/ /\ channel \in Channels
                   /\ order.state = "Cancelled"
                   /\ call' = [call EXCEPT ![c].at = "logging", ![c].cancelled = TRUE,
                                           ![c].state = "Cancelled"]
                \/ /\ channel \in Channels
                   /\ order.state # "Cancelled"
                   /\ LET in(state) == {p \in Payments : order.payments[p] = state}
                      IN call' = [call EXCEPT ![c].at = "voiding", ![c].state = order.state,
                                              ![c].authorized = in("Authorized"),
                                              ![c].settled = in("Settled"),
                                              ![c].todo = in("Authorized"),
                                              ![c].due = [p \in Payments |-> Outstanding(p)]]
    /\ UNCHANGED <<Host, caseStatus, fraudLog>>

\* Mutant: the answer is not looked at.
VoidUnasked(c, p) ==
    /\ call[c].at = "voiding" /\ p \in call[c].todo
    /\ \/ /\ order.payments[p] = "Authorized"
          /\ order' = [order EXCEPT !.payments[p] = "Cancelled"]
       \/ UNCHANGED order
    /\ call' = [call EXCEPT ![c].todo = @ \ {p}]
    /\ UNCHANGED <<refunds, caseStatus, fraudLog, trouble>>

(* cancelPayment of what the snapshot shows as authorized.  A payment that *)
(* has been captured since is not voided any more.                         *)
Void(c, p) ==
    /\ call[c].at = "voiding" /\ p \in call[c].todo
    /\ \/ /\ order.payments[p] = "Authorized"
          /\ order' = [order EXCEPT !.payments[p] = "Cancelled"]
          /\ call' = [call EXCEPT ![c].todo = @ \ {p}]
       \/ /\ call' = [call EXCEPT ![c] = [Warn(c, p) EXCEPT !.todo = @ \ {p}]]
          /\ UNCHANGED order
    /\ UNCHANGED <<refunds, caseStatus, fraudLog, trouble>>

(* On to the refunds, if they are wanted and the order, as it was found,   *)
(* can be refunded.                                                        *)
TurnToRefunds(c) ==
    /\ call[c].at = "voiding" /\ call[c].todo = {}
    /\ LET it == call[c] IN
       \/ /\ it.refund /\ Refundable(it.state)
          /\ call' = [call EXCEPT ![c].at = "refunding",
                                  ![c].todo = {p \in it.settled : it.due[p] > 0}]
       \/ /\ it.refund /\ ~Refundable(it.state)
          /\ call' = [call EXCEPT ![c] =
                [(IF it.settled = {} THEN it ELSE Warn(c, "not refundable")) EXCEPT !.at = "refunding"]]
       \/ /\ ~it.refund
          /\ call' = [call EXCEPT ![c].at = "refunding"]
    /\ UNCHANGED <<Host, caseStatus, fraudLog, trouble>>

Refunding(c, p, state) ==
    /\ order.payments[p] = "Settled"
    /\ call[c].due[p] <= Outstanding(p)
    /\ refunds' = refunds \cup {[payment |-> p, total |-> call[c].due[p], state |-> state, by |-> c]}

(* refundOrder of all that was outstanding in the snapshot.  Vendure       *)
(* refuses more than what is outstanding now; a refund whose handler       *)
(* failed comes back like any other, with a state instead of an error      *)
(* code, which nobody looks at.                                            *)
Refund(c, p) ==
    /\ call[c].at = "refunding" /\ p \in call[c].todo
    /\ \/ /\ \E state \in {"Settled"} \cup IF FailedRefunds THEN {"Failed"} ELSE {} :
                Refunding(c, p, state)
          /\ call' = [call EXCEPT ![c].todo = @ \ {p},
                                  ![c].refunded = @ \cup {<<p, call[c].due[p]>>}]
       \/ /\ call' = [call EXCEPT ![c] = [Warn(c, p) EXCEPT !.todo = @ \ {p}]]
          /\ UNCHANGED refunds
    /\ UNCHANGED <<order, caseStatus, fraudLog, trouble>>

Cancel(c) ==
    /\ call[c].at = "refunding" /\ call[c].todo = {}
    /\ \/ /\ order' = [order EXCEPT !.state = "Cancelled"]
          /\ call' = [call EXCEPT ![c].at = "logging", ![c].cancelled = TRUE]
       \/ /\ call' = [call EXCEPT ![c] = [Warn(c, "cancel") EXCEPT !.at = "logging"]]
          /\ UNCHANGED order
    /\ UNCHANGED <<refunds, caseStatus, fraudLog, trouble>>

\* Mutant: what was done before the throw is not in the answer.
ThrowForgetting(c) ==
    /\ call[c].at \in {"finding", "voiding", "refunding"}
    /\ Faulty(1)
    /\ call' = [call EXCEPT ![c] = [Warn(c, "threw") EXCEPT !.at = "logging", !.refunded = {}]]
    /\ UNCHANGED <<order, refunds, caseStatus, fraudLog>>

\* Mutant: nothing catches what Vendure throws.
ThrowUncaught(c) ==
    /\ call[c].at \in {"finding", "voiding", "refunding"}
    /\ Faulty(1)
    /\ call' = [call EXCEPT ![c].at = "thrown"]
    /\ UNCHANGED <<order, refunds, caseStatus, fraudLog>>

(* One of Vendure's calls throws: everything after it is left undone, and  *)
(* a warning says so.  The deed itself may have been done.                 *)
Throw(c) ==
    /\ call[c].at \in {"finding", "voiding", "refunding"}
    /\ Faulty(1)
    /\ call' = [call EXCEPT ![c] = [Warn(c, "threw") EXCEPT !.at = "logging"]]
    /\ \/ UNCHANGED <<order, refunds>>
       \/ /\ call[c].at = "voiding"
          /\ \E p \in call[c].todo :
                /\ order.payments[p] = "Authorized"
                /\ order' = [order EXCEPT !.payments[p] = "Cancelled"]
          /\ UNCHANGED refunds
       \/ /\ call[c].at = "refunding"
          /\ \E p \in call[c].todo : Refunding(c, p, "Settled")
          /\ UNCHANGED order
       \/ /\ call[c].at = "refunding" /\ call[c].todo = {}
          /\ order' = [order EXCEPT !.state = "Cancelled"]
          /\ UNCHANGED refunds
    /\ UNCHANGED <<caseStatus, fraudLog>>

-----------------------------------------------------------------------------
(* What others do to the order: capture, refund a part by hand, cancel.    *)
Meddle ==
    /\ trouble.faults + trouble.meddling < MaxTrouble
    /\ trouble' = [trouble EXCEPT !.meddling = @ + 1]
    /\ \/ \E p \in Payments :
             /\ order.payments[p] \in {"Created", "Authorized"}
             /\ order' = [order EXCEPT !.payments[p] = "Settled"]
             /\ UNCHANGED refunds
       \/ \E p \in Payments :
             /\ order.payments[p] = "Settled" /\ Outstanding(p) > 0
             /\ refunds' = refunds \cup {[payment |-> p, total |-> 1, state |-> "Settled", by |-> trouble.meddling]}
             /\ UNCHANGED order
       \/ /\ order.state # "Cancelled"
          /\ order' = [order EXCEPT !.state = "Cancelled"]
          /\ UNCHANGED refunds
    /\ UNCHANGED <<caseStatus, call, fraudLog>>

Proceed(c) ==
    \/ UpdateCase(c) \/ FindOrder(c)
    \/ \E p \in Payments : Void(c, p) \/ Refund(c, p)
    \/ TurnToRefunds(c) \/ Cancel(c) \/ LogDecision(c)

Next == \/ \E c \in Calls : ReadCase(c) \/ Proceed(c) \/ Throw(c) \/ Fail(c)
        \/ Meddle

(* A call is carried on; Vendure answers or throws.                        *)
Spec == Init /\ [][Next]_vars /\ \A c \in Calls : WF_vars(Proceed(c))

-----------------------------------------------------------------------------
(* "Vendure failures never block the case decision: they are reported in   *)
(* `warnings`" (fraud-prevention.service.ts:1193): of every payment that   *)
(* the snapshot showed as authorized, or as settled when a refund was      *)
(* wanted, the money is back, or the row in the log has a word on it:      *)
(* whatever was captured, refunded or cancelled by others meanwhile.  A    *)
(* refund that the payment's handler failed is the exception.              *)
Said(row, p) == row.warned \cap {p, "threw", "not refundable"} # {}

Seen(c) == call[c].authorized \cup IF call[c].refund THEN call[c].settled ELSE {}

HandlerFailed(p) == \E r \in refunds : r.payment = p /\ r.state = "Failed"

NothingLeftUnsaid ==
    \A row \in fraudLog : \A p \in Seen(row.call) :
        HoldsMoney(p) => Said(row, p) \/ HandlerFailed(p)

(* ... without the exception: "refunds every settled payment in full via   *)
(* the handler's `createRefund`" (fraud-prevention.service.ts:1192).       *)
RefundedOrSaid ==
    \A row \in fraudLog : \A p \in Seen(row.call) : HoldsMoney(p) => Said(row, p)

(* The row tells the outcome: every refund that the call made is in it,    *)
(* and each one in it was made; it says "cancelled" only of an order that  *)
(* is; and without "cancelled" it says why, unless cancelling was not      *)
(* asked for.  A call that threw may have done one thing more.             *)
OutcomeTold ==
    \A row \in fraudLog :
        LET made == {<<r.payment, r.total>> : r \in {s \in refunds : s.by = row.call}} IN
        /\ row.refunded \subseteq made
        /\ Cardinality(made \ row.refunded) <= IF "threw" \in row.warned THEN 1 ELSE 0
        /\ row.cancelled => order.state = "Cancelled"
        /\ row.cancelled \/ row.warned # {} \/ FALSE \in CancelOptions

(* No money moves on an order but for a case that was rejected, and once   *)
(* the row is written the call is over: a decision that reached the table  *)
(* gets its row, unless a statement of the call itself fails.              *)
RejectionsConclude ==
    \A c \in Calls : call[c].at = "finding" ~> call[c].at \in {"done", "failed"}

=============================================================================
