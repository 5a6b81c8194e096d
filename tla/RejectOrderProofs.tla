-------------------------- MODULE RejectOrderProofs --------------------------
(***************************************************************************)
(* Proofs about the rejection of an order, for any payments and amounts,   *)
(* rejections that overlap, faults, and whatever others do to the order    *)
(* meanwhile.                                                              *)
(***************************************************************************)
EXTENDS RejectOrder, NumberLemmas

(* The inductive invariant behind OutcomeTold: what a call has refunded so *)
(* far is what it says it has; only a call that threw may have done one    *)
(* thing more, and it goes on to nothing but its row.                      *)
Fields == {"at", "case", "refund", "state", "authorized", "settled", "due", "todo",
           "cancelled", "refunded", "warned"}

ShapeInv ==
    /\ order = [state |-> order.state, payments |-> [p \in Payments |-> order.payments[p]]]
    /\ call = [c \in Calls |-> call[c]]
    /\ \A c \in Calls : call[c] = [f \in Fields |-> call[c][f]]

Made(c) == {<<r.payment, r.total>> : r \in {s \in refunds : s.by = c}}

Threw(c) == "threw" \in call[c].warned

BeforeItsRow == {"idle", "updating", "finding", "voiding", "refunding"}

OutcomeKept(c) ==
    /\ call[c].refunded \subseteq Made(c)
    /\ ~Threw(c) => Made(c) \subseteq call[c].refunded
    /\ \A m, n \in Made(c) \ call[c].refunded : m = n
    /\ call[c].at \in BeforeItsRow => ~Threw(c)
    /\ call[c].at \in BeforeItsRow \ {"refunding"} => call[c].refunded = {}
    /\ call[c].cancelled => order.state = "Cancelled"
    /\ call[c].at \in {"logging", "done"} =>
          call[c].cancelled \/ call[c].warned # {} \/ FALSE \in CancelOptions

RowsInv ==
    \A row \in fraudLog :
        /\ row.call \in Calls /\ call[row.call].at = "done"
        /\ row.cancelled = call[row.call].cancelled
        /\ row.refunded = call[row.call].refunded
        /\ row.warned = call[row.call].warned

(* The inductive invariant behind NothingLeftUnsaid: what the call is past *)
(* has been voided or repaid, whatever has happened since the snapshot, or *)
(* there is a word on it.  What was due then is never less than what is    *)
(* outstanding now.                                                        *)
RefundsInv ==
    /\ IsFiniteSet(refunds)
    /\ \A r \in refunds : r.total \in Nat

Voided(c, p) == order.payments[p] = "Cancelled" \/ p \in call[c].warned

Repaid(c, p) ==
    Outstanding(p) <= 0 \/ HandlerFailed(p) \/ call[c].warned \cap {p, "not refundable"} # {}

SnapshotKept(c) ==
    /\ call[c].authorized \subseteq Payments /\ call[c].settled \subseteq Payments
    /\ \A p \in call[c].settled : order.payments[p] = "Settled"
    /\ call[c].at \in {"idle", "updating", "finding"} =>
          call[c].authorized = {} /\ call[c].settled = {}
    /\ call[c].at \in {"voiding", "refunding"} =>
          \A p \in Payments : call[c].due[p] \in Int /\ Outstanding(p) <= call[c].due[p]

\* While it voids, refunds, and from then on.
WhileVoiding(c) ==
    /\ call[c].todo \subseteq call[c].authorized
    /\ \A p \in call[c].authorized \ call[c].todo : Voided(c, p)

WhileRefunding(c) ==
    /\ call[c].todo \subseteq call[c].settled
    /\ \A p \in call[c].todo : call[c].due[p] > 0 /\ \A m \in call[c].refunded : m[1] # p
    /\ \A p \in call[c].authorized : Voided(c, p)
    /\ call[c].refund => \A p \in call[c].settled \ call[c].todo : Repaid(c, p)

Afterwards(c) ==
    \/ Threw(c)
    \/ /\ \A p \in call[c].authorized : Voided(c, p)
       /\ call[c].refund => \A p \in call[c].settled : Repaid(c, p)

NothingSkipped(c) ==
    /\ call[c].at = "voiding" => WhileVoiding(c)
    /\ call[c].at = "refunding" => WhileRefunding(c)
    /\ call[c].at \in {"logging", "done"} => Afterwards(c)

RejectInv ==
    /\ ShapeInv /\ RowsInv /\ RefundsInv
    /\ \A c \in Calls : OutcomeKept(c) /\ SnapshotKept(c) /\ NothingSkipped(c)

-----------------------------------------------------------------------------
(* Sums of refunds.                                                        *)

SumOf(S) == SumFunction([r \in S |-> r.total])

\* Of refunds among others: the same function adds up both.
LEMMA SumWithin ==
  ASSUME NEW B, IsFiniteSet(B), \A x \in B : x.total \in Nat, NEW A, A \subseteq B
  PROVE  SumOf(A) = SumOver([r \in B |-> r.total], A) /\ IsFiniteSet(A) /\ SumOf(A) \in Nat
<1> DEFINE f == [r \in A |-> r.total]
           g == [r \in B |-> r.total]
<1>1. IsFiniteSet(A) /\ \A x \in A : f[x] \in Nat /\ f[x] = g[x]
  BY FS_Subset
<1>2. SumOf(A) = SumOver(f, A)
  BY DEF SumOf, SumFunction, SumOver
<1> HIDE DEF f, g
<1>3. SumOver(f, A) \in Nat
  BY <1>1, SumIsNatural
<1>4. SumOver(f, A) = SumOver(g, A)
  BY <1>1, SumOfEqual
<1>5. QED
  BY <1>1, <1>2, <1>3, <1>4 DEF g

\* A sum is one of its terms and the sum of the others.
LEMMA RefundsWithout ==
  ASSUME NEW S, IsFiniteSet(S), \A x \in S : x.total \in Nat, NEW x \in S
  PROVE  SumOf(S) = x.total + SumOf(S \ {x})
<1> DEFINE f == [r \in S |-> r.total]
<1>1. \A y \in S : f[y] \in Int /\ f[y] = y.total
  OBVIOUS
<1>2. SumOf(S) = SumOver(f, S) /\ SumOf(S \ {x}) = SumOver(f, S \ {x})
  BY SumWithin
<1> HIDE DEF f
<1>3. SumOver(f, S) = f[x] + SumOver(f, S \ {x})
  BY <1>1, SumWithout
<1>4. QED
  BY <1>1, <1>2, <1>3

\* More terms, no smaller a sum.
LEMMA RefundsGrow ==
  ASSUME NEW B, IsFiniteSet(B), \A x \in B : x.total \in Nat, NEW A, A \subseteq B
  PROVE  SumOf(A) <= SumOf(B)
<1> DEFINE f == [r \in B |-> r.total]
<1>1. \A y \in B : f[y] \in Int /\ f[y] >= 0
  OBVIOUS
<1>2. SumOf(A) = SumOver(f, A) /\ SumOf(B) = SumOver(f, B)
  BY SumWithin
<1> HIDE DEF f
<1>3. SumOver(f, A) <= SumOver(f, B)
  BY <1>1, SumGrows
<1>4. QED
  BY <1>2, <1>3

-----------------------------------------------------------------------------
(* What is outstanding.                                                    *)

\* The refunds that count.
Counted(p) == {r \in refunds : r.payment = p /\ r.state # "Failed"}

LEMMA OutstandingIs ==
  ASSUME RefundsInv, NEW p \in Payments
  PROVE  /\ IsFiniteSet(Counted(p)) /\ \A r \in Counted(p) : r.total \in Nat
         /\ Outstanding(p) = Amount[p] - SumOf(Counted(p))
         /\ Amount[p] \in Nat /\ SumOf(Counted(p)) \in Nat
<1>1. IsFiniteSet(Counted(p)) /\ \A r \in Counted(p) : r.total \in Nat
  BY FS_Subset DEF Counted, RefundsInv
<1>2. Outstanding(p) = Amount[p] - SumOf(Counted(p))
  BY DEF Outstanding, Already, SumOf, Counted
<1>3. QED
  BY <1>1, <1>2, SumWithin, RejectAssumption

(* No refund is taken back, so that what is outstanding never grows.       *)
LEMMA NeverOwedMore ==
  ASSUME RefundsInv, RefundsInv', refunds \subseteq refunds', NEW p \in Payments
  PROVE  Outstanding(p) \in Int /\ Outstanding(p)' \in Int /\ Outstanding(p)' <= Outstanding(p)
<1>1. /\ Outstanding(p) = Amount[p] - SumOf(Counted(p))
      /\ Amount[p] \in Nat /\ SumOf(Counted(p)) \in Nat
  BY OutstandingIs
<1>2. /\ IsFiniteSet(Counted(p)') /\ \A r \in Counted(p)' : r.total \in Nat
      /\ Outstanding(p)' = Amount[p] - SumOf(Counted(p)')
      /\ SumOf(Counted(p)') \in Nat
  <2>1. IsFiniteSet(Counted(p)') /\ \A r \in Counted(p)' : r.total \in Nat
    BY FS_Subset DEF Counted, RefundsInv
  <2>2. Outstanding(p)' = Amount[p] - SumOf(Counted(p)')
    BY DEF Outstanding, Already, SumOf, Counted
  <2>3. QED
    BY <2>1, <2>2, SumWithin
<1>3. Counted(p) \subseteq Counted(p)'
  BY DEF Counted
<1>4. SumOf(Counted(p)) <= SumOf(Counted(p)')
  BY <1>2, <1>3, RefundsGrow
<1>5. QED
  BY <1>1, <1>2, <1>4

(* A refund of all that is outstanding leaves nothing.                     *)
LEMMA PaidBack ==
  ASSUME RefundsInv, NEW p \in Payments, NEW r, r \notin refunds,
         refunds' = refunds \cup {r}, r.payment = p, r.state # "Failed", r.total \in Nat,
         RefundsInv', Outstanding(p) <= r.total
  PROVE  Outstanding(p)' <= 0
<1>1. /\ Outstanding(p) = Amount[p] - SumOf(Counted(p))
      /\ Amount[p] \in Nat /\ SumOf(Counted(p)) \in Nat
  BY OutstandingIs
<1>2. Counted(p)' = Counted(p) \cup {r} /\ Counted(p)' \ {r} = Counted(p) /\ r \in Counted(p)'
  BY DEF Counted
<1>3. IsFiniteSet(Counted(p)') /\ \A x \in Counted(p)' : x.total \in Nat
  BY FS_Subset DEF Counted, RefundsInv
<1>4. SumOf(Counted(p)') = r.total + SumOf(Counted(p))
  BY <1>2, <1>3, RefundsWithout
<1>5. Outstanding(p)' = Amount[p] - SumOf(Counted(p)')
  BY DEF Outstanding, Already, SumOf, Counted
<1>6. QED
  BY <1>1, <1>4, <1>5

-----------------------------------------------------------------------------
(* What a step of the host, or of another call, leaves of a call that does *)
(* not move itself.                                                        *)

\* Nothing is taken back: no refund, no capture, no cancellation.
NothingUndone ==
    /\ refunds \subseteq refunds'
    /\ RefundsInv'
    /\ \A p \in Payments :
          /\ order.payments[p] = "Settled" => order'.payments[p] = "Settled"
          /\ order.payments[p] = "Cancelled" => order'.payments[p] = "Cancelled"
    /\ order.state = "Cancelled" => order'.state = "Cancelled"

\* No refund of this step is the call's.
NoneOfIts(c) == \A r \in refunds' : r \in refunds \/ r.by # c

LEMMA StaysVoided ==
  ASSUME NothingUndone, NEW c, NEW p \in Payments, Voided(c, p),
         call[c].warned \subseteq call'[c].warned
  PROVE  Voided(c, p)'
BY DEF NothingUndone, Voided

LEMMA StaysRepaid ==
  ASSUME RefundsInv, NothingUndone, NEW c, NEW p \in Payments, Repaid(c, p),
         call[c].warned \subseteq call'[c].warned
  PROVE  Repaid(c, p)'
<1>1. CASE Outstanding(p) <= 0
  <2>1. Outstanding(p) \in Int /\ Outstanding(p)' \in Int /\ Outstanding(p)' <= Outstanding(p)
    BY NeverOwedMore DEF NothingUndone
  <2>2. Outstanding(p)' <= 0
    BY <1>1, <2>1
  <2>3. QED
    BY <2>2 DEF Repaid
<1>2. CASE HandlerFailed(p)
  BY <1>2 DEF HandlerFailed, NothingUndone, Repaid
<1>3. CASE call[c].warned \cap {p, "not refundable"} # {}
  <2>1. call'[c].warned \cap {p, "not refundable"} # {}
    BY <1>3
  <2>2. QED
    BY <2>1 DEF Repaid
<1>4. QED
  BY <1>1, <1>2, <1>3 DEF Repaid

LEMMA OthersStay ==
  ASSUME RefundsInv, NothingUndone, NEW c, NoneOfIts(c), call'[c] = call[c],
         OutcomeKept(c), SnapshotKept(c), NothingSkipped(c)
  PROVE  OutcomeKept(c)' /\ SnapshotKept(c)' /\ NothingSkipped(c)'
<1>1. Made(c)' = Made(c)
  BY DEF Made, NoneOfIts, NothingUndone
<1>2. OutcomeKept(c)'
  BY <1>1 DEF OutcomeKept, Threw, NothingUndone
<1>3. \A p \in Payments : /\ Voided(c, p) => Voided(c, p)'
                          /\ Repaid(c, p) => Repaid(c, p)'
  BY StaysVoided, StaysRepaid
<1>4. \A p \in Payments : Outstanding(p) \in Int /\ Outstanding(p)' \in Int /\ Outstanding(p)' <= Outstanding(p)
  BY NeverOwedMore DEF NothingUndone
<1>5. SnapshotKept(c)'
  <2>1. ASSUME call[c].at \in {"voiding", "refunding"}, NEW p \in Payments
        PROVE  call[c].due[p] \in Int /\ Outstanding(p)' <= call[c].due[p]
    <3>1. call[c].due[p] \in Int /\ Outstanding(p) <= call[c].due[p]
      BY <2>1 DEF SnapshotKept
    <3>2. QED
      BY <1>4, <3>1
  <2>2. QED
    BY <2>1 DEF SnapshotKept, NothingUndone
<1>6. call[c].authorized \subseteq Payments /\ call[c].settled \subseteq Payments
  BY DEF SnapshotKept
<1>7. WhileVoiding(c) => WhileVoiding(c)'
  BY <1>3, <1>6 DEF WhileVoiding
<1>8. WhileRefunding(c) => WhileRefunding(c)'
  BY <1>3, <1>6 DEF WhileRefunding
<1>9. Afterwards(c) => Afterwards(c)'
  BY <1>3, <1>6 DEF Afterwards, Threw
<1>10. NothingSkipped(c)'
  BY <1>7, <1>8, <1>9 DEF NothingSkipped
<1>11. QED
  BY <1>2, <1>5, <1>10

-----------------------------------------------------------------------------
(* A step of one call: it keeps the invariant if it keeps the call's part  *)
(* of it, its shape, and the rows.                                         *)

\* The call is well shaped in the next state, and no other call moves.
Moves(c) ==
    /\ call' = [b \in Calls |-> call'[b]]
    /\ \A b \in Calls : b # c => call'[b] = call[b]
    /\ call'[c] = [f \in Fields |-> call'[c][f]]

LEMMA OneCallMoves ==
  ASSUME RejectInv, NEW c \in Calls, Moves(c), NothingUndone,
         order' = [state |-> order'.state, payments |-> [p \in Payments |-> order'.payments[p]]],
         \A b \in Calls : b # c => NoneOfIts(b),
         OutcomeKept(c)', SnapshotKept(c)', NothingSkipped(c)', RowsInv'
  PROVE  RejectInv'
<1>1. ShapeInv'
  <2>1. \A b \in Calls : call'[b] = [f \in Fields |-> call'[b][f]]
    BY DEF RejectInv, ShapeInv, Moves
  <2>2. QED
    BY <2>1 DEF ShapeInv, Moves
<1>2. ASSUME NEW b \in Calls
      PROVE  OutcomeKept(b)' /\ SnapshotKept(b)' /\ NothingSkipped(b)'
  <2>1. CASE b = c
    BY <2>1
  <2>2. CASE b # c
    BY <2>2, OthersStay DEF RejectInv, Moves
  <2>3. QED
    BY <2>1, <2>2
<1>3. QED
  BY <1>1, <1>2 DEF RejectInv, NothingUndone

\* Unless it was over, or its row is written, a call's row is not there.
LEMMA RowsAsBefore ==
  ASSUME RejectInv, NEW c \in Calls, Moves(c), call[c].at # "done", fraudLog' = fraudLog
  PROVE  RowsInv'
<1> SUFFICES ASSUME NEW row \in fraudLog
             PROVE  /\ row.call \in Calls /\ call'[row.call].at = "done"
                    /\ row.cancelled = call'[row.call].cancelled
                    /\ row.refunded = call'[row.call].refunded
                    /\ row.warned = call'[row.call].warned
  BY DEF RowsInv
<1>1. row.call \in Calls /\ call[row.call].at = "done" /\ row.call # c
  BY DEF RejectInv, RowsInv
<1>2. call'[row.call] = call[row.call]
  BY <1>1 DEF Moves
<1>3. QED
  BY <1>1, <1>2 DEF RejectInv, RowsInv

\* The host does nothing in this step.
LEMMA HostStays ==
  ASSUME RejectInv, UNCHANGED Host
  PROVE  /\ NothingUndone /\ \A c : NoneOfIts(c) /\ Made(c)' = Made(c)
         /\ order' = [state |-> order'.state, payments |-> [p \in Payments |-> order'.payments[p]]]
         /\ \A p : Outstanding(p)' = Outstanding(p)
BY DEF Host, RejectInv, RefundsInv, ShapeInv, NothingUndone, NoneOfIts, Made, Outstanding, Already

-----------------------------------------------------------------------------
(* The call's own steps: resolveCase.                                      *)

LEMMA ReadKeeps ==
  ASSUME RejectInv, NEW c \in Calls, ReadCase(c)
  PROVE  RejectInv'
<1>1. /\ Moves(c) /\ call[c].at = "idle"
      /\ call'[c].at = "updating" /\ call'[c].authorized = {} /\ call'[c].settled = {}
      /\ call'[c].refunded = {} /\ call'[c].warned = {} /\ call'[c].cancelled = FALSE
  BY ZenonT(60) DEF ReadCase, Fresh, Moves, Fields, RejectInv, ShapeInv
<1>2. UNCHANGED Host /\ fraudLog' = fraudLog
  BY DEF ReadCase
<1>3. OutcomeKept(c)'
  <2>1. Made(c) \subseteq {}
    BY <1>1 DEF RejectInv, OutcomeKept, BeforeItsRow
  <2>2. Made(c)' \subseteq {}
    BY <1>2, <2>1, HostStays
  <2>3. QED
    BY <1>1, <2>2 DEF OutcomeKept, Threw, BeforeItsRow
<1>4. SnapshotKept(c)' /\ NothingSkipped(c)'
  BY <1>1 DEF SnapshotKept, NothingSkipped
<1>5. QED
  BY <1>1, <1>2, <1>3, <1>4, HostStays, RowsAsBefore, OneCallMoves

(* What a step that only changes the place of a call has to show.          *)
LEMMA OnlyItsPlace ==
  ASSUME RejectInv, NEW c \in Calls, UNCHANGED Host, Moves(c), RowsInv',
         call'[c].refunded = call[c].refunded, call'[c].warned = call[c].warned,
         call'[c].cancelled = call[c].cancelled,
         call'[c].authorized = call[c].authorized, call'[c].settled = call[c].settled,
         call'[c].refund = call[c].refund,
         \/ call[c].at = "updating" /\ call'[c].at = "finding"
         \/ call[c].at = "updating" /\ call'[c].at = "logging" /\ FALSE \in CancelOptions
         \/ call[c].at = "logging" /\ call'[c].at = "done"
         \/ call'[c].at = "failed"
  PROVE  RejectInv'
<1>1. OutcomeKept(c) /\ SnapshotKept(c) /\ NothingSkipped(c)
  BY DEF RejectInv
<1>2. Made(c)' = Made(c) /\ order' = order /\ \A p : Outstanding(p)' = Outstanding(p)
  BY HostStays DEF Host
<1>3. OutcomeKept(c)'
  BY <1>1, <1>2 DEF OutcomeKept, Threw, BeforeItsRow
<1>4. SnapshotKept(c)'
  BY <1>1, <1>2 DEF SnapshotKept
<1>5. NothingSkipped(c)'
  <2>1. call[c].at = "updating" => call[c].authorized = {} /\ call[c].settled = {}
    BY <1>1 DEF SnapshotKept
  <2>2. Afterwards(c) => Afterwards(c)'
    BY <1>1, HostStays, StaysVoided, StaysRepaid DEF Afterwards, Threw, SnapshotKept, RejectInv
  <2>3. call[c].at = "updating" => Afterwards(c)'
    BY <2>1 DEF Afterwards
  <2>4. QED
    BY <1>1, <2>2, <2>3 DEF NothingSkipped
<1>6. QED
  BY <1>3, <1>4, <1>5, HostStays, OneCallMoves

LEMMA UpdateKeeps ==
  ASSUME RejectInv, NEW c \in Calls, UpdateCase(c)
  PROVE  RejectInv'
<1>1. PICK cancel \in CancelOptions :
         call' = [call EXCEPT ![c].at = IF cancel THEN "finding" ELSE "logging"]
  BY DEF UpdateCase
<1>2. call[c].at = "updating" /\ UNCHANGED Host /\ fraudLog' = fraudLog
  BY DEF UpdateCase
<1> DEFINE place == IF cancel THEN "finding" ELSE "logging"
<1>3. place = "finding" \/ (place = "logging" /\ FALSE \in CancelOptions)
  <2>1. cancel = TRUE \/ cancel = FALSE
    BY RejectAssumption
  <2>2. QED
    BY <2>1
<1> HIDE DEF place
<1>4. call' = [call EXCEPT ![c].at = place]
  BY <1>1 DEF place
<1>5. /\ Moves(c) /\ call'[c].at = place
      /\ call'[c].refunded = call[c].refunded /\ call'[c].warned = call[c].warned
      /\ call'[c].cancelled = call[c].cancelled /\ call'[c].refund = call[c].refund
      /\ call'[c].authorized = call[c].authorized /\ call'[c].settled = call[c].settled
  BY <1>4 DEF Moves, Fields, RejectInv, ShapeInv
<1>6. RowsInv'
  BY <1>2, <1>5, RowsAsBefore
<1>7. QED
  BY <1>2, <1>3, <1>5, <1>6, OnlyItsPlace

LEMMA FailKeeps ==
  ASSUME RejectInv, NEW c \in Calls, Fail(c)
  PROVE  RejectInv'
<1>1. call[c].at \in {"updating", "logging"} /\ UNCHANGED Host /\ fraudLog' = fraudLog
  BY DEF Fail
<1>2. /\ Moves(c) /\ call'[c].at = "failed"
      /\ call'[c].refunded = call[c].refunded /\ call'[c].warned = call[c].warned
      /\ call'[c].cancelled = call[c].cancelled /\ call'[c].refund = call[c].refund
      /\ call'[c].authorized = call[c].authorized /\ call'[c].settled = call[c].settled
  BY ZenonT(60) DEF Fail, Moves, Fields, RejectInv, ShapeInv
<1>3. RowsInv'
  BY <1>1, <1>2, RowsAsBefore
<1>4. QED
  BY <1>1, <1>2, <1>3, OnlyItsPlace

(* The row says of the call what the call knows.                           *)
LEMMA LogKeeps ==
  ASSUME RejectInv, NEW c \in Calls, LogDecision(c)
  PROVE  RejectInv'
<1>1. call[c].at = "logging" /\ UNCHANGED Host
  BY DEF LogDecision
<1>2. /\ Moves(c) /\ call'[c].at = "done"
      /\ call'[c].refunded = call[c].refunded /\ call'[c].warned = call[c].warned
      /\ call'[c].cancelled = call[c].cancelled /\ call'[c].refund = call[c].refund
      /\ call'[c].authorized = call[c].authorized /\ call'[c].settled = call[c].settled
  BY DEF LogDecision, Moves, Fields, RejectInv, ShapeInv
<1> DEFINE new == [call |-> c, cancelled |-> call[c].cancelled,
                   refunded |-> call[c].refunded, warned |-> call[c].warned]
<1>3. fraudLog' = fraudLog \cup {new}
  BY DEF LogDecision
<1>4. /\ new.call = c /\ new.cancelled = call[c].cancelled
      /\ new.refunded = call[c].refunded /\ new.warned = call[c].warned
  OBVIOUS
<1> HIDE DEF new
<1>5. RowsInv'
  <2> SUFFICES ASSUME NEW row \in fraudLog'
               PROVE  /\ row.call \in Calls /\ call'[row.call].at = "done"
                      /\ row.cancelled = call'[row.call].cancelled
                      /\ row.refunded = call'[row.call].refunded
                      /\ row.warned = call'[row.call].warned
    BY DEF RowsInv
  <2>1. CASE row = new
    BY <1>2, <1>4, <2>1
  <2>2. CASE row \in fraudLog
    <3>1. row.call \in Calls /\ call[row.call].at = "done" /\ row.call # c
      BY <1>1, <2>2 DEF RejectInv, RowsInv
    <3>2. call'[row.call] = call[row.call]
      BY <1>2, <3>1 DEF Moves
    <3>3. QED
      BY <2>2, <3>1, <3>2 DEF RejectInv, RowsInv
  <2>3. QED
    BY <1>3, <2>1, <2>2
<1>6. QED
  BY <1>1, <1>2, <1>5, OnlyItsPlace

-----------------------------------------------------------------------------
(* cancelRejectedOrder.                                                    *)

LEMMA FindKeeps ==
  ASSUME RejectInv, NEW c \in Calls, FindOrder(c)
  PROVE  RejectInv'
<1> DEFINE in(state) == {p \in Payments : order.payments[p] = state}
<1>1. call[c].at = "finding" /\ UNCHANGED Host /\ fraudLog' = fraudLog
  BY DEF FindOrder
<1>2. /\ OutcomeKept(c) /\ SnapshotKept(c) /\ ~Threw(c)
      /\ call[c].refunded = {} /\ call[c].authorized = {} /\ call[c].settled = {}
  BY <1>1 DEF RejectInv, OutcomeKept, SnapshotKept, BeforeItsRow
<1>3. \/ call' = [call EXCEPT ![c] = [Warn(c, "not found") EXCEPT !.at = "logging"]]
      \/ /\ order.state = "Cancelled"
         /\ call' = [call EXCEPT ![c].at = "logging", ![c].cancelled = TRUE, ![c].state = "Cancelled"]
      \/ call' = [call EXCEPT ![c].at = "voiding", ![c].state = order.state,
                              ![c].authorized = in("Authorized"), ![c].settled = in("Settled"),
                              ![c].todo = in("Authorized"),
                              ![c].due = [p \in Payments |-> Outstanding(p)]]
  BY DEF FindOrder
<1>4. /\ \A p : Outstanding(p)' = Outstanding(p)
      /\ Made(c)' = Made(c) /\ order' = order
  BY <1>1, HostStays DEF Host
<1>5. CASE call' = [call EXCEPT ![c] = [Warn(c, "not found") EXCEPT !.at = "logging"]]
  <2>1. /\ Moves(c) /\ call'[c].at = "logging" /\ call'[c].refunded = {}
        /\ call'[c].warned = call[c].warned \cup {"not found"}
        /\ call'[c].cancelled = call[c].cancelled
        /\ call'[c].authorized = {} /\ call'[c].settled = {}
    BY <1>2, <1>5, ZenonT(60) DEF Warn, Moves, Fields, RejectInv, ShapeInv
  <2>2. OutcomeKept(c)'
    BY <1>2, <1>4, <2>1 DEF OutcomeKept, Threw, BeforeItsRow
  <2>3. SnapshotKept(c)' /\ NothingSkipped(c)'
    BY <2>1 DEF SnapshotKept, NothingSkipped, Afterwards
  <2>4. QED
    BY <1>1, <2>1, <2>2, <2>3, HostStays, RowsAsBefore, OneCallMoves
<1>6. CASE /\ order.state = "Cancelled"
           /\ call' = [call EXCEPT ![c].at = "logging", ![c].cancelled = TRUE, ![c].state = "Cancelled"]
  <2>1. /\ Moves(c) /\ call'[c].at = "logging" /\ call'[c].refunded = {}
        /\ call'[c].warned = call[c].warned /\ call'[c].cancelled = TRUE
        /\ call'[c].authorized = {} /\ call'[c].settled = {}
    BY <1>2, <1>6 DEF Moves, Fields, RejectInv, ShapeInv
  <2>2. OutcomeKept(c)'
    BY <1>2, <1>4, <1>6, <2>1 DEF OutcomeKept, Threw, BeforeItsRow
  <2>3. SnapshotKept(c)' /\ NothingSkipped(c)'
    BY <2>1 DEF SnapshotKept, NothingSkipped, Afterwards
  <2>4. QED
    BY <1>1, <2>1, <2>2, <2>3, HostStays, RowsAsBefore, OneCallMoves
<1>7. CASE call' = [call EXCEPT ![c].at = "voiding", ![c].state = order.state,
                              ![c].authorized = in("Authorized"), ![c].settled = in("Settled"),
                              ![c].todo = in("Authorized"),
                              ![c].due = [p \in Payments |-> Outstanding(p)]]
  <2> DEFINE found == in("Authorized")
             paid == in("Settled")
             owed == [p \in Payments |-> Outstanding(p)]
  <2>0. call' = [call EXCEPT ![c].at = "voiding", ![c].state = order.state,
                             ![c].authorized = found, ![c].settled = paid,
                             ![c].todo = found, ![c].due = owed]
    BY <1>7
  <2>a. /\ found \subseteq Payments /\ paid \subseteq Payments
        /\ \A p \in paid : order.payments[p] = "Settled"
        /\ \A p \in Payments : owed[p] = Outstanding(p)
    OBVIOUS
  <2> HIDE DEF found, paid, owed, in
  <2>1. /\ Moves(c) /\ call'[c].at = "voiding" /\ call'[c].refunded = {}
        /\ call'[c].warned = call[c].warned /\ call'[c].cancelled = call[c].cancelled
        /\ call'[c].authorized = found /\ call'[c].settled = paid
        /\ call'[c].todo = found /\ call'[c].due = owed
    BY <1>2, <2>0, SMTT(40) DEF Moves, Fields, RejectInv, ShapeInv
  <2>2. OutcomeKept(c)'
    BY <1>2, <1>4, <2>1 DEF OutcomeKept, Threw, BeforeItsRow
  <2>3. \A p \in Payments : owed[p] \in Int /\ Outstanding(p)' <= owed[p]
    BY <1>1, <1>4, <2>a, NeverOwedMore, HostStays DEF NothingUndone, RejectInv
  <2>4. SnapshotKept(c)'
    BY <1>4, <2>a, <2>1, <2>3 DEF SnapshotKept
  <2>5. NothingSkipped(c)'
    BY <2>1 DEF NothingSkipped, WhileVoiding
  <2>6. QED
    BY <1>1, <2>1, <2>2, <2>4, <2>5, HostStays, RowsAsBefore, OneCallMoves
<1>8. QED
  BY <1>3, <1>5, <1>6, <1>7

\* A payment of the order gets another state, and the order another state.
LEMMA OrderTurns ==
  ASSUME ShapeInv, NEW p \in Payments, NEW state,
         order' = [order EXCEPT !.payments[p] = state]
  PROVE  /\ order' = [state |-> order'.state, payments |-> [q \in Payments |-> order'.payments[q]]]
         /\ order'.state = order.state /\ order'.payments[p] = state
         /\ \A q \in Payments : q # p => order'.payments[q] = order.payments[q]
BY DEF ShapeInv

LEMMA OrderCancelled ==
  ASSUME ShapeInv, order' = [order EXCEPT !.state = "Cancelled"]
  PROVE  /\ order' = [state |-> order'.state, payments |-> [q \in Payments |-> order'.payments[q]]]
         /\ order'.state = "Cancelled" /\ order'.payments = order.payments
BY DEF ShapeInv

LEMMA VoidKeeps ==
  ASSUME RejectInv, NEW c \in Calls, NEW p \in Payments, Void(c, p)
  PROVE  RejectInv'
<1>1. /\ call[c].at = "voiding" /\ p \in call[c].todo
      /\ refunds' = refunds /\ fraudLog' = fraudLog
  BY DEF Void
<1>2. /\ OutcomeKept(c) /\ SnapshotKept(c) /\ WhileVoiding(c) /\ ~Threw(c)
      /\ call[c].refunded = {} /\ RefundsInv /\ ShapeInv
  BY <1>1 DEF RejectInv, OutcomeKept, NothingSkipped, BeforeItsRow
<1>3. /\ order' = [state |-> order'.state, payments |-> [q \in Payments |-> order'.payments[q]]]
      /\ NothingUndone
      /\ \/ /\ order'.payments[p] = "Cancelled"
            /\ call' = [call EXCEPT ![c].todo = @ \ {p}]
         \/ call' = [call EXCEPT ![c] = [Warn(c, p) EXCEPT !.todo = @ \ {p}]]
  <2>1. CASE /\ order.payments[p] = "Authorized"
             /\ order' = [order EXCEPT !.payments[p] = "Cancelled"]
             /\ call' = [call EXCEPT ![c].todo = @ \ {p}]
    <3>1. /\ order' = [state |-> order'.state, payments |-> [q \in Payments |-> order'.payments[q]]]
          /\ order'.state = order.state /\ order'.payments[p] = "Cancelled"
          /\ \A q \in Payments : q # p => order'.payments[q] = order.payments[q]
      BY <1>2, <2>1, OrderTurns
    <3>2. NothingUndone
      BY <1>1, <1>2, <2>1, <3>1 DEF NothingUndone, RefundsInv
    <3>3. QED
      BY <2>1, <3>1, <3>2
  <2>2. CASE /\ order' = order
             /\ call' = [call EXCEPT ![c] = [Warn(c, p) EXCEPT !.todo = @ \ {p}]]
    BY <1>1, <2>2, HostStays DEF Host
  <2>3. QED
    BY <2>1, <2>2 DEF Void
<1>4. /\ Moves(c) /\ call'[c].at = "voiding" /\ call'[c].refunded = {}
      /\ call'[c].todo = call[c].todo \ {p}
      /\ call'[c].warned \in {call[c].warned, call[c].warned \cup {p}}
      /\ call'[c].cancelled = call[c].cancelled /\ call'[c].due = call[c].due
      /\ call'[c].authorized = call[c].authorized /\ call'[c].settled = call[c].settled
      /\ order'.payments[p] = "Cancelled" \/ p \in call'[c].warned
  <2>1. CASE /\ order'.payments[p] = "Cancelled"
             /\ call' = [call EXCEPT ![c].todo = @ \ {p}]
    BY <1>1, <1>2, <2>1, ZenonT(60) DEF Moves, Fields, ShapeInv
  <2>2. CASE call' = [call EXCEPT ![c] = [Warn(c, p) EXCEPT !.todo = @ \ {p}]]
    BY <1>1, <1>2, <2>2, ZenonT(60) DEF Warn, Moves, Fields, ShapeInv
  <2>3. QED
    BY <1>3, <2>1, <2>2
<1>5. Made(c)' = Made(c)
  BY <1>1 DEF Made
<1>6. OutcomeKept(c)'
  <2>1. "threw" \notin call'[c].warned
    BY <1>2, <1>4, RejectAssumption DEF Threw
  <2>2. QED
    BY <1>2, <1>3, <1>4, <1>5, <2>1 DEF OutcomeKept, Threw, BeforeItsRow, NothingUndone
<1>7. SnapshotKept(c)'
  <2>1. \A q \in Payments : Outstanding(q) \in Int /\ Outstanding(q)' \in Int /\ Outstanding(q)' <= Outstanding(q)
    BY <1>2, <1>3, NeverOwedMore DEF NothingUndone
  <2>2. \A q \in Payments : call[c].due[q] \in Int /\ Outstanding(q) <= call[c].due[q]
    BY <1>1, <1>2 DEF SnapshotKept
  <2>3. \A q \in Payments : call'[c].due[q] \in Int /\ Outstanding(q)' <= call'[c].due[q]
    BY <1>4, <2>1, <2>2
  <2>4. QED
    BY <1>2, <1>3, <1>4, <2>3 DEF SnapshotKept, NothingUndone
<1>8. NothingSkipped(c)'
  <2>1. call[c].todo \subseteq call[c].authorized /\ call[c].authorized \subseteq Payments
    BY <1>2 DEF WhileVoiding, SnapshotKept
  <2>2. ASSUME NEW q \in call'[c].authorized \ call'[c].todo
        PROVE  Voided(c, q)'
    <3>1. CASE q = p
      BY <1>4, <3>1 DEF Voided
    <3>2. CASE q # p
      <4>1. Voided(c, q) /\ q \in Payments /\ call[c].warned \subseteq call'[c].warned
        BY <1>2, <1>4, <2>1, <2>2, <3>2 DEF WhileVoiding
      <4>2. QED
        BY <1>3, <4>1, StaysVoided
    <3>3. QED
      BY <3>1, <3>2
  <2>3. WhileVoiding(c)'
    BY <1>4, <2>1, <2>2 DEF WhileVoiding
  <2>4. QED
    BY <1>4, <2>3 DEF NothingSkipped
<1>9. \A b : NoneOfIts(b)
  BY <1>1 DEF NoneOfIts
<1>10. QED
  BY <1>1, <1>3, <1>4, <1>6, <1>7, <1>8, <1>9, RowsAsBefore, OneCallMoves

(* On to the refunds: whatever is not among them is repaid already, has    *)
(* its warning, or was not to be refunded.                                 *)
LEMMA TurnKeeps ==
  ASSUME RejectInv, NEW c \in Calls, TurnToRefunds(c)
  PROVE  RejectInv'
<1>1. /\ call[c].at = "voiding" /\ call[c].todo = {}
      /\ UNCHANGED Host /\ fraudLog' = fraudLog
  BY DEF TurnToRefunds
<1>2. /\ OutcomeKept(c) /\ SnapshotKept(c) /\ WhileVoiding(c) /\ ~Threw(c)
      /\ call[c].refunded = {} /\ RefundsInv /\ ShapeInv
  BY <1>1 DEF RejectInv, OutcomeKept, NothingSkipped, BeforeItsRow
<1> DEFINE owed == {p \in call[c].settled : call[c].due[p] > 0}
<1>0. \A q : q \in owed <=> q \in call[c].settled /\ call[c].due[q] > 0
  OBVIOUS
<1>a. TurnToRefunds(c) =>
         \/ /\ call[c].refund /\ Refundable(call[c].state)
            /\ call' = [call EXCEPT ![c].at = "refunding", ![c].todo = owed]
         \/ call' = [call EXCEPT ![c] =
                  [(IF call[c].settled = {} THEN call[c] ELSE Warn(c, "not refundable"))
                      EXCEPT !.at = "refunding"]]
         \/ ~call[c].refund /\ call' = [call EXCEPT ![c].at = "refunding"]
  BY DEF TurnToRefunds
<1> HIDE DEF owed
<1>3. /\ Moves(c) /\ call'[c].at = "refunding" /\ call'[c].refunded = {}
      /\ call'[c].warned \in {call[c].warned, call[c].warned \cup {"not refundable"}}
      /\ call'[c].refund = call[c].refund
      /\ call'[c].cancelled = call[c].cancelled /\ call'[c].due = call[c].due
      /\ call'[c].authorized = call[c].authorized /\ call'[c].settled = call[c].settled
      /\ \/ call'[c].todo = owed
         \/ /\ call'[c].todo = {}
            /\ call[c].settled = {} \/ ~call[c].refund \/ "not refundable" \in call'[c].warned
  <2>1. CASE call' = [call EXCEPT ![c].at = "refunding", ![c].todo = owed]
    <3>1. Moves(c)
      BY <1>1, <1>2, <2>1 DEF Moves, Fields, ShapeInv
    <3>2. /\ call'[c].at = "refunding" /\ call'[c].refunded = {}
          /\ call'[c].warned = call[c].warned /\ call'[c].refund = call[c].refund
          /\ call'[c].cancelled = call[c].cancelled /\ call'[c].due = call[c].due
          /\ call'[c].authorized = call[c].authorized /\ call'[c].settled = call[c].settled
          /\ call'[c].todo = owed
      <4>1. call'[c] = [call[c] EXCEPT !.at = "refunding", !.todo = owed]
        BY <1>2, <2>1 DEF ShapeInv
      <4>2. call[c] = [f \in Fields |-> call[c][f]]
        BY <1>2 DEF ShapeInv
      <4>3. call'[c].todo = owed /\ call'[c].at = "refunding"
        BY <4>1, <4>2 DEF Fields
      <4>4. QED
        BY <1>2, <4>1, <4>2, <4>3 DEF Fields
    <3>3. QED
      BY <3>1, <3>2
  <2>2. CASE /\ call[c].settled = {} \/ ~call[c].refund
             /\ call' = [call EXCEPT ![c].at = "refunding"]
    BY <1>1, <1>2, <2>2, ZenonT(60) DEF Moves, Fields, ShapeInv
  <2>3. CASE call' = [call EXCEPT ![c] = [Warn(c, "not refundable") EXCEPT !.at = "refunding"]]
    BY <1>1, <1>2, <2>3, ZenonT(60) DEF Warn, Moves, Fields, ShapeInv
  <2>4. \/ call' = [call EXCEPT ![c].at = "refunding", ![c].todo = owed]
        \/ /\ call[c].settled = {} \/ ~call[c].refund
           /\ call' = [call EXCEPT ![c].at = "refunding"]
        \/ call' = [call EXCEPT ![c] = [Warn(c, "not refundable") EXCEPT !.at = "refunding"]]
    <3>1. CASE /\ call[c].refund /\ Refundable(call[c].state)
               /\ call' = [call EXCEPT ![c].at = "refunding", ![c].todo = owed]
      BY <3>1
    <3>2. CASE call' = [call EXCEPT ![c] =
                  [(IF call[c].settled = {} THEN call[c] ELSE Warn(c, "not refundable"))
                      EXCEPT !.at = "refunding"]]
      <4>1. CASE call[c].settled = {}
        <5>1. call' = [call EXCEPT ![c] = [call[c] EXCEPT !.at = "refunding"]]
          BY <3>2, <4>1
        <5>2. QED
          BY <4>1, <5>1
      <4>2. CASE call[c].settled # {}
        BY <3>2, <4>2
      <4>3. QED
        BY <4>1, <4>2
    <3>3. CASE ~call[c].refund /\ call' = [call EXCEPT ![c].at = "refunding"]
      BY <3>3
    <3>4. QED
      BY <1>a, <3>1, <3>2, <3>3
  <2>5. QED
    BY <2>1, <2>2, <2>3, <2>4
<1>4. /\ NothingUndone /\ \A b : NoneOfIts(b)
      /\ Made(c)' = Made(c) /\ order' = order
      /\ order' = [state |-> order'.state, payments |-> [q \in Payments |-> order'.payments[q]]]
      /\ \A q : Outstanding(q)' = Outstanding(q)
  BY <1>1, HostStays DEF Host
<1>5. OutcomeKept(c)'
  <2>1. "threw" \notin call[c].warned /\ "threw" # "not refundable"
    BY <1>2 DEF Threw
  <2>2. "threw" \notin call'[c].warned
    BY <1>3, <2>1
  <2>3. QED
    BY <1>2, <1>3, <1>4, <2>2 DEF OutcomeKept, Threw, BeforeItsRow
<1>6. SnapshotKept(c)'
  <2>1. \A q \in Payments : call'[c].due[q] \in Int /\ Outstanding(q)' <= call'[c].due[q]
    BY <1>1, <1>2, <1>3, <1>4 DEF SnapshotKept
  <2>2. QED
    BY <1>2, <1>3, <1>4, <2>1 DEF SnapshotKept
<1>7. NothingSkipped(c)'
  <2>1. call[c].authorized \subseteq Payments /\ call[c].settled \subseteq Payments
    BY <1>2 DEF SnapshotKept
  <2>2. \A q \in call'[c].authorized : Voided(c, q)'
    BY <1>1, <1>2, <1>3, <1>4, <2>1, StaysVoided DEF WhileVoiding
  <2>3. ASSUME call[c].refund, NEW q \in call'[c].settled \ call'[c].todo
        PROVE  Repaid(c, q)'
    <3>1. CASE "not refundable" \in call'[c].warned
      BY <3>1 DEF Repaid
    <3>2. CASE q \notin owed
      <4>1. q \in Payments /\ q \in call[c].settled /\ ~(call[c].due[q] > 0)
        BY <1>0, <1>3, <2>1, <2>3, <3>2
      <4>2. /\ call[c].due[q] \in Int /\ Outstanding(q) <= call[c].due[q]
            /\ Outstanding(q) \in Int
        BY <1>1, <1>2, <1>4, <4>1, NeverOwedMore DEF SnapshotKept, NothingUndone
      <4>3. Outstanding(q) <= 0
        BY <4>1, <4>2
      <4>4. QED
        BY <1>4, <4>3 DEF Repaid
    <3>3. QED
      BY <1>3, <2>3, <3>1, <3>2
  <2>4. call'[c].todo \subseteq call'[c].settled /\ \A q \in call'[c].todo : call'[c].due[q] > 0
    BY <1>0, <1>3
  <2>5. WhileRefunding(c)'
    BY <1>3, <2>2, <2>3, <2>4 DEF WhileRefunding
  <2>6. QED
    BY <1>3, <2>5 DEF NothingSkipped
<1>8. QED
  BY <1>1, <1>3, <1>4, <1>5, <1>6, <1>7, RowsAsBefore, OneCallMoves

\* A refund that the host makes is a new one: the call makes one of each
\* payment, and says so.
LEMMA RefundMade ==
  ASSUME RejectInv, NEW c \in Calls, call[c].at = "refunding", NEW p \in call[c].todo,
         NEW state, Refunding(c, p, state), UNCHANGED order
  PROVE  /\ NothingUndone
         /\ order' = [state |-> order'.state, payments |-> [q \in Payments |-> order'.payments[q]]]
         /\ \A b : b # c => NoneOfIts(b)
         /\ Made(c)' = Made(c) \cup {<<p, call[c].due[p]>>}
         /\ state = "Failed" => HandlerFailed(p)'
         /\ state # "Failed" => Outstanding(p)' <= 0
<1>1. /\ OutcomeKept(c) /\ SnapshotKept(c) /\ WhileRefunding(c) /\ ~Threw(c)
      /\ RefundsInv /\ ShapeInv
  BY DEF RejectInv, OutcomeKept, NothingSkipped, BeforeItsRow
<1>2. PICK due : due = call[c].due[p]
  OBVIOUS
<1>3. p \in Payments /\ due \in Nat /\ Outstanding(p) <= due
  <2>1. p \in call[c].settled /\ call[c].settled \subseteq Payments /\ due > 0
    BY <1>1, <1>2 DEF WhileRefunding, SnapshotKept
  <2>2. due \in Int /\ Outstanding(p) <= due
    BY <1>1, <1>2, <2>1 DEF SnapshotKept
  <2>3. QED
    BY <2>1, <2>2
<1> DEFINE new == [payment |-> p, total |-> due, state |-> state, by |-> c]
<1>4. refunds' = refunds \cup {new}
  BY <1>2 DEF Refunding
<1>5. new.payment = p /\ new.total = due /\ new.state = state /\ new.by = c
  OBVIOUS
<1> HIDE DEF new
<1>6. new \notin refunds
  <2>1. SUFFICES ASSUME new \in refunds
                 PROVE  FALSE
    OBVIOUS
  <2>2. <<p, due>> \in Made(c)
    BY <1>5, <2>1 DEF Made
  <2>3. <<p, due>> \in call[c].refunded
    BY <1>1, <2>2 DEF OutcomeKept
  <2>4. QED
    BY <1>1, <2>3 DEF WhileRefunding
<1>7. RefundsInv'
  <2>1. IsFiniteSet(refunds \cup {new})
    BY <1>1, FS_AddElement DEF RefundsInv
  <2>2. QED
    BY <1>1, <1>3, <1>4, <1>5, <2>1 DEF RefundsInv
<1>8. NothingUndone
  BY <1>4, <1>7 DEF NothingUndone
<1>9. Made(c)' = Made(c) \cup {<<p, due>>}
  BY <1>4, <1>5 DEF Made
<1>10. state = "Failed" => HandlerFailed(p)'
  BY <1>4, <1>5 DEF HandlerFailed
<1>11. state # "Failed" => Outstanding(p)' <= 0
  BY <1>1, <1>3, <1>4, <1>5, <1>6, <1>7, PaidBack
<1>12. \A b : b # c => NoneOfIts(b)
  BY <1>4, <1>5 DEF NoneOfIts
<1>13. order' = [state |-> order'.state, payments |-> [q \in Payments |-> order'.payments[q]]]
  BY <1>1 DEF ShapeInv
<1>14. QED
  BY <1>2, <1>8, <1>9, <1>10, <1>11, <1>12, <1>13

LEMMA RefundKeeps ==
  ASSUME RejectInv, NEW c \in Calls, NEW p \in Payments, Refund(c, p)
  PROVE  RejectInv'
<1>1. /\ call[c].at = "refunding" /\ p \in call[c].todo
      /\ order' = order /\ fraudLog' = fraudLog
  BY DEF Refund
<1>2. /\ OutcomeKept(c) /\ SnapshotKept(c) /\ WhileRefunding(c) /\ ~Threw(c)
      /\ RefundsInv /\ ShapeInv
  BY <1>1 DEF RejectInv, OutcomeKept, NothingSkipped, BeforeItsRow
<1>3. PICK one : one = <<p, call[c].due[p]>>
  OBVIOUS
<1>4. /\ order' = [state |-> order'.state, payments |-> [q \in Payments |-> order'.payments[q]]]
      /\ NothingUndone /\ \A b : b # c => NoneOfIts(b)
      /\ \/ /\ Made(c)' = Made(c) \cup {one} /\ Repaid(c, p)'
            /\ call' = [call EXCEPT ![c].todo = @ \ {p}, ![c].refunded = @ \cup {one}]
         \/ /\ Made(c)' = Made(c)
            /\ call' = [call EXCEPT ![c] = [Warn(c, p) EXCEPT !.todo = @ \ {p}]]
  <2>1. CASE /\ \E state \in {"Settled"} \cup IF FailedRefunds THEN {"Failed"} ELSE {} :
                   Refunding(c, p, state)
             /\ call' = [call EXCEPT ![c].todo = @ \ {p}, ![c].refunded = @ \cup {one}]
    <3>1. PICK state : Refunding(c, p, state)
      BY <2>1
    <3>2. Repaid(c, p)'
      BY <1>1, <3>1, RefundMade DEF Repaid
    <3>3. QED
      BY <1>1, <1>3, <2>1, <3>1, <3>2, RefundMade
  <2>2. CASE /\ refunds' = refunds
             /\ call' = [call EXCEPT ![c] = [Warn(c, p) EXCEPT !.todo = @ \ {p}]]
    BY <1>1, <2>2, HostStays DEF Host
  <2>3. QED
    BY <1>3, <2>1, <2>2 DEF Refund
<1>5. /\ Moves(c) /\ call'[c].at = "refunding"
      /\ call'[c].todo = call[c].todo \ {p}
      /\ call[c].warned \subseteq call'[c].warned
      /\ call'[c].warned \subseteq call[c].warned \cup {p}
      /\ \/ /\ call'[c].refunded = call[c].refunded \cup {one}
            /\ Made(c)' = Made(c) \cup {one}
         \/ call'[c].refunded = call[c].refunded /\ Made(c)' = Made(c)
      /\ Repaid(c, p)'
      /\ call'[c].refund = call[c].refund
      /\ call'[c].cancelled = call[c].cancelled /\ call'[c].due = call[c].due
      /\ call'[c].authorized = call[c].authorized /\ call'[c].settled = call[c].settled
  <2>1. CASE /\ Made(c)' = Made(c) \cup {one} /\ Repaid(c, p)'
             /\ call' = [call EXCEPT ![c].todo = @ \ {p}, ![c].refunded = @ \cup {one}]
    <3>1. Moves(c)
      BY <1>1, <1>2, <2>1 DEF Moves, Fields, ShapeInv
    <3>2. call'[c] = [call[c] EXCEPT !.todo = @ \ {p}, !.refunded = @ \cup {one}]
      BY <1>2, <2>1 DEF ShapeInv
    <3>3. call[c] = [f \in Fields |-> call[c][f]]
      BY <1>2 DEF ShapeInv
    <3>4. /\ call'[c].todo = call[c].todo \ {p} /\ call'[c].refunded = call[c].refunded \cup {one}
          /\ call'[c].at = call[c].at /\ call'[c].warned = call[c].warned
          /\ call'[c].refund = call[c].refund
          /\ call'[c].cancelled = call[c].cancelled /\ call'[c].due = call[c].due
          /\ call'[c].authorized = call[c].authorized /\ call'[c].settled = call[c].settled
      BY <3>2, <3>3 DEF Fields
    <3>5. QED
      BY <1>1, <2>1, <3>1, <3>4
  <2>2. CASE /\ Made(c)' = Made(c)
             /\ call' = [call EXCEPT ![c] = [Warn(c, p) EXCEPT !.todo = @ \ {p}]]
    <3>1. /\ Moves(c) /\ call'[c].at = "refunding"
          /\ call'[c].todo = call[c].todo \ {p}
          /\ call'[c].warned = call[c].warned \cup {p}
          /\ call'[c].refunded = call[c].refunded /\ call'[c].refund = call[c].refund
          /\ call'[c].cancelled = call[c].cancelled /\ call'[c].due = call[c].due
          /\ call'[c].authorized = call[c].authorized /\ call'[c].settled = call[c].settled
      BY <1>1, <1>2, <2>2, ZenonT(60) DEF Warn, Moves, Fields, ShapeInv
    <3>2. Repaid(c, p)'
      BY <3>1 DEF Repaid
    <3>3. QED
      BY <2>2, <3>1, <3>2
  <2>3. QED
    BY <1>4, <2>1, <2>2
<1>6. OutcomeKept(c)'
  <2>1. "threw" \notin call'[c].warned
    BY <1>2, <1>5, RejectAssumption DEF Threw
  <2>2. Made(c)' \subseteq call'[c].refunded /\ call'[c].refunded \subseteq Made(c)'
    BY <1>2, <1>5 DEF OutcomeKept
  <2>3. QED
    BY <1>1, <1>2, <1>5, <2>1, <2>2 DEF OutcomeKept, Threw, BeforeItsRow
<1>7. SnapshotKept(c)'
  <2>1. \A q \in Payments : Outstanding(q) \in Int /\ Outstanding(q)' \in Int /\ Outstanding(q)' <= Outstanding(q)
    BY <1>2, <1>4, NeverOwedMore DEF NothingUndone
  <2>2. \A q \in Payments : call[c].due[q] \in Int /\ Outstanding(q) <= call[c].due[q]
    BY <1>1, <1>2 DEF SnapshotKept
  <2>3. \A q \in Payments : call'[c].due[q] \in Int /\ Outstanding(q)' <= call'[c].due[q]
    BY <1>5, <2>1, <2>2
  <2>4. QED
    BY <1>2, <1>1, <1>5, <2>3 DEF SnapshotKept
<1>8. NothingSkipped(c)'
  <2>1. call[c].authorized \subseteq Payments /\ call[c].settled \subseteq Payments
    BY <1>2 DEF SnapshotKept
  <2>2. \A q \in call'[c].authorized : Voided(c, q)'
    BY <1>2, <1>4, <1>5, <2>1, StaysVoided DEF WhileRefunding
  <2>3. ASSUME call[c].refund, NEW q \in call'[c].settled \ call'[c].todo
        PROVE  Repaid(c, q)'
    <3>1. CASE q = p
      BY <1>5, <3>1
    <3>2. CASE q # p
      BY <1>2, <1>4, <1>5, <2>1, <2>3, <3>2, StaysRepaid DEF WhileRefunding
    <3>3. QED
      BY <3>1, <3>2
  <2>4. ASSUME NEW q \in call'[c].todo
        PROVE  call'[c].due[q] > 0 /\ \A m \in call'[c].refunded : m[1] # q
    <3>1. q # p /\ q \in call[c].todo
      BY <1>5
    <3>2. one[1] = p
      BY <1>3
    <3>3. call[c].due[q] > 0 /\ \A m \in call[c].refunded : m[1] # q
      BY <1>2, <3>1 DEF WhileRefunding
    <3>4. QED
      BY <1>5, <3>1, <3>2, <3>3
  <2>5. call'[c].todo \subseteq call'[c].settled
    BY <1>2, <1>5 DEF WhileRefunding
  <2>6. WhileRefunding(c)'
    BY <1>5, <2>2, <2>3, <2>4, <2>5 DEF WhileRefunding
  <2>7. QED
    BY <1>5, <2>6 DEF NothingSkipped
<1>9. QED
  BY <1>1, <1>4, <1>5, <1>6, <1>7, <1>8, RowsAsBefore, OneCallMoves

(* The order is cancelled, or a warning says why not; and all that the     *)
(* call was to see to has been seen to.                                    *)
LEMMA CancelKeeps ==
  ASSUME RejectInv, NEW c \in Calls, Cancel(c)
  PROVE  RejectInv'
<1>1. /\ call[c].at = "refunding" /\ call[c].todo = {}
      /\ refunds' = refunds /\ fraudLog' = fraudLog
  BY DEF Cancel
<1>2. /\ OutcomeKept(c) /\ SnapshotKept(c) /\ WhileRefunding(c) /\ ~Threw(c)
      /\ RefundsInv /\ ShapeInv
  BY <1>1 DEF RejectInv, OutcomeKept, NothingSkipped, BeforeItsRow
<1>3. /\ order' = [state |-> order'.state, payments |-> [q \in Payments |-> order'.payments[q]]]
      /\ order'.payments = order.payments /\ NothingUndone
      /\ Moves(c) /\ call'[c].at = "logging"
      /\ call'[c].refunded = call[c].refunded /\ call'[c].refund = call[c].refund
      /\ call'[c].authorized = call[c].authorized /\ call'[c].settled = call[c].settled
      /\ \/ /\ call'[c].warned = call[c].warned
            /\ call'[c].cancelled = TRUE /\ order'.state = "Cancelled"
         \/ /\ call'[c].warned = call[c].warned \cup {"cancel"}
            /\ call'[c].cancelled = call[c].cancelled
  <2>1. CASE /\ order' = [order EXCEPT !.state = "Cancelled"]
             /\ call' = [call EXCEPT ![c].at = "logging", ![c].cancelled = TRUE]
    <3>1. /\ order' = [state |-> order'.state, payments |-> [q \in Payments |-> order'.payments[q]]]
          /\ order'.state = "Cancelled" /\ order'.payments = order.payments
      BY <1>2, <2>1, OrderCancelled
    <3>2. NothingUndone
      BY <1>1, <1>2, <3>1 DEF NothingUndone, RefundsInv
    <3>3. /\ Moves(c) /\ call'[c].at = "logging" /\ call'[c].warned = call[c].warned
          /\ call'[c].refunded = call[c].refunded /\ call'[c].refund = call[c].refund
          /\ call'[c].authorized = call[c].authorized /\ call'[c].settled = call[c].settled
          /\ call'[c].cancelled = TRUE
      BY <1>2, <2>1, ZenonT(60) DEF Moves, Fields, ShapeInv
    <3>4. QED
      BY <3>1, <3>2, <3>3
  <2>2. CASE /\ call' = [call EXCEPT ![c] = [Warn(c, "cancel") EXCEPT !.at = "logging"]]
             /\ order' = order
    <3>1. NothingUndone /\ order' = [state |-> order'.state, payments |-> [q \in Payments |-> order'.payments[q]]]
      BY <1>1, <2>2, HostStays DEF Host
    <3>2. /\ Moves(c) /\ call'[c].at = "logging" /\ call'[c].warned = call[c].warned \cup {"cancel"}
          /\ call'[c].refunded = call[c].refunded /\ call'[c].refund = call[c].refund
          /\ call'[c].authorized = call[c].authorized /\ call'[c].settled = call[c].settled
          /\ call'[c].cancelled = call[c].cancelled
      BY <1>2, <2>2, ZenonT(60) DEF Warn, Moves, Fields, ShapeInv
    <3>3. QED
      BY <2>2, <3>1, <3>2
  <2>3. QED
    BY <2>1, <2>2 DEF Cancel
<1>4. Made(c)' = Made(c) /\ \A b : NoneOfIts(b)
  BY <1>1 DEF Made, NoneOfIts
<1>5. OutcomeKept(c)'
  <2>1. "threw" \notin call[c].warned /\ "threw" # "cancel"
    BY <1>2 DEF Threw
  <2>2. "threw" \notin call'[c].warned
    BY <1>3, <2>1
  <2>3. call'[c].cancelled => order'.state = "Cancelled"
    BY <1>2, <1>3 DEF OutcomeKept, NothingUndone
  <2>4. QED
    BY <1>2, <1>3, <1>4, <2>2, <2>3 DEF OutcomeKept, Threw, BeforeItsRow
<1>6. SnapshotKept(c)'
  BY <1>2, <1>3 DEF SnapshotKept
<1>7. NothingSkipped(c)'
  <2>1. call[c].authorized \subseteq Payments /\ call[c].settled \subseteq Payments
    BY <1>2 DEF SnapshotKept
  <2>2. call[c].warned \subseteq call'[c].warned
    BY <1>3
  <2>3. \A q \in call'[c].authorized : Voided(c, q)'
    BY <1>2, <1>3, <2>1, <2>2, StaysVoided DEF WhileRefunding
  <2>4. call'[c].refund => \A q \in call'[c].settled : Repaid(c, q)'
    BY <1>1, <1>2, <1>3, <2>1, <2>2, StaysRepaid DEF WhileRefunding
  <2>5. QED
    BY <1>3, <2>3, <2>4 DEF NothingSkipped, Afterwards
<1>8. QED
  BY <1>1, <1>3, <1>4, <1>5, <1>6, <1>7, RowsAsBefore, OneCallMoves

(* The call that threw may have done one thing more than it says.          *)
LEMMA ThrowKeeps ==
  ASSUME RejectInv, NEW c \in Calls, Throw(c)
  PROVE  RejectInv'
<1>1. /\ call[c].at \in {"finding", "voiding", "refunding"}
      /\ fraudLog' = fraudLog
      /\ call' = [call EXCEPT ![c] = [Warn(c, "threw") EXCEPT !.at = "logging"]]
  BY DEF Throw
<1>2. /\ OutcomeKept(c) /\ SnapshotKept(c) /\ ~Threw(c) /\ RefundsInv /\ ShapeInv
  BY <1>1 DEF RejectInv, OutcomeKept, BeforeItsRow
<1>3. /\ order' = [state |-> order'.state, payments |-> [q \in Payments |-> order'.payments[q]]]
      /\ NothingUndone /\ \A b : b # c => NoneOfIts(b)
      /\ \E one : Made(c) \subseteq Made(c)' /\ Made(c)' \subseteq Made(c) \cup {one}
  <2>1. CASE UNCHANGED <<order, refunds>>
    BY <2>1, HostStays DEF Host
  <2>2. CASE /\ \E p \in call[c].todo :
                   /\ order.payments[p] = "Authorized"
                   /\ order' = [order EXCEPT !.payments[p] = "Cancelled"]
             /\ call[c].at = "voiding" /\ UNCHANGED refunds
    <3>1. PICK p \in call[c].todo :
             /\ order.payments[p] = "Authorized"
             /\ order' = [order EXCEPT !.payments[p] = "Cancelled"]
      BY <2>2
    <3>2. p \in Payments
      BY <2>2 DEF RejectInv, SnapshotKept, NothingSkipped, WhileVoiding
    <3>3. /\ order' = [state |-> order'.state, payments |-> [q \in Payments |-> order'.payments[q]]]
          /\ order'.state = order.state /\ order'.payments[p] = "Cancelled"
          /\ \A q \in Payments : q # p => order'.payments[q] = order.payments[q]
      BY <1>2, <3>1, <3>2, OrderTurns
    <3>4. NothingUndone
      BY <1>2, <2>2, <3>1, <3>3 DEF NothingUndone, RefundsInv
    <3>5. QED
      BY <2>2, <3>3, <3>4 DEF Made, NoneOfIts
  <2>3. CASE /\ call[c].at = "refunding"
             /\ \E p \in call[c].todo : Refunding(c, p, "Settled")
             /\ UNCHANGED order
    BY <2>3, RefundMade
  <2>4. CASE order' = [order EXCEPT !.state = "Cancelled"] /\ UNCHANGED refunds
    <3>1. /\ order' = [state |-> order'.state, payments |-> [q \in Payments |-> order'.payments[q]]]
          /\ order'.state = "Cancelled" /\ order'.payments = order.payments
      BY <1>2, <2>4, OrderCancelled
    <3>2. NothingUndone
      BY <1>2, <2>4, <3>1 DEF NothingUndone, RefundsInv
    <3>3. QED
      BY <2>4, <3>1, <3>2 DEF Made, NoneOfIts
  <2>5. QED
    BY <2>1, <2>2, <2>3, <2>4 DEF Throw
<1>4. /\ Moves(c) /\ call'[c].at = "logging"
      /\ call'[c].warned = call[c].warned \cup {"threw"}
      /\ call'[c].refunded = call[c].refunded /\ call'[c].cancelled = call[c].cancelled
      /\ call'[c].authorized = call[c].authorized /\ call'[c].settled = call[c].settled
  BY <1>1, <1>2, ZenonT(60) DEF Warn, Moves, Fields, ShapeInv
<1>5. Threw(c)'
  BY <1>4 DEF Threw
<1>6. OutcomeKept(c)'
  <2>1. Made(c) = call[c].refunded
    BY <1>2 DEF OutcomeKept
  <2>2. call'[c].refunded \subseteq Made(c)' /\ \A m, n \in Made(c)' \ call'[c].refunded : m = n
    BY <1>3, <1>4, <2>1
  <2>3. call'[c].cancelled => order'.state = "Cancelled"
    BY <1>2, <1>3, <1>4 DEF OutcomeKept, NothingUndone
  <2>4. QED
    BY <1>4, <1>5, <2>2, <2>3 DEF OutcomeKept, BeforeItsRow
<1>7. SnapshotKept(c)'
  BY <1>2, <1>3, <1>4 DEF SnapshotKept, NothingUndone
<1>8. NothingSkipped(c)'
  BY <1>4, <1>5 DEF NothingSkipped, Afterwards
<1>9. call[c].at # "done"
  BY <1>1
<1>10. QED
  BY <1>1, <1>3, <1>4, <1>6, <1>7, <1>8, <1>9, RowsAsBefore, OneCallMoves

-----------------------------------------------------------------------------
(* What others do to the order.                                            *)

\* What has gone wrong is counted, and so are the refunds by hand.
TroubleInv == trouble \in [faults : Nat, meddling : Nat]

LEMMA TroubleCounted == Spec => []TroubleInv
<1>1. Init => TroubleInv
  BY DEF Init, TroubleInv
<1>2. ASSUME NEW n \in Nat, Faulty(n), TroubleInv
      PROVE  TroubleInv'
  BY <1>2 DEF Faulty, TroubleInv
<1>3. TroubleInv /\ [Next]_vars => TroubleInv'
  <2> SUFFICES ASSUME TroubleInv, [Next]_vars
               PROVE  TroubleInv'
    OBVIOUS
  <2>1. CASE UNCHANGED trouble
    BY <2>1 DEF TroubleInv
  <2>2. CASE \E n \in Nat : Faulty(n)
    BY <1>2, <2>2
  <2>3. CASE Meddle
    BY <2>3 DEF Meddle, TroubleInv
  <2>4. ASSUME NEW c \in Calls, FindOrder(c)
        PROVE  \E n \in Nat : Faulty(n)
    <3>1. PICK rowsAnswer, tokenAnswers \in BOOLEAN :
             Faulty(Cardinality({a \in {"rows", "token"} :
                       (a = "rows" /\ ~rowsAnswer) \/ (a = "token" /\ ~tokenAnswers)}))
      BY <2>4 DEF FindOrder
    <3>2. \A S \in SUBSET {"rows", "token"} : Cardinality(S) \in Nat
      <4>1. IsFiniteSet({"rows", "token"})
        <5>1. IsFiniteSet({"rows"} \cup {"token"})
          BY FS_Singleton, FS_AddElement
        <5>2. QED
          BY <5>1
      <4>2. QED
        BY <4>1, FS_Subset, FS_CardinalityType
    <3>3. QED
      BY <3>1, <3>2
  <2>5. ASSUME NEW c \in Calls, Throw(c) \/ Fail(c)
        PROVE  \E n \in Nat : Faulty(n)
    BY <2>5 DEF Throw, Fail
  <2>6. ASSUME NEW c \in Calls,
               \/ ReadCase(c) \/ UpdateCase(c) \/ LogDecision(c) \/ TurnToRefunds(c) \/ Cancel(c)
               \/ \E p \in Payments : Void(c, p) \/ Refund(c, p)
        PROVE  UNCHANGED trouble
    BY <2>6 DEF ReadCase, UpdateCase, LogDecision, TurnToRefunds, Cancel, Void, Refund
  <2>7. QED
    BY <2>1, <2>2, <2>3, <2>4, <2>5, <2>6 DEF Next, Proceed, vars
<1>4. QED
  BY <1>1, <1>3, PTL DEF Spec

LEMMA MeddleKeeps ==
  ASSUME RejectInv, TroubleInv, Meddle
  PROVE  RejectInv'
<1>1. call' = call /\ fraudLog' = fraudLog /\ ShapeInv /\ RefundsInv
  BY DEF Meddle, RejectInv
<1>2. /\ order' = [state |-> order'.state, payments |-> [q \in Payments |-> order'.payments[q]]]
      /\ NothingUndone /\ \A c \in Calls : NoneOfIts(c)
  <2>1. CASE /\ \E p \in Payments :
                   /\ order.payments[p] \in {"Created", "Authorized"}
                   /\ order' = [order EXCEPT !.payments[p] = "Settled"]
             /\ UNCHANGED refunds
    <3>1. PICK p \in Payments :
             /\ order.payments[p] \in {"Created", "Authorized"}
             /\ order' = [order EXCEPT !.payments[p] = "Settled"]
      BY <2>1
    <3>2. /\ order' = [state |-> order'.state, payments |-> [q \in Payments |-> order'.payments[q]]]
          /\ order'.state = order.state /\ order'.payments[p] = "Settled"
          /\ \A q \in Payments : q # p => order'.payments[q] = order.payments[q]
      BY <1>1, <3>1, OrderTurns
    <3>3. NothingUndone
      BY <1>1, <2>1, <3>1, <3>2 DEF NothingUndone, RefundsInv
    <3>4. QED
      BY <2>1, <3>2, <3>3 DEF NoneOfIts
  <2>2. CASE /\ \E p \in Payments : refunds' = refunds \cup
                   {[payment |-> p, total |-> 1, state |-> "Settled", by |-> trouble.meddling]}
             /\ UNCHANGED order
    <3>1. PICK p \in Payments : refunds' = refunds \cup
             {[payment |-> p, total |-> 1, state |-> "Settled", by |-> trouble.meddling]}
      BY <2>2
    <3>2. PICK new : new = [payment |-> p, total |-> 1, state |-> "Settled", by |-> trouble.meddling]
      OBVIOUS
    <3>3. refunds' = refunds \cup {new} /\ new.total \in Nat /\ new.by \in Nat
      BY <3>1, <3>2 DEF TroubleInv
    <3>4. IsFiniteSet(refunds \cup {new})
      BY <1>1, FS_AddElement DEF RefundsInv
    <3>5. RefundsInv'
      BY <1>1, <3>3, <3>4 DEF RefundsInv
    <3>6. NothingUndone
      BY <2>2, <3>3, <3>5 DEF NothingUndone
    <3>7. \A c \in Calls : NoneOfIts(c)
      BY <3>3, RejectAssumption DEF NoneOfIts
    <3>8. QED
      BY <1>1, <2>2, <3>6, <3>7 DEF ShapeInv
  <2>3. CASE order' = [order EXCEPT !.state = "Cancelled"] /\ UNCHANGED refunds
    <3>1. /\ order' = [state |-> order'.state, payments |-> [q \in Payments |-> order'.payments[q]]]
          /\ order'.state = "Cancelled" /\ order'.payments = order.payments
      BY <1>1, <2>3, OrderCancelled
    <3>2. NothingUndone
      BY <1>1, <2>3, <3>1 DEF NothingUndone, RefundsInv
    <3>3. QED
      BY <2>3, <3>1, <3>2 DEF NoneOfIts
  <2>4. QED
    BY <2>1, <2>2, <2>3 DEF Meddle
<1>3. \A c \in Calls : OutcomeKept(c)' /\ SnapshotKept(c)' /\ NothingSkipped(c)'
  BY <1>1, <1>2, OthersStay DEF RejectInv
<1>4. ShapeInv' /\ RowsInv' /\ RefundsInv'
  BY <1>1, <1>2 DEF RejectInv, ShapeInv, RowsInv, NothingUndone
<1>5. QED
  BY <1>3, <1>4 DEF RejectInv

-----------------------------------------------------------------------------
(* All steps together.                                                     *)

LEMMA InitReject == Init => RejectInv
<1> SUFFICES ASSUME Init
             PROVE  RejectInv
  OBVIOUS
<1>1. \A c \in Calls : call[c] = Fresh
  BY DEF Init
<1>2. ShapeInv
  <2>1. order = [state |-> order.state, payments |-> [p \in Payments |-> order.payments[p]]]
    BY RejectAssumption DEF Init
  <2>2. Fresh = [f \in Fields |-> Fresh[f]]
    BY DEF Fresh, Fields
  <2>3. \A c \in Calls : call[c] = [f \in Fields |-> call[c][f]]
    BY <1>1, <2>2
  <2>4. call = [c \in Calls |-> call[c]]
    BY DEF Init
  <2>5. QED
    BY <2>1, <2>3, <2>4 DEF ShapeInv
<1>3. RowsInv /\ RefundsInv
  BY FS_EmptySet DEF Init, RowsInv, RefundsInv
<1>4. ASSUME NEW c \in Calls
      PROVE  OutcomeKept(c) /\ SnapshotKept(c) /\ NothingSkipped(c)
  <2>1. /\ call[c].at = "idle" /\ call[c].authorized = {} /\ call[c].settled = {}
        /\ call[c].refunded = {} /\ call[c].warned = {} /\ call[c].cancelled = FALSE
    BY <1>1 DEF Fresh
  <2>2. Made(c) = {}
    BY DEF Made, Init
  <2>3. QED
    BY <2>1, <2>2 DEF OutcomeKept, Threw, BeforeItsRow, SnapshotKept, NothingSkipped
<1>5. QED
  BY <1>2, <1>3, <1>4 DEF RejectInv

LEMMA RejectStep == RejectInv /\ TroubleInv /\ [Next]_vars => RejectInv'
<1> SUFFICES ASSUME RejectInv, TroubleInv, [Next]_vars
             PROVE  RejectInv'
  OBVIOUS
<1>1. CASE UNCHANGED vars
  <2>1. UNCHANGED Host /\ call' = call /\ fraudLog' = fraudLog
    BY <1>1 DEF vars, Host
  <2>2. \A c \in Calls : OutcomeKept(c)' /\ SnapshotKept(c)' /\ NothingSkipped(c)'
    BY <2>1, HostStays, OthersStay DEF RejectInv
  <2>3. ShapeInv' /\ RowsInv' /\ RefundsInv'
    BY <2>1, HostStays DEF RejectInv, ShapeInv, RowsInv, NothingUndone
  <2>4. QED
    BY <2>2, <2>3 DEF RejectInv
<1>2. CASE Meddle
  BY <1>2, MeddleKeeps
<1>3. ASSUME NEW c \in Calls, ReadCase(c) \/ Proceed(c) \/ Throw(c) \/ Fail(c)
      PROVE  RejectInv'
  BY <1>3, ReadKeeps, UpdateKeeps, FailKeeps, LogKeeps, FindKeeps, VoidKeeps, TurnKeeps,
     RefundKeeps, CancelKeeps, ThrowKeeps DEF Proceed
<1>4. QED
  BY <1>1, <1>2, <1>3 DEF Next

LEMMA RejectInvariance == Spec => []RejectInv
BY InitReject, RejectStep, TroubleCounted, PTL DEF Spec

(* The row tells the outcome, to every refund that the call made; only a   *)
(* call in which Vendure threw may have made one more than it says.        *)
THEOREM OutcomesAreTold == Spec => []OutcomeTold
<1>1. ASSUME RejectInv
      PROVE  OutcomeTold
  <2> SUFFICES ASSUME NEW row \in fraudLog
               PROVE  /\ row.refunded \subseteq Made(row.call)
                      /\ Cardinality(Made(row.call) \ row.refunded) <= IF "threw" \in row.warned THEN 1 ELSE 0
                      /\ row.cancelled => order.state = "Cancelled"
                      /\ row.cancelled \/ row.warned # {} \/ FALSE \in CancelOptions
    BY DEF OutcomeTold, Made
  <2>1. PICK c \in Calls : c = row.call
    BY <1>1 DEF RejectInv, RowsInv
  <2>2. /\ OutcomeKept(c) /\ call[c].at = "done" /\ row.refunded = call[c].refunded
        /\ row.cancelled = call[c].cancelled /\ row.warned = call[c].warned
    BY <1>1, <2>1 DEF RejectInv, RowsInv
  <2>3. PICK more : more = Made(c) \ row.refunded
    OBVIOUS
  <2>4. Cardinality(more) <= IF "threw" \in row.warned THEN 1 ELSE 0
    <3>1. CASE more = {}
      <4>1. Cardinality(more) = 0
        BY <3>1, FS_EmptySet
      <4>2. QED
        BY <4>1
    <3>2. CASE more # {}
      <4>1. "threw" \in row.warned /\ \A m, n \in more : m = n
        BY <2>2, <2>3, <3>2 DEF OutcomeKept, Threw
      <4>2. PICK m : more = {m}
        BY <3>2, <4>1
      <4>3. Cardinality(more) = 1
        BY <4>2, FS_Singleton
      <4>4. QED
        BY <4>1, <4>3
    <3>3. QED
      BY <3>1, <3>2
  <2>5. QED
    BY <2>1, <2>2, <2>3, <2>4 DEF OutcomeKept
<1>2. QED
  BY <1>1, RejectInvariance, PTL

(* "Vendure failures never block the case decision: they are reported in   *)
(* `warnings`" (fraud-prevention.service.ts:1193): whatever is captured,   *)
(* refunded or cancelled while the call runs and after it, there is no     *)
(* money left on a payment that it saw without a word in its row, but for  *)
(* a refund that the payment's handler failed.                             *)
THEOREM NoMoneyUnmentioned == Spec => []NothingLeftUnsaid
<1>1. ASSUME RejectInv
      PROVE  NothingLeftUnsaid
  <2> SUFFICES ASSUME NEW row \in fraudLog, NEW p \in Seen(row.call), HoldsMoney(p)
               PROVE  Said(row, p) \/ HandlerFailed(p)
    BY DEF NothingLeftUnsaid
  <2>1. PICK c \in Calls : c = row.call
    BY <1>1 DEF RejectInv, RowsInv
  <2>2. /\ SnapshotKept(c) /\ Afterwards(c) /\ row.warned = call[c].warned /\ RefundsInv
    BY <1>1, <2>1 DEF RejectInv, RowsInv, NothingSkipped
  <2>3. CASE Threw(c)
    BY <2>2, <2>3 DEF Threw, Said
  <2>4. CASE p \in call[c].authorized /\ Voided(c, p)
    BY <2>2, <2>4 DEF Voided, HoldsMoney, Said
  <2>5. CASE p \in call[c].settled /\ Repaid(c, p)
    <3>1. order.payments[p] = "Settled" /\ p \in Payments
      BY <2>2, <2>5 DEF SnapshotKept
    <3>2. Outstanding(p) > 0
      BY <3>1 DEF HoldsMoney
    <3>3. Outstanding(p) \in Int
      BY <2>2, <3>1, OutstandingIs
    <3>4. ~(Outstanding(p) <= 0)
      BY <3>2, <3>3
    <3>5. QED
      BY <2>2, <2>5, <3>4 DEF Repaid, Said
  <2>6. \/ p \in call[c].authorized
        \/ p \in call[c].settled /\ call[c].refund
    BY <2>1 DEF Seen
  <2>7. QED
    BY <2>2, <2>3, <2>4, <2>5, <2>6 DEF Afterwards
<1>2. QED
  BY <1>1, RejectInvariance, PTL

=============================================================================
