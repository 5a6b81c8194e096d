----------------------- MODULE FraudPreventionProofs ------------------------
(***************************************************************************)
(* Proofs about the composed system, for any orders, events, reviewers,    *)
(* limits, failures and restarts: the guard that assesses, the gate that   *)
(* releases, the decisions on cases and the promise of HoldPolicy.         *)
(***************************************************************************)
EXTENDS FraudPrevention, SequenceTheorems, FiniteSetTheorems, TLAPS

(* A waiter waits once: in the queue, or woken.                            *)
QueueInv ==
    /\ \A i \in DOMAIN queue : pc[queue[i]] = "queued" /\ queue[i] # woken
    /\ \A i, j \in DOMAIN queue : queue[i] = queue[j] => i = j
    /\ woken # NoEvent => pc[woken] = "queued"

(* The inductive invariant behind SlotsAccounted and NoLostWakeup.         *)

\* Slots that are taken, or promised to the waiter that was woken.
Claimed == running + IF woken = NoEvent THEN 0 ELSE 1

(* A slot that is given back while somebody waits is promised at once, so  *)
(* that no event finds it free.                                            *)
SlotInv ==
    /\ pc \in [Events -> Places] /\ queue \in Seq(Events) /\ woken \in Events \cup {NoEvent}
    /\ running = Cardinality(InFlight)
    /\ Claimed <= MaxConcurrent
    /\ queue # <<>> => Claimed = MaxConcurrent
    /\ QueueInv

-----------------------------------------------------------------------------
(* The inductive invariant behind ReleasedWereCleared, part by part.       *)

(* A verdict is reached once, before it is acted on, and a verdict that    *)
(* holds reaches the log only with a case.                                 *)
HandlerInv ==
    \A e \in Events :
        /\ pc[e] \in {"unpublished", "queued", "assessing"} => assessment[e] = "unscored"
        /\ pc[e] \in {"selecting", "inserting", "logging", "notifying"} =>
              assessment[e] # "unscored"
        /\ pc[e] = "logging" /\ Holds(assessment[e]) => HasCase(OrderOf[e])

(* Rows do not lie about verdicts, and what could hold has a case.         *)
LogInv ==
    \A row \in fraudLog :
        /\ row.action \in AssessmentActions => assessment[row.event] = row.action
        /\ row.action \in HeldActions \cup Decisions => HasCase(OrderOf[row.event])

CaseInv ==
    /\ \A e \in Events : caseStatus[e] = "approved" => <<e, "approved">> \in decided
    /\ \A r \in Resolvers :
          step[r] # "idle" => target[r] \in Events /\ caseStatus[target[r]] # "none"

(* An order that passed the question "assessed?" has a case or was let     *)
(* through by a verdict.                                                   *)
Accounted(o) ==
    \/ HasCase(o)
    \/ \E e \in EventsOf(o) : assessment[e] \in AssessmentActions \ HeldActions

(* The fulfilment path asks "assessed?" before "held?", and the query      *)
(* behind the second does not fail.                                        *)
SafeGate == FirstQuestion = "assessed" /\ ~HeldQueryMayFail

AskedInv == SafeGate => \A o \in asked : Accounted(o)

ReleasedInv == SafeGate => ReleasedWereCleared

IInv == /\ TypeOK /\ QueueInv /\ HandlerInv /\ LogInv /\ CaseInv
        /\ AskedInv /\ ReleasedInv

-----------------------------------------------------------------------------
(* The inductive invariant behind AuditTrail, RejectedStayHeld and         *)
(* DecisionFinal: it stands on IInv.                                       *)

\* A handler that may still insert a case has inserted none.
Early == {"unpublished", "queued", "assessing", "selecting", "inserting"}

FreshInv == \A e \in Events : pc[e] \in Early => caseStatus[e] = "none"

\* A call that has updated its case has left a trace of it.
Closing == {"cancelling", "auditing"}

TrailInv ==
    /\ \A r \in Resolvers : step[r] \in Closing => <<target[r], decision[r]>> \in decided
    /\ AuditTrail

\* Calls that take turns update the cases they have read, and so only once.
OneAtATime == \A r, q \in Resolvers : r = q

TurnsInv ==
    OneAtATime =>
       /\ \A r \in Resolvers : step[r] = "updating" => caseStatus[target[r]] = "pending"
       /\ \A d \in decided : caseStatus[d[1]] = d[2]

DecisionInv == FreshInv /\ TrailInv /\ TurnsInv

-----------------------------------------------------------------------------
(* The order guard's semaphore, for any events, any limit and any number   *)
(* of failures and restarts.                                               *)

(* What is left of a queue when its first element is taken.                *)
LEMMA HeadAndTail ==
  ASSUME NEW S, NEW q \in Seq(S), q # <<>>
  PROVE  /\ Tail(q) \in Seq(S)
         /\ Head(q) = q[1] /\ Head(q) \in S /\ 1 \in DOMAIN q
         /\ \A i \in DOMAIN Tail(q) :
               i + 1 \in DOMAIN q /\ i + 1 # 1 /\ Tail(q)[i] = q[i + 1]
<1>1. Len(q) \in Nat /\ DOMAIN q = 1..Len(q)
  OBVIOUS
<1>2. Len(q) # 0
  BY EmptySeq
<1>3. Head(q) = q[1] /\ 1 \in 1..Len(q)
  BY <1>1, <1>2
<1>4. /\ Tail(q) \in Seq(S) /\ Len(Tail(q)) = Len(q) - 1
      /\ \A i \in 1..Len(Tail(q)) : Tail(q)[i] = q[i + 1]
  BY HeadTailProperties
<1>5. DOMAIN Tail(q) = 1..Len(Tail(q))
  BY <1>4
<1>6. \A i \in 1..Len(Tail(q)) : i + 1 \in 1..Len(q) /\ i + 1 # 1
  BY <1>1, <1>2, <1>4
<1>7. q[1] \in S
  BY <1>1, <1>3
<1>8. QED
  BY <1>1, <1>3, <1>4, <1>5, <1>6, <1>7

-----------------------------------------------------------------------------
(* What a handler's move does to the set of those in flight.               *)

LEMMA InFlightFinite ==
  IsFiniteSet(InFlight) /\ Cardinality(InFlight) \in Nat
<1>1. IsFiniteSet(InFlight)
  BY TablesAssumption, FS_Subset DEF InFlight
<1>2. QED
  BY <1>1, FS_CardinalityType

LEMMA StaysInFlight ==
  ASSUME SlotInv, NEW e \in Events, pc[e] \in Active, NEW place \in Active, Goto(e, place)
  PROVE  InFlight' = InFlight
BY DEF SlotInv, Goto, InFlight

LEMMA TakesSlot ==
  ASSUME SlotInv, NEW e \in Events, pc[e] \notin Active, Goto(e, "assessing")
  PROVE  Cardinality(InFlight') = Cardinality(InFlight) + 1
<1>1. InFlight' = InFlight \cup {e} /\ e \notin InFlight
  BY DEF SlotInv, Goto, InFlight, Active
<1>2. QED
  BY <1>1, InFlightFinite, FS_AddElement

LEMMA GivesSlotBack ==
  ASSUME SlotInv, NEW e \in Events, pc[e] \in Active, NEW end \in Ended, Goto(e, end)
  PROVE  Cardinality(InFlight') = Cardinality(InFlight) - 1
<1>1. InFlight' = InFlight \ {e} /\ e \in InFlight
  BY DEF SlotInv, Goto, InFlight, Active, Ended
<1>2. QED
  BY <1>1, InFlightFinite, FS_RemoveElement

-----------------------------------------------------------------------------
(* The steps of the semaphore.                                             *)

(* A free slot is found only when nobody waits.                            *)
LEMMA StartAtOnceKeepsSlots ==
  ASSUME SlotInv, NEW e \in Events, StartAtOnce(e)
  PROVE  SlotInv'
<1> USE DEF SlotInv, StartAtOnce, At
<1>1. pc' = [pc EXCEPT ![e] = "assessing"] /\ pc[e] \notin Active
  BY DEF Goto, Active
<1>2. pc' \in [Events -> Places]
  BY <1>1 DEF Places, Active
<1>3. running' = Cardinality(InFlight')
  BY <1>1, TakesSlot DEF Goto
<1>4. running \in Nat /\ MaxConcurrent \in Nat /\ queue = <<>>
  BY InFlightFinite, GuardAssumption DEF Claimed
<1>5. Claimed' <= MaxConcurrent
  BY <1>4 DEF Claimed
<1>6. QueueInv'
  BY <1>1 DEF QueueInv
<1>7. QED
  BY <1>2, <1>3, <1>4, <1>5, <1>6

(* Who finds none appends itself once.                                     *)
LEMMA EnqueueKeepsSlots ==
  ASSUME SlotInv, NEW e \in Events, Enqueue(e)
  PROVE  SlotInv'
<1> USE DEF SlotInv, Enqueue, At
<1>1. pc' = [pc EXCEPT ![e] = "queued"] /\ pc[e] = "unpublished"
  BY DEF Goto
<1>2. pc' \in [Events -> Places] /\ queue' \in Seq(Events)
  BY <1>1 DEF Places
<1>3. InFlight' = InFlight
  BY <1>1 DEF InFlight, Active
<1>4. running \in Nat /\ MaxConcurrent \in Nat
  BY InFlightFinite, GuardAssumption
<1>5. Claimed' = Claimed /\ Claimed = MaxConcurrent
  BY <1>4 DEF Claimed
<1>6. QueueInv'
  BY <1>1, GuardAssumption DEF QueueInv
<1>7. QED
  BY <1>2, <1>3, <1>4, <1>5, <1>6

(* The waiter takes what it was promised.                                  *)
LEMMA ResumeKeepsSlots ==
  ASSUME SlotInv, Resume
  PROVE  SlotInv'
<1> USE DEF SlotInv, Resume
<1>1. woken \in Events /\ pc[woken] \notin Active /\ pc' = [pc EXCEPT ![woken] = "assessing"]
  BY DEF Goto, QueueInv, Active
<1>2. pc' \in [Events -> Places]
  BY <1>1 DEF Places, Active
<1>3. running' = Cardinality(InFlight')
  BY <1>1, TakesSlot
<1>4. running \in Nat /\ Claimed' = Claimed
  BY InFlightFinite DEF Claimed
<1>5. QueueInv'
  BY <1>1, GuardAssumption DEF QueueInv
<1>6. QED
  BY <1>2, <1>3, <1>4, <1>5

(* A handler that ends, well or badly, gives its slot to the first waiter. *)
LEMMA ReleaseKeepsSlots ==
  ASSUME SlotInv, NEW e \in Events, NEW end \in Ended,
         woken = NoEvent, pc[e] \in Active, Release(e, end)
  PROVE  SlotInv'
<1> USE DEF SlotInv, Release
<1>1. pc' = [pc EXCEPT ![e] = end]
  BY DEF Goto
<1>2. pc' \in [Events -> Places]
  BY <1>1 DEF Places
<1>3. running' = Cardinality(InFlight')
  BY GivesSlotBack
<1>4. running \in Nat /\ MaxConcurrent \in Nat
  BY InFlightFinite, GuardAssumption
<1>5. CASE queue = <<>>
  <2>1. Claimed' <= MaxConcurrent
    BY <1>4, <1>5 DEF Claimed
  <2>2. QueueInv'
    BY <1>1, <1>5 DEF QueueInv, Active
  <2>3. QED
    BY <1>2, <1>3, <1>5, <2>1, <2>2
<1>6. CASE queue # <<>>
  <2>1. woken' = Head(queue) /\ queue' = Tail(queue)
    BY <1>6
  <2>2. /\ queue' \in Seq(Events)
        /\ woken' \in Events /\ woken' = queue[1] /\ 1 \in DOMAIN queue
        /\ \A i \in DOMAIN queue' :
              i + 1 \in DOMAIN queue /\ i + 1 # 1 /\ queue'[i] = queue[i + 1]
    BY <1>6, <2>1, HeadAndTail
  <2>3. Claimed' = MaxConcurrent
    BY <1>4, <1>6, <2>2, GuardAssumption DEF Claimed
  <2>4. /\ \A i \in DOMAIN queue : pc[queue[i]] = "queued" /\ queue[i] # e
        /\ \A i, j \in DOMAIN queue : queue[i] = queue[j] => i = j
        /\ \A i \in DOMAIN queue : queue[i] \in Events
    BY DEF QueueInv, Active
  <2>5. \A i \in DOMAIN queue' : pc'[queue'[i]] = "queued" /\ queue'[i] # woken'
    BY <1>1, <2>2, <2>4
  <2>6. \A i, j \in DOMAIN queue' : queue'[i] = queue'[j] => i = j
    <3> SUFFICES ASSUME NEW i \in DOMAIN queue', NEW j \in DOMAIN queue',
                        queue'[i] = queue'[j]
                 PROVE  i = j
      OBVIOUS
    <3>1. i \in Int /\ j \in Int
      BY <2>2
    <3>2. i + 1 = j + 1
      BY <2>2, <2>4
    <3>3. QED
      BY <3>1, <3>2
  <2>7. pc'[woken'] = "queued"
    BY <1>1, <2>2, <2>4
  <2>8. QueueInv'
    BY <2>5, <2>6, <2>7 DEF QueueInv
  <2>9. QED
    BY <1>2, <1>3, <1>4, <2>2, <2>3, <2>8
<1>7. QED
  BY <1>5, <1>6

(* The steps in between keep the slot.                                     *)
LEMMA HandlerKeepsSlots ==
  ASSUME SlotInv, NEW e \in Events, pc[e] \in Active, NEW place \in Active, Goto(e, place),
         UNCHANGED <<running, queue, woken>>
  PROVE  SlotInv'
<1> USE DEF SlotInv
<1>1. pc' = [pc EXCEPT ![e] = place]
  BY DEF Goto
<1>2. pc' \in [Events -> Places] /\ InFlight' = InFlight
  BY <1>1, StaysInFlight DEF Places
<1>3. Claimed' = Claimed
  BY DEF Claimed
<1>4. QueueInv'
  BY <1>1 DEF QueueInv, Active
<1>5. QED
  BY <1>2, <1>3, <1>4

(* A restart empties counter and queue together.                           *)
LEMMA RestartKeepsSlots ==
  ASSUME SlotInv, GuardRestart
  PROVE  SlotInv'
<1> USE DEF SlotInv, GuardRestart
<1>1. pc' \in [Events -> Places]
  BY DEF Places, Ended
<1>2. InFlight' = {}
  BY DEF InFlight, Active
<1>3. running' = Cardinality(InFlight') /\ Claimed' = 0
  BY <1>2, FS_EmptySet DEF Claimed
<1>4. queue' = <<>> /\ queue' \in Seq(Events) /\ QueueInv'
  BY DEF QueueInv
<1>5. QED
  BY <1>1, <1>3, <1>4, GuardAssumption

-----------------------------------------------------------------------------
LEMMA SlotInvInit == StartInit => SlotInv
<1> SUFFICES ASSUME StartInit PROVE SlotInv
  OBVIOUS
<1> USE DEF StartInit, GuardInit
<1>1. InFlight = {}
  BY DEF InFlight, Active
<1>2. running = Cardinality(InFlight) /\ Claimed = 0
  BY <1>1, FS_EmptySet DEF Claimed
<1>3. pc \in [Events -> Places] /\ QueueInv
  BY DEF Places, QueueInv
<1>4. QED
  BY <1>2, <1>3, GuardAssumption DEF SlotInv

LEMMA SlotInvStep == SlotInv /\ [GuardNext]_<<guardVars, tableVars>> => SlotInv'
<1> SUFFICES ASSUME SlotInv, [GuardNext]_<<guardVars, tableVars>> PROVE SlotInv'
  OBVIOUS
<1>1. ASSUME NEW e \in Events, Publish(e) PROVE SlotInv'
  BY <1>1, StartAtOnceKeepsSlots, EnqueueKeepsSlots DEF Publish
<1>2. ASSUME NEW e \in Events, Assess(e) PROVE SlotInv'
  <2>1. PICK place \in {"selecting", "logging"} : Goto(e, place)
    BY <1>2 DEF Assess
  <2>2. pc[e] \in Active /\ place \in Active /\ UNCHANGED <<running, queue, woken>>
    BY <1>2 DEF Assess, At, Active
  <2>3. QED
    BY <2>1, <2>2, HandlerKeepsSlots
<1>3. ASSUME NEW e \in Events, SelectOpenCase(e) PROVE SlotInv'
  <2>1. PICK place \in {"logging", "inserting"} : Goto(e, place)
    BY <1>3 DEF SelectOpenCase
  <2>2. pc[e] \in Active /\ place \in Active /\ UNCHANGED <<running, queue, woken>>
    BY <1>3 DEF SelectOpenCase, At, Active
  <2>3. QED
    BY <2>1, <2>2, HandlerKeepsSlots
<1>4. ASSUME NEW e \in Events, InsertCase(e) \/ LogAssessment(e) PROVE SlotInv'
  <2>1. PICK place \in {"logging", "notifying"} : Goto(e, place)
    BY <1>4 DEF InsertCase, LogAssessment
  <2>2. pc[e] \in Active /\ place \in Active /\ UNCHANGED <<running, queue, woken>>
    BY <1>4 DEF InsertCase, LogAssessment, At, Active
  <2>3. QED
    BY <2>1, <2>2, HandlerKeepsSlots
<1>5. ASSUME NEW e \in Events, Finish(e) \/ Throw(e) PROVE SlotInv'
  <2>1. PICK end \in {"done", "failed"} : Release(e, end)
    BY <1>5 DEF Finish, Throw
  <2>2. end \in Ended /\ woken = NoEvent /\ pc[e] \in Active
    BY <1>5 DEF Finish, Throw, At, Active, Ended
  <2>3. QED
    BY <2>1, <2>2, ReleaseKeepsSlots
<1>6. CASE UNCHANGED <<guardVars, tableVars>>
  BY <1>6 DEF SlotInv, QueueInv, Claimed, InFlight, guardVars
<1>7. QED
  BY <1>1, <1>2, <1>3, <1>4, <1>5, <1>6, ResumeKeepsSlots, RestartKeepsSlots
  DEF GuardNext, GuardStep, Handle

(* The counter of running handlers is exact and never passes the limit,    *)
(* for any limit and any burst, with failing statements and restarts       *)
(* (order-guard.ts:32-48).                                                 *)
THEOREM SlotsAreAccounted == GuardSpec => []SlotsAccounted
<1>1. SlotInv => SlotsAccounted
  BY InFlightFinite, GuardAssumption DEF SlotInv, SlotsAccounted, Claimed
<1>2. QED
  BY <1>1, SlotInvInit, SlotInvStep, PTL DEF GuardSpec

(* No event waits while a slot is free (order-guard.ts:45-46).             *)
THEOREM NoWakeupIsLost == GuardSpec => []NoLostWakeup
<1>1. SlotInv => NoLostWakeup
  BY InFlightFinite DEF SlotInv, NoLostWakeup, Claimed
<1>2. QED
  BY <1>1, SlotInvInit, SlotInvStep, PTL DEF GuardSpec

-----------------------------------------------------------------------------
(* The composition.                                                        *)

(* The initial state satisfies the inductive invariant.                    *)
LEMMA InitIInv == Init => IInv
<1> SUFFICES ASSUME Init PROVE IInv
  OBVIOUS
<1> USE TablesAssumption, GuardAssumption, ResolutionAssumption, GateAssumption
    DEF Init, TablesInit, GuardInit, ResolutionInit, GateInit
<1>1. TypeOK
  BY DEF TypeOK, TablesTypeOK, GuardTypeOK, ResolutionTypeOK, GateTypeOK, Statuses, Places,
         Active, Ended, Decisions, LogRow
<1>2. QueueInv
  BY DEF QueueInv
<1>3. HandlerInv
  BY DEF HandlerInv
<1>4. LogInv /\ CaseInv /\ AskedInv /\ ReleasedInv
  BY DEF LogInv, CaseInv, AskedInv, ReleasedInv, ReleasedWereCleared
<1>5. QED
  BY <1>1, <1>2, <1>3, <1>4 DEF IInv

-----------------------------------------------------------------------------
(* What a component leaves alone stays right.                              *)

(* The guard leaves the reviewers' and the host's variables alone.         *)
LEMMA OthersTyped ==
  ASSUME TypeOK, UNCHANGED <<resolutionVars, gateVars>>
  PROVE  ResolutionTypeOK' /\ GateTypeOK'
BY DEF TypeOK, ResolutionTypeOK, GateTypeOK, resolutionVars, gateVars

(* Whoever leaves the guard's variables alone leaves its queue right.      *)
LEMMA GuardUntouched ==
  ASSUME IInv, UNCHANGED guardVars
  PROVE  GuardTypeOK' /\ QueueInv'
<1>1. GuardTypeOK'
  BY DEF IInv, TypeOK, GuardTypeOK, guardVars
<1>2. QueueInv'
  BY DEF IInv, QueueInv, guardVars
<1>3. QED
  BY <1>1, <1>2

(* A step that touches neither a case, nor a row of the log, nor a verdict *)
(* nor a decision leaves the parts of the invariant about them intact.     *)
LEMMA RecordsUntouched ==
  ASSUME IInv,
         UNCHANGED <<caseStatus, fraudLog, assessment, resolutionVars, gateVars>>
  PROVE  LogInv' /\ CaseInv' /\ AskedInv' /\ ReleasedInv'
<1> USE DEF IInv, resolutionVars, gateVars
<1>1. LogInv'
  BY DEF LogInv, HasCase, EventsOf
<1>2. CaseInv'
  BY DEF CaseInv
<1>3. AskedInv'
  BY DEF AskedInv, Accounted, HasCase, EventsOf
<1>4. ReleasedInv'
  BY DEF ReleasedInv, ReleasedWereCleared, Cleared, EventsOf
<1>5. QED
  BY <1>1, <1>2, <1>3, <1>4

-----------------------------------------------------------------------------
(* The semaphore's steps move handlers about and touch no record.          *)

(* An event that arrives takes a slot or joins the queue.                  *)
LEMMA PublishStep ==
  ASSUME IInv, NEW e \in Events, Publish(e), UNCHANGED <<resolutionVars, gateVars>>
  PROVE  IInv'
<1> USE DEF IInv, Publish, StartAtOnce, Enqueue, At, Goto, tableVars
<1>1. TablesTypeOK'
  BY DEF TypeOK, TablesTypeOK
<1>2. GuardTypeOK'
  <2>1. CASE StartAtOnce(e)
    BY <2>1 DEF TypeOK, GuardTypeOK, Places, Active, Ended
  <2>2. CASE Enqueue(e)
    BY <2>2 DEF TypeOK, GuardTypeOK, Places, Active, Ended
  <2>3. QED
    BY <2>1, <2>2
<1>3. QueueInv'
  <2>1. CASE StartAtOnce(e)
    BY <2>1 DEF QueueInv, TypeOK, GuardTypeOK
  <2>2. CASE Enqueue(e)
    BY <2>2, GuardAssumption DEF QueueInv, TypeOK, GuardTypeOK
  <2>3. QED
    BY <2>1, <2>2
<1>4. HandlerInv'
  BY DEF HandlerInv, TypeOK, GuardTypeOK, HasCase, EventsOf
<1>5. QED
  BY <1>1, <1>2, <1>3, <1>4, OthersTyped, RecordsUntouched DEF TypeOK

(* A woken waiter goes on.                                                 *)
LEMMA ResumeStep ==
  ASSUME IInv, Resume, UNCHANGED <<resolutionVars, gateVars>>
  PROVE  IInv'
<1> USE DEF IInv, Resume, Goto, tableVars
<1>1. TablesTypeOK'
  BY DEF TypeOK, TablesTypeOK
<1>2. GuardTypeOK'
  BY DEF TypeOK, GuardTypeOK, Places, Active, Ended
<1>3. QueueInv'
  BY GuardAssumption DEF QueueInv, TypeOK, GuardTypeOK
<1>4. HandlerInv'
  BY DEF HandlerInv, QueueInv, TypeOK, GuardTypeOK, HasCase, EventsOf
<1>5. QED
  BY <1>1, <1>2, <1>3, <1>4, OthersTyped, RecordsUntouched DEF TypeOK

(* A handler that ends, from a place where it is not waiting, hands its    *)
(* slot to the first waiter.                                               *)
LEMMA ReleaseKeepsQueue ==
  ASSUME IInv, NEW e \in Events, NEW end \in Ended,
         woken = NoEvent, pc[e] \in Active, Release(e, end)
  PROVE  GuardTypeOK' /\ QueueInv'
<1> USE DEF IInv, Release, Goto
<1>1. CASE queue = <<>>
  <2>1. GuardTypeOK'
    BY <1>1 DEF TypeOK, GuardTypeOK, Places, Active, Ended
  <2>2. QueueInv'
    BY <1>1 DEF QueueInv, TypeOK, GuardTypeOK, Active
  <2>3. QED
    BY <2>1, <2>2
<1>2. CASE queue # <<>>
  <2>1. /\ queue \in Seq(Events) /\ pc \in [Events -> Places]
        /\ woken' = Head(queue) /\ queue' = Tail(queue)
        /\ pc' = [pc EXCEPT ![e] = end]
    BY <1>2 DEF TypeOK, GuardTypeOK
  <2>2. /\ queue' \in Seq(Events)
        /\ woken' \in Events /\ woken' = queue[1] /\ 1 \in DOMAIN queue
        /\ \A i \in DOMAIN queue' :
              i + 1 \in DOMAIN queue /\ i + 1 # 1 /\ queue'[i] = queue[i + 1]
    BY <1>2, <2>1, HeadAndTail
  <2>3. /\ \A i \in DOMAIN queue : pc[queue[i]] = "queued" /\ queue[i] # e
        /\ \A i, j \in DOMAIN queue : queue[i] = queue[j] => i = j
        /\ \A i \in DOMAIN queue : queue[i] \in Events
    BY <2>1 DEF QueueInv, Active
  <2>4. GuardTypeOK'
    <3>1. pc' \in [Events -> Places]
      BY <2>1 DEF Places
    <3>2. running' \in Int /\ assessment' \in [Events -> AssessmentActions \cup {"unscored"}]
      BY DEF TypeOK, GuardTypeOK
    <3>3. QED
      BY <2>2, <3>1, <3>2 DEF GuardTypeOK
  <2>5. QueueInv'
    <3>1. \A f \in Events : f # e => pc'[f] = pc[f]
      BY <2>1
    <3>2. \A i \in DOMAIN queue' : pc'[queue'[i]] = "queued" /\ queue'[i] # woken'
      BY <2>2, <2>3, <3>1
    <3>3. \A i, j \in DOMAIN queue' : queue'[i] = queue'[j] => i = j
      <4> SUFFICES ASSUME NEW i \in DOMAIN queue', NEW j \in DOMAIN queue',
                          queue'[i] = queue'[j]
                   PROVE  i = j
        OBVIOUS
      <4>1. i \in Int /\ j \in Int
        BY <2>2
      <4>2. i + 1 = j + 1
        BY <2>2, <2>3
      <4>3. QED
        BY <4>1, <4>2
    <3>4. pc'[woken'] = "queued"
      BY <2>2, <2>3, <3>1
    <3>5. QED
      BY <3>2, <3>3, <3>4 DEF QueueInv
  <2>6. QED
    BY <2>4, <2>5
<1>3. QED
  BY <1>1, <1>2

(* A handler ends after its notifications.                                 *)
LEMMA FinishStep ==
  ASSUME IInv, NEW e \in Events, Finish(e), UNCHANGED <<resolutionVars, gateVars>>
  PROVE  IInv'
<1> USE DEF IInv, Finish, At, tableVars
<1>1. TablesTypeOK'
  BY DEF TypeOK, TablesTypeOK
<1>2. GuardTypeOK' /\ QueueInv'
  BY ReleaseKeepsQueue DEF Active, Ended
<1>3. HandlerInv'
  BY DEF HandlerInv, Release, Goto, TypeOK, GuardTypeOK, HasCase, EventsOf
<1>4. UNCHANGED assessment
  BY DEF Release
<1>5. QED
  BY <1>1, <1>2, <1>3, <1>4, OthersTyped, RecordsUntouched DEF TypeOK

(* A handler ends in a statement that throws.                              *)
LEMMA ThrowStep ==
  ASSUME IInv, NEW e \in Events, Throw(e), UNCHANGED <<resolutionVars, gateVars>>
  PROVE  IInv'
<1> USE DEF IInv, Throw, StatementFails
<1>1. TablesTypeOK'
  BY TablesAssumption DEF TypeOK, TablesTypeOK
<1>2. GuardTypeOK' /\ QueueInv'
  BY ReleaseKeepsQueue DEF Active, Ended
<1>3. HandlerInv'
  BY DEF HandlerInv, Release, Goto, TypeOK, GuardTypeOK, HasCase, EventsOf
<1>4. UNCHANGED assessment
  BY DEF Release
<1>5. QED
  BY <1>1, <1>2, <1>3, <1>4, OthersTyped, RecordsUntouched DEF TypeOK

-----------------------------------------------------------------------------
(* The handler's steps write verdicts, cases and log rows.                 *)

(* A verdict is reached once; what had been cleared stays cleared.         *)
LEMMA AssessStep ==
  ASSUME IInv, NEW e \in Events, Assess(e), UNCHANGED <<resolutionVars, gateVars>>
  PROVE  IInv'
<1> USE DEF IInv, At, Goto, tableVars
<1>1. PICK mode \in Modes, level \in Levels :
         LET action == ActionFor(mode, level) IN
         /\ assessment' = [assessment EXCEPT ![e] = action]
         /\ Goto(e, IF Holds(action) THEN "selecting" ELSE "logging")
  BY DEF Assess
<1> DEFINE action == ActionFor(mode, level)
<1>2. action \in AssessmentActions
  BY DEF ActionFor, AssessmentActions, HeldActions
<1>3. /\ assessment' = [assessment EXCEPT ![e] = action]
      /\ pc' = [pc EXCEPT ![e] = IF Holds(action) THEN "selecting" ELSE "logging"]
      /\ woken = NoEvent /\ pc[e] = "assessing" /\ assessment[e] = "unscored"
      /\ UNCHANGED <<running, queue, woken, caseStatus, fraudLog, orderState, faults, restarts>>
      /\ pc \in [Events -> Places]
      /\ assessment \in [Events -> AssessmentActions \cup {"unscored"}]
  BY <1>1 DEF Assess, HandlerInv, TypeOK, GuardTypeOK
<1> HIDE DEF action
<1>4. TablesTypeOK'
  BY <1>3 DEF TypeOK, TablesTypeOK
<1>5. GuardTypeOK'
  BY <1>2, <1>3 DEF TypeOK, GuardTypeOK, Places, Active
<1>6. QueueInv'
  BY <1>3 DEF QueueInv, TypeOK, GuardTypeOK
<1>7. \A f \in Events : assessment[f] # "unscored" => assessment'[f] = assessment[f]
  BY <1>3
<1>8. HandlerInv'
  BY <1>2, <1>3 DEF HandlerInv, HasCase, EventsOf, AssessmentActions, HeldActions
<1>9. LogInv'
  <2>1. \A row \in fraudLog : row.event \in Events /\ "unscored" \notin AssessmentActions
    BY DEF TypeOK, TablesTypeOK, LogRow, AssessmentActions, HeldActions
  <2>2. QED
    BY <1>3, <1>7, <2>1 DEF LogInv, HasCase, EventsOf
<1>10. CaseInv'
  BY <1>3 DEF CaseInv, resolutionVars
<1>11. AskedInv'
  BY <1>3, <1>7 DEF AskedInv, Accounted, HasCase, EventsOf, gateVars, AssessmentActions, HeldActions
<1>12. ReleasedInv'
  BY <1>3, <1>7 DEF ReleasedInv, ReleasedWereCleared, Cleared, EventsOf, gateVars, resolutionVars,
                    AssessmentActions, HeldActions
<1>13. QED
  BY <1>4, <1>5, <1>6, <1>8, <1>9, <1>10, <1>11, <1>12, OthersTyped DEF TypeOK

(* A handler that finds no open case goes on to the insert.                *)
LEMMA SelectOpenCaseStep ==
  ASSUME IInv, NEW e \in Events, SelectOpenCase(e), UNCHANGED <<resolutionVars, gateVars>>
  PROVE  IInv'
<1> USE DEF IInv, SelectOpenCase, At, Goto, StatementFails
<1>1. TablesTypeOK'
  BY TablesAssumption DEF TypeOK, TablesTypeOK
<1>2. GuardTypeOK'
  BY DEF TypeOK, GuardTypeOK, Places, Active
<1>3. QueueInv'
  BY DEF QueueInv, TypeOK, GuardTypeOK
<1>4. HasOpenCase(OrderOf[e]) => HasCase(OrderOf[e])
  BY DEF HasOpenCase, HasCase
<1>5. HandlerInv'
  BY <1>4 DEF HandlerInv, HasCase, EventsOf, TypeOK, GuardTypeOK
<1>6. QED
  BY <1>1, <1>2, <1>3, <1>5, OthersTyped, RecordsUntouched DEF TypeOK

(* Cases are never deleted: what has one keeps it.                         *)
LEMMA CasesStay ==
  ASSUME \A e \in Events : caseStatus[e] # "none" => caseStatus'[e] # "none"
  PROVE  \A o : HasCase(o) => HasCase(o)'
BY DEF HasCase, EventsOf

(* A new case touches no verdict and no decision.                          *)
LEMMA InsertCaseStep ==
  ASSUME IInv, NEW e \in Events, InsertCase(e), UNCHANGED <<resolutionVars, gateVars>>
  PROVE  IInv'
<1> USE DEF IInv, InsertCase, At, Goto
<1>1. TablesTypeOK'
  BY DEF TypeOK, TablesTypeOK, Statuses
<1>2. GuardTypeOK'
  BY DEF TypeOK, GuardTypeOK, Places, Active
<1>3. QueueInv'
  BY DEF QueueInv, TypeOK, GuardTypeOK
<1>4. \A o : HasCase(o) => HasCase(o)'
  <2>1. \A f \in Events : caseStatus[f] # "none" => caseStatus'[f] # "none"
    BY DEF TypeOK, TablesTypeOK
  <2>2. QED
    BY <2>1, CasesStay
<1>5. HasCase(OrderOf[e])'
  BY DEF HasCase, EventsOf, TypeOK, TablesTypeOK
<1>6. HandlerInv'
  BY <1>4, <1>5 DEF HandlerInv, TypeOK, GuardTypeOK
<1>7. LogInv'
  BY <1>4 DEF LogInv
<1>8. CaseInv'
  BY DEF CaseInv, TypeOK, TablesTypeOK, resolutionVars
<1>9. AskedInv'
  BY <1>4 DEF AskedInv, Accounted, EventsOf, gateVars
<1>10. ReleasedInv'
  BY DEF ReleasedInv, ReleasedWereCleared, Cleared, EventsOf, gateVars, resolutionVars
<1>11. QED
  BY <1>1, <1>2, <1>3, <1>6, <1>7, <1>8, <1>9, <1>10, OthersTyped DEF TypeOK

(* The new row tells the handler's verdict and comes after the case.       *)
LEMMA LogAssessmentStep ==
  ASSUME IInv, NEW e \in Events, LogAssessment(e), UNCHANGED <<resolutionVars, gateVars>>
  PROVE  IInv'
<1> USE DEF IInv, LogAssessment, At, Goto, InsertLog
<1> DEFINE new == [event |-> e, action |-> assessment[e]]
<1>1. assessment[e] \in AssessmentActions
  BY DEF HandlerInv, TypeOK, GuardTypeOK
<1>2. TablesTypeOK'
  BY <1>1 DEF TypeOK, TablesTypeOK, LogRow
<1>3. GuardTypeOK'
  BY DEF TypeOK, GuardTypeOK, Places, Active
<1>4. QueueInv'
  BY DEF QueueInv, TypeOK, GuardTypeOK
<1>5. HandlerInv'
  BY DEF HandlerInv, HasCase, EventsOf, TypeOK, GuardTypeOK
<1>6. LogInv'
  <2>1. new.event = e /\ new.action = assessment[e] /\ fraudLog' = fraudLog \cup {new}
    OBVIOUS
  <2>2. new.action \in HeldActions \cup Decisions => HasCase(OrderOf[e])
    BY <1>1, <2>1 DEF HandlerInv, Holds, HeldActions, Decisions, AssessmentActions
  <2> HIDE DEF new
  <2>3. QED
    BY <2>1, <2>2 DEF LogInv, HasCase, EventsOf
<1>7. CaseInv'
  BY DEF CaseInv, resolutionVars
<1>8. AskedInv' /\ ReleasedInv'
  BY DEF AskedInv, Accounted, HasCase, EventsOf, gateVars, ReleasedInv, ReleasedWereCleared, Cleared,
         resolutionVars
<1>9. QED
  BY <1>2, <1>3, <1>4, <1>5, <1>6, <1>7, <1>8, OthersTyped DEF TypeOK

(* Restarts lose handlers and calls in flight, and no record.              *)
LEMMA ServerRestartStep ==
  ASSUME IInv, ServerRestart
  PROVE  IInv'
<1> USE DEF IInv, ServerRestart, GuardRestart, Restart, Forget, gateVars
<1>1. TablesTypeOK'
  BY TablesAssumption DEF TypeOK, TablesTypeOK
<1>2. GuardTypeOK'
  BY DEF TypeOK, GuardTypeOK, Places, Active, Ended
<1>3. ResolutionTypeOK' /\ GateTypeOK'
  BY DEF TypeOK, ResolutionTypeOK, GateTypeOK, Resolvers, Decisions
<1>4. QueueInv'
  BY DEF QueueInv
<1>5. HandlerInv'
  BY DEF HandlerInv, HasCase, EventsOf, Active
<1>6. LogInv'
  BY DEF LogInv, HasCase, EventsOf
<1>7. CaseInv'
  BY DEF CaseInv, TypeOK, ResolutionTypeOK
<1>8. AskedInv' /\ ReleasedInv'
  BY DEF AskedInv, Accounted, HasCase, EventsOf, ReleasedInv, ReleasedWereCleared, Cleared
<1>9. QED
  BY <1>1, <1>2, <1>3, <1>4, <1>5, <1>6, <1>7, <1>8 DEF TypeOK

(* Every step of the guard keeps the invariant.                            *)
LEMMA GuardInvStep ==
  ASSUME IInv, GuardStep, UNCHANGED <<resolutionVars, gateVars>>
  PROVE  IInv'
BY PublishStep, ResumeStep, FinishStep, ThrowStep, AssessStep, SelectOpenCaseStep,
   InsertCaseStep, LogAssessmentStep DEF GuardStep, Handle

(* What the invariant says of each row holds of those that are left.       *)
LEMMA PruneLogStep ==
  ASSUME IInv, PruneLog, UNCHANGED <<guardVars, resolutionVars, gateVars>>
  PROVE  IInv'
<1> USE DEF IInv, PruneLog
<1>1. fraudLog' \subseteq fraudLog
  OBVIOUS
<1>2. TablesTypeOK'
  BY <1>1 DEF TypeOK, TablesTypeOK
<1>3. HandlerInv' /\ LogInv'
  BY <1>1 DEF HandlerInv, LogInv, HasCase, EventsOf, guardVars
<1>4. CaseInv'
  BY DEF CaseInv, resolutionVars
<1>5. AskedInv' /\ ReleasedInv'
  BY DEF AskedInv, Accounted, HasCase, EventsOf, ReleasedInv, ReleasedWereCleared, Cleared, guardVars,
         resolutionVars, gateVars
<1>6. QED
  BY <1>2, <1>3, <1>4, <1>5, GuardUntouched, OthersTyped DEF TypeOK

-----------------------------------------------------------------------------
(* The reviewers and the cron.                                             *)

(* A step of a resolver that leaves cases, log and decisions alone.        *)
LEMMA QuietResolution ==
  ASSUME IInv, UNCHANGED <<caseStatus, fraudLog, decided, guardVars, gateVars>>,
         TablesTypeOK', ResolutionTypeOK', CaseInv'
  PROVE  IInv'
<1> USE DEF IInv, guardVars, gateVars
<1>1. GateTypeOK'
  BY DEF TypeOK, GateTypeOK
<1>2. HandlerInv' /\ LogInv'
  BY DEF HandlerInv, LogInv, HasCase, EventsOf
<1>3. AskedInv' /\ ReleasedInv'
  BY DEF AskedInv, Accounted, HasCase, EventsOf, ReleasedInv, ReleasedWereCleared, Cleared
<1>4. QED
  BY <1>1, <1>2, <1>3, GuardUntouched DEF TypeOK

(* A resolver reads a pending case.                                        *)
LEMMA SelectCaseStep ==
  ASSUME IInv, NEW r \in Resolvers, NEW e \in Events, NEW d \in Decisions,
         SelectCase(r, e, d), UNCHANGED <<guardVars, gateVars>>
  PROVE  IInv'
<1> USE DEF IInv, SelectCase, Become, tableVars
<1>1. TablesTypeOK'
  BY DEF TypeOK, TablesTypeOK
<1>2. ResolutionTypeOK'
  BY DEF TypeOK, ResolutionTypeOK
<1>3. CaseInv'
  BY DEF CaseInv, TypeOK, ResolutionTypeOK
<1>4. QED
  BY <1>1, <1>2, <1>3, QuietResolution

(* The auto-release lists stale cases and takes them one by one.           *)
LEMMA CronStep ==
  ASSUME IInv, NEW c \in Crons, Cron(c), UNCHANGED <<guardVars, gateVars>>
  PROVE  IInv'
<1>1. CASE ListStale(c)
  <2>1. TablesTypeOK'
    BY <1>1 DEF IInv, ListStale, tableVars, TypeOK, TablesTypeOK
  <2>2. ResolutionTypeOK'
    BY <1>1 DEF IInv, ListStale, PendingCases, TypeOK, ResolutionTypeOK
  <2>3. CaseInv'
    BY <1>1 DEF IInv, ListStale, tableVars, CaseInv
  <2>4. QED
    BY <1>1, <2>1, <2>2, <2>3, QuietResolution DEF ListStale, tableVars
<1>2. ASSUME NEW e \in Events, ReleaseStale(c, e)
      PROVE  IInv'
  BY <1>2, SelectCaseStep DEF ReleaseStale, Resolvers, Decisions
<1>3. ASSUME NEW e \in Events, SkipClosed(c, e)
      PROVE  IInv'
  <2>1. TablesTypeOK'
    BY <1>3 DEF IInv, SkipClosed, tableVars, TypeOK, TablesTypeOK
  <2>2. ResolutionTypeOK'
    BY <1>3 DEF IInv, SkipClosed, TypeOK, ResolutionTypeOK
  <2>3. CaseInv'
    BY <1>3 DEF IInv, SkipClosed, tableVars, CaseInv
  <2>4. QED
    BY <1>3, <2>1, <2>2, <2>3, QuietResolution DEF SkipClosed, tableVars
<1>4. QED
  BY <1>1, <1>2, <1>3 DEF Cron

(* The update closes a case that exists; the history records it.           *)
LEMMA UpdateCaseStep ==
  ASSUME IInv, NEW r \in Resolvers, UpdateCase(r), UNCHANGED <<guardVars, gateVars>>
  PROVE  IInv'
<1> USE DEF IInv, UpdateCase, Become
<1>1. target[r] \in Events /\ decision[r] \in Decisions /\ "none" \notin Decisions
  BY DEF CaseInv, TypeOK, ResolutionTypeOK, Decisions
<1>2. TablesTypeOK'
  BY <1>1 DEF TypeOK, TablesTypeOK, Statuses
<1>3. ResolutionTypeOK'
  <2>1. step' \in [Resolvers -> {"idle", "updating", "cancelling", "auditing"}]
    BY DEF TypeOK, ResolutionTypeOK
  <2>2. <<target[r], decision[r]>> \in Events \X Decisions
    BY <1>1
  <2>3. decided' \subseteq Events \X Decisions
    BY <2>2 DEF TypeOK, ResolutionTypeOK
  <2>4. QED
    BY <2>1, <2>3 DEF TypeOK, ResolutionTypeOK
<1>4. GateTypeOK'
  BY DEF TypeOK, GateTypeOK, gateVars
<1>5. \A f \in Events : caseStatus[f] # "none" => caseStatus'[f] # "none"
  BY <1>1 DEF TypeOK, TablesTypeOK
<1>6. \A o : HasCase(o) => HasCase(o)'
  BY <1>5, CasesStay
<1>7. HandlerInv' /\ LogInv'
  BY <1>6 DEF HandlerInv, LogInv, guardVars
<1>8. CaseInv'
  <2>1. \A f \in Events : caseStatus'[f] = "approved" => <<f, "approved">> \in decided'
    BY <1>1 DEF CaseInv, TypeOK, TablesTypeOK
  <2>2. ASSUME NEW s \in Resolvers, step'[s] # "idle"
        PROVE  target'[s] \in Events /\ caseStatus'[target'[s]] # "none"
    <3>1. step[s] # "idle"
      BY <2>2 DEF TypeOK, ResolutionTypeOK
    <3>2. QED
      BY <1>5, <3>1 DEF CaseInv
  <2>3. QED
    BY <2>1, <2>2 DEF CaseInv
<1>9. AskedInv' /\ ReleasedInv'
  BY <1>6 DEF AskedInv, Accounted, EventsOf, ReleasedInv, ReleasedWereCleared, Cleared, guardVars, gateVars
<1>10. QED
  BY <1>2, <1>3, <1>4, <1>7, <1>8, <1>9, GuardUntouched DEF TypeOK

(* Cancelling an order through Vendure touches no row of the plugin.       *)
LEMMA CancelRejectedOrderStep ==
  ASSUME IInv, NEW r \in Resolvers, CancelRejectedOrder(r), UNCHANGED <<guardVars, gateVars>>
  PROVE  IInv'
<1> USE DEF IInv, CancelRejectedOrder, Become
<1>1. TablesTypeOK'
  BY DEF TypeOK, TablesTypeOK
<1>2. ResolutionTypeOK'
  BY DEF TypeOK, ResolutionTypeOK
<1>3. CaseInv'
  BY DEF CaseInv, TypeOK, ResolutionTypeOK
<1>4. QED
  BY <1>1, <1>2, <1>3, QuietResolution

(* The decision's row names a case that exists.                            *)
LEMMA LogDecisionStep ==
  ASSUME IInv, NEW r \in Resolvers, LogDecision(r), UNCHANGED <<guardVars, gateVars>>
  PROVE  IInv'
<1> USE DEF IInv, LogDecision, Become, Return, InsertLog
<1> DEFINE new == [event |-> target[r], action |-> decision[r]]
<1>1. target[r] \in Events /\ decision[r] \in Decisions /\ HasCase(OrderOf[target[r]])
  BY DEF CaseInv, TypeOK, ResolutionTypeOK, HasCase, EventsOf
<1>2. TablesTypeOK'
  BY <1>1 DEF TypeOK, TablesTypeOK, LogRow
<1>3. ResolutionTypeOK'
  BY DEF TypeOK, ResolutionTypeOK, Decisions
<1>4. GateTypeOK'
  BY DEF TypeOK, GateTypeOK, gateVars
<1>5. HandlerInv'
  BY DEF HandlerInv, HasCase, EventsOf, guardVars
<1>6. LogInv'
  <2>1. new.event = target[r] /\ new.action = decision[r] /\ fraudLog' = fraudLog \cup {new}
    OBVIOUS
  <2>2. decision[r] \notin AssessmentActions
    BY <1>1 DEF AssessmentActions, HeldActions, Decisions
  <2> HIDE DEF new
  <2>3. QED
    BY <1>1, <2>1, <2>2 DEF LogInv, HasCase, EventsOf, guardVars
<1>7. CaseInv'
  BY DEF CaseInv, TypeOK, ResolutionTypeOK
<1>8. AskedInv' /\ ReleasedInv'
  BY ZenonT(60) DEF AskedInv, Accounted, HasCase, EventsOf, ReleasedInv, ReleasedWereCleared, Cleared, guardVars, gateVars
<1>9. QED
  BY <1>2, <1>3, <1>4, <1>5, <1>6, <1>7, <1>8, GuardUntouched DEF TypeOK

(* A resolver's statement throws.                                          *)
LEMMA FailStep ==
  ASSUME IInv, NEW r \in Resolvers, Fail(r), UNCHANGED <<guardVars, gateVars>>
  PROVE  IInv'
<1> USE DEF IInv, Fail, Become, Return, StatementFails
<1>1. TablesTypeOK'
  BY TablesAssumption DEF TypeOK, TablesTypeOK
<1>2. ResolutionTypeOK'
  BY DEF TypeOK, ResolutionTypeOK, Decisions
<1>3. CaseInv'
  BY DEF CaseInv, TypeOK, ResolutionTypeOK
<1>4. QED
  BY <1>1, <1>2, <1>3, QuietResolution

(* The worker goes down in the middle of its crons.                        *)
LEMMA WorkerRestartStep ==
  ASSUME IInv, NEW c \in Crons, WorkerRestart(c), UNCHANGED <<guardVars, gateVars>>
  PROVE  IInv'
<1> USE DEF IInv, WorkerRestart, Restart, Forget
<1>1. TablesTypeOK'
  BY TablesAssumption DEF TypeOK, TablesTypeOK
<1>2. ResolutionTypeOK'
  BY DEF TypeOK, ResolutionTypeOK, Decisions
<1>3. CaseInv'
  BY DEF CaseInv, TypeOK, ResolutionTypeOK
<1>4. QED
  BY <1>1, <1>2, <1>3, QuietResolution

(* Every step of the resolution keeps the invariant.                       *)
LEMMA ResolutionInvStep ==
  ASSUME IInv, ResolutionStep, UNCHANGED <<guardVars, gateVars>>
  PROVE  IInv'
<1>1. ASSUME NEW r \in Admins, NEW e \in Events, Review(r, e)
      PROVE  IInv'
  BY <1>1, SelectCaseStep DEF Review, Resolvers
<1>2. QED
  BY <1>1, CronStep, WorkerRestartStep, UpdateCaseStep, CancelRejectedOrderStep,
     LogDecisionStep, FailStep DEF ResolutionStep, Proceed

-----------------------------------------------------------------------------
(* The fulfilment path changes no row the other components read.           *)
LEMMA GateFrame ==
  ASSUME IInv, NEW o \in Orders,
         AskFirst(o) \/ AskSecondAndRelease(o) \/ AskSecondAndSkip(o),
         UNCHANGED <<guardVars, resolutionVars>>
  PROVE  TypeOK' /\ QueueInv' /\ HandlerInv' /\ LogInv' /\ CaseInv'
<1> USE DEF IInv, AskFirst, AskSecondAndRelease, AskSecondAndSkip, tableVars, resolutionVars
<1>1. TablesTypeOK' /\ ResolutionTypeOK'
  BY DEF TypeOK, TablesTypeOK, ResolutionTypeOK
<1>2. GateTypeOK'
  BY DEF TypeOK, GateTypeOK
<1>3. HandlerInv'
  BY DEF HandlerInv, HasCase, EventsOf, guardVars
<1>4. LogInv'
  BY DEF LogInv, HasCase, EventsOf, guardVars
<1>5. CaseInv'
  BY DEF CaseInv
<1>6. QED
  BY <1>1, <1>2, <1>3, <1>4, <1>5, GuardUntouched DEF TypeOK

(* The question "assessed?": a row of the log is a verdict that let the    *)
(* order through, or comes with a case.                                    *)
LEMMA AssessedIsAccounted ==
  ASSUME IInv, NEW o \in Orders, IsAssessed(o)
  PROVE  Accounted(o)
<1>1. PICK row \in fraudLog : OrderOf[row.event] = o
  BY DEF IsAssessed
<1>2. row.event \in EventsOf(o) /\ row.action \in AssessmentActions \cup Decisions
  BY <1>1 DEF IInv, TypeOK, TablesTypeOK, LogRow, EventsOf
<1>3. CASE row.action \in HeldActions \cup Decisions
  BY <1>1, <1>3 DEF IInv, LogInv, Accounted
<1>4. CASE row.action \in AssessmentActions \ HeldActions
  BY <1>2, <1>4 DEF IInv, LogInv, Accounted
<1>5. QED
  BY <1>2, <1>3, <1>4

(* The question "held?" after it: what no pending or rejected case holds   *)
(* was let through by a verdict or by an approval.                         *)
LEMMA NotHeldIsCleared ==
  ASSUME IInv, NEW o \in Orders, Accounted(o), o \notin HeldOrderIds
  PROVE  o \in Cleared
<1>1. CASE HasCase(o)
  <2>1. PICK e \in EventsOf(o) : caseStatus[e] # "none"
    BY <1>1 DEF HasCase
  <2>2. e \in Events /\ caseStatus[e] = "approved"
    BY <2>1 DEF IInv, TypeOK, TablesTypeOK, Statuses, Decisions, HeldOrderIds, EventsOf
  <2>3. QED
    BY <2>1, <2>2 DEF IInv, CaseInv, Cleared
<1>2. CASE \E e \in EventsOf(o) : assessment[e] \in AssessmentActions \ HeldActions
  BY <1>2 DEF Cleared
<1>3. QED
  BY <1>1, <1>2 DEF Accounted

(* The fulfilment path keeps its own two parts of the invariant.           *)
LEMMA GateInvStep ==
  ASSUME IInv, GateStep, UNCHANGED <<guardVars, resolutionVars>>
  PROVE  IInv'
<1>1. PICK o \in Orders : AskFirst(o) \/ AskSecondAndRelease(o) \/ AskSecondAndSkip(o)
  BY DEF GateStep
<1>2. /\ \A p \in Orders : Accounted(p) => Accounted(p)'
      /\ Cleared' = Cleared
  BY <1>1 DEF AskFirst, AskSecondAndRelease, AskSecondAndSkip, Accounted, HasCase, EventsOf,
              Cleared, tableVars, guardVars, resolutionVars
<1>3. AskedInv'
  <2>1. SUFFICES ASSUME SafeGate
                 PROVE  \A p \in asked' : Accounted(p)'
    BY DEF AskedInv, SafeGate
  <2>2. asked \subseteq Orders /\ \A p \in asked : Accounted(p)
    BY <2>1 DEF IInv, AskedInv, TypeOK, GateTypeOK
  <2>3. CASE AskFirst(o)
    <3>1. Accounted(o) /\ asked' = asked \cup {o}
      BY <2>1, <2>3, AssessedIsAccounted DEF AskFirst, SafeGate
    <3>2. QED
      BY <1>2, <2>2, <3>1
  <2>4. CASE AskSecondAndRelease(o) \/ AskSecondAndSkip(o)
    BY <1>2, <2>2, <2>4 DEF AskSecondAndRelease, AskSecondAndSkip
  <2>5. QED
    BY <1>1, <2>3, <2>4
<1>4. ReleasedInv'
  <2>1. SUFFICES ASSUME SafeGate
                 PROVE  released' \subseteq Cleared
    BY <1>2 DEF ReleasedInv, ReleasedWereCleared, SafeGate
  <2>2. released \subseteq Cleared
    BY <2>1 DEF IInv, ReleasedInv, ReleasedWereCleared
  <2>3. CASE AskSecondAndRelease(o)
    <3>1. Accounted(o) /\ o \notin HeldOrderIds
      BY <2>1, <2>3 DEF IInv, AskedInv, AskSecondAndRelease, NotHeld, HeldAnswers, SafeGate
    <3>2. released' = released \cup {o} /\ o \in Cleared
      BY <2>3, <3>1, NotHeldIsCleared DEF AskSecondAndRelease
    <3>3. QED
      BY <2>2, <3>2
  <2>4. CASE AskFirst(o) \/ AskSecondAndSkip(o)
    BY <2>2, <2>4 DEF AskFirst, AskSecondAndSkip
  <2>5. QED
    BY <1>1, <2>3, <2>4
<1>5. QED
  BY <1>1, <1>3, <1>4, GateFrame DEF IInv

-----------------------------------------------------------------------------
(* A step that changes nothing.                                            *)
LEMMA StutterStep ==
  ASSUME IInv, UNCHANGED vars
  PROVE  IInv'
<1> USE DEF IInv, vars, tableVars, resolutionVars, gateVars
<1>1. TypeOK' /\ QueueInv'
  BY GuardUntouched DEF TypeOK, TablesTypeOK, ResolutionTypeOK, GateTypeOK
<1>2. HandlerInv'
  BY DEF HandlerInv, HasCase, EventsOf, guardVars
<1>3. LogInv' /\ CaseInv' /\ AskedInv' /\ ReleasedInv'
  BY RecordsUntouched DEF guardVars
<1>4. QED
  BY <1>1, <1>2, <1>3

(* Every step of the system keeps the invariant.                           *)
LEMMA NextIInv == IInv /\ [Next]_vars => IInv'
<1> SUFFICES ASSUME IInv, [Next]_vars
             PROVE  IInv'
  OBVIOUS
<1>1. CASE GuardStep /\ UNCHANGED <<resolutionVars, gateVars>>
  BY <1>1, GuardInvStep
<1>2. CASE ResolutionStep /\ UNCHANGED <<guardVars, gateVars>>
  BY <1>2, ResolutionInvStep
<1>3. CASE GateStep /\ UNCHANGED <<guardVars, resolutionVars>>
  BY <1>3, GateInvStep
<1>4. CASE PruneLog /\ UNCHANGED <<guardVars, resolutionVars, gateVars>>
  BY <1>4, PruneLogStep
<1>5. CASE ServerRestart
  BY <1>5, ServerRestartStep
<1>6. CASE UNCHANGED vars
  BY <1>6, StutterStep
<1>7. QED
  BY <1>1, <1>2, <1>3, <1>4, <1>5, <1>6 DEF Next

(* The inductive invariant holds in every reachable state.                 *)
THEOREM Invariance == Spec => []IInv
BY InitIInv, NextIInv, PTL DEF Spec

(* The state keeps its type: no handler, request or cron, cut short or     *)
(* not, leaves the tables or its own memory in a shape the code does not   *)
(* expect (no verdict is logged before it is reached, no decision is       *)
(* written for no case).                                                   *)
THEOREM TypeCorrect == Spec => []TypeOK
<1>1. IInv => TypeOK
  BY DEF IInv
<1>2. QED
  BY <1>1, Invariance, PTL

(* The order of the guard's two inserts: whoever reads in the log that an  *)
(* order was assessed and held finds its case (order-guard.ts:79-87).      *)
THEOREM CaseComesFirst == Spec => []CaseBeforeLog
<1>1. IInv => CaseBeforeLog
  BY DEF IInv, LogInv, CaseBeforeLog, Holds
<1>2. QED
  BY <1>1, Invariance, PTL

(* The fulfilment guarantee.  With "assessed?" asked before "held?" and a  *)
(* query of held orders that answers, no interleaving of handlers,         *)
(* reviewers and crons, no failing statement, restart or pruned log lets   *)
(* an order be fulfilled that nothing has cleared.                         *)
THEOREM OnlyClearedReleased ==
  ASSUME FirstQuestion = "assessed", HeldQueryMayFail = FALSE
  PROVE  Spec => []ReleasedWereCleared
<1>1. IInv => ReleasedWereCleared
  BY DEF IInv, ReleasedInv, SafeGate
<1>2. QED
  BY <1>1, Invariance, PTL

-----------------------------------------------------------------------------
(* Decisions on review cases: the audit trail, for any number of           *)
(* administrators and crons; and, for decisions taken one after the other, *)
(* their finality and the promise of HoldPolicy.                           *)

LEMMA InitDecisionInv == Init => DecisionInv
<1> SUFFICES ASSUME Init PROVE DecisionInv
  OBVIOUS
<1> USE DEF Init, TablesInit, GuardInit, ResolutionInit
<1>1. FreshInv
  BY DEF FreshInv
<1>2. TrailInv
  BY DEF TrailInv, AuditTrail, Closing
<1>3. TurnsInv
  BY DEF TurnsInv
<1>4. QED
  BY <1>1, <1>2, <1>3 DEF DecisionInv

-----------------------------------------------------------------------------
(* Most steps decide nothing.                                              *)

\* The call of r keeps the case it works on and what it was told to decide.
SameCall(r) == target'[r] = target[r] /\ decision'[r] = decision[r]

\* No decision is written; cases are opened by handlers only; a call comes to
\* update a case by reading it while it is pending, and leaves the way to the
\* log by having logged, unless something is cut short.
Undecided ==
    /\ decided' = decided
    /\ \A e \in Events :
          \/ caseStatus'[e] = caseStatus[e] /\ (pc'[e] \in Early => pc[e] \in Early)
          \/ caseStatus[e] = "none" /\ caseStatus'[e] = "pending" /\ pc'[e] \notin Early
    /\ \A row \in fraudLog' :
          row \in fraudLog \/ row.action \in AssessmentActions \/ <<row.event, row.action>> \in decided
    /\ \A r \in Resolvers :
          /\ step'[r] \in Closing => step[r] \in Closing /\ SameCall(r)
          /\ step'[r] = "updating" =>
                \/ step[r] = "updating" /\ SameCall(r)
                \/ target'[r] \in Events /\ caseStatus'[target'[r]] = "pending"
    /\ Undisturbed' =>
          /\ Undisturbed
          /\ fraudLog \subseteq fraudLog'
          /\ \A r \in Resolvers : step[r] \in Closing =>
                \/ step'[r] \in Closing /\ SameCall(r)
                \/ [event |-> target[r], action |-> decision[r]] \in fraudLog'

LEMMA UndecidedKeeps ==
  ASSUME IInv, DecisionInv, Undecided
  PROVE  DecisionInv'
<1> USE DEF DecisionInv
<1>1. FreshInv'
  BY DEF FreshInv, Undecided
<1>2. TrailInv'
  <2>1. \A r \in Resolvers : step'[r] \in Closing => <<target'[r], decision'[r]>> \in decided'
    BY DEF TrailInv, Undecided, SameCall
  <2>2. \A row \in fraudLog' : row.action \in Decisions => <<row.event, row.action>> \in decided'
    BY DEF TrailInv, AuditTrail, Undecided, AssessmentActions, HeldActions, Decisions
  <2>3. ASSUME Undisturbed', NEW d \in decided'
        PROVE  \/ [event |-> d[1], action |-> d[2]] \in fraudLog'
               \/ \E r \in Resolvers : /\ step'[r] \in {"cancelling", "auditing"}
                                       /\ <<target'[r], decision'[r]>> = d
    <3>1. Undisturbed /\ d \in decided /\ fraudLog \subseteq fraudLog'
      BY <2>3 DEF Undecided
    <3>2. CASE [event |-> d[1], action |-> d[2]] \in fraudLog
      BY <3>1, <3>2
    <3>3. ASSUME NEW r \in Resolvers, step[r] \in Closing, <<target[r], decision[r]>> = d
          PROVE  \/ [event |-> d[1], action |-> d[2]] \in fraudLog'
                 \/ \E q \in Resolvers : /\ step'[q] \in {"cancelling", "auditing"}
                                         /\ <<target'[q], decision'[q]>> = d
      <4>1. CASE step'[r] \in Closing /\ SameCall(r)
        BY <3>3, <4>1 DEF SameCall, Closing
      <4>2. CASE [event |-> target[r], action |-> decision[r]] \in fraudLog'
        <5>1. d[1] = target[r] /\ d[2] = decision[r]
          BY <3>3
        <5>2. QED
          BY <4>2, <5>1
      <4>3. QED
        BY <2>3, <3>3, <4>1, <4>2 DEF Undecided
    <3>4. QED
      BY <3>1, <3>2, <3>3 DEF TrailInv, AuditTrail, Closing
  <2>4. AuditTrail'
    BY <2>2, <2>3 DEF AuditTrail
  <2>5. QED
    BY <2>1, <2>4 DEF TrailInv
<1>3. TurnsInv'
  <2> SUFFICES ASSUME OneAtATime
               PROVE  /\ \A r \in Resolvers : step'[r] = "updating" => caseStatus'[target'[r]] = "pending"
                      /\ \A d \in decided' : caseStatus'[d[1]] = d[2]
    BY DEF TurnsInv, OneAtATime
  <2>1. ASSUME NEW r \in Resolvers, step'[r] = "updating"
        PROVE  caseStatus'[target'[r]] = "pending"
    <3>1. CASE step[r] = "updating" /\ SameCall(r)
      <4>1. caseStatus[target[r]] = "pending" /\ target[r] \in Events
        BY <3>1 DEF TurnsInv, IInv, CaseInv
      <4>2. QED
        BY <3>1, <4>1 DEF Undecided, SameCall
    <3>2. QED
      BY <2>1, <3>1 DEF Undecided
  <2>2. ASSUME NEW d \in decided'
        PROVE  caseStatus'[d[1]] = d[2]
    <3>1. d \in decided /\ caseStatus[d[1]] = d[2]
      BY DEF TurnsInv, Undecided
    <3>2. d[1] \in Events /\ d[2] \in Decisions
      BY <3>1 DEF IInv, TypeOK, ResolutionTypeOK
    <3>3. QED
      BY <3>1, <3>2 DEF Undecided, Decisions
  <2>3. QED
    BY <2>1, <2>2
<1>4. QED
  BY <1>1, <1>2, <1>3

-----------------------------------------------------------------------------
(* The guard decides nothing.                                              *)

LEMMA CallsUntouched ==
  ASSUME UNCHANGED resolutionVars,
         \A e \in Events :
            \/ caseStatus'[e] = caseStatus[e] /\ (pc'[e] \in Early => pc[e] \in Early)
            \/ caseStatus[e] = "none" /\ caseStatus'[e] = "pending" /\ pc'[e] \notin Early,
         fraudLog \subseteq fraudLog',
         \A row \in fraudLog' : row \in fraudLog \/ row.action \in AssessmentActions,
         Undisturbed' => Undisturbed
  PROVE  Undecided
BY DEF Undecided, SameCall, resolutionVars

\* A handler that moves on to a later place and opens no case.
LEMMA PlacesUndecided ==
  ASSUME UNCHANGED <<resolutionVars, caseStatus, fraudLog>>,
         \A e \in Events : pc'[e] \in Early => pc[e] \in Early,
         Undisturbed' => Undisturbed
  PROVE  Undecided
BY CallsUntouched

\* What fails or restarts disturbs.
LEMMA FaultsDisturb ==
  ASSUME IInv, StatementFails \/ Restart
  PROVE  ~Undisturbed'
BY TablesAssumption DEF IInv, TypeOK, TablesTypeOK, StatementFails, Restart, Undisturbed

LEMMA GuardUndecided ==
  ASSUME IInv, DecisionInv, GuardStep, UNCHANGED <<resolutionVars, gateVars>>
  PROVE  Undecided
<1>1. pc \in [Events -> Places] /\ QueueInv /\ woken \in Events \cup {NoEvent}
  BY DEF IInv, TypeOK, GuardTypeOK
<1>2. ASSUME NEW e \in Events, Publish(e)
      PROVE  Undecided
  <2>1. UNCHANGED <<resolutionVars, caseStatus, fraudLog, faults, restarts>>
    BY <1>2 DEF Publish, StartAtOnce, Enqueue, tableVars
  <2>2. \A f \in Events : pc'[f] \in Early => pc[f] \in Early
    BY <1>1, <1>2 DEF Publish, StartAtOnce, Enqueue, At, Goto, Early
  <2>3. QED
    BY <2>1, <2>2, PlacesUndecided DEF Undisturbed
<1>3. CASE Resume
  <2>1. UNCHANGED <<resolutionVars, caseStatus, fraudLog, faults, restarts>>
    BY <1>3 DEF Resume, tableVars
  <2>2. \A f \in Events : pc'[f] \in Early => pc[f] \in Early
    BY <1>1, <1>3 DEF Resume, QueueInv, Goto, Early
  <2>3. QED
    BY <2>1, <2>2, PlacesUndecided DEF Undisturbed
<1>4. ASSUME NEW e \in Events, Assess(e)
      PROVE  Undecided
  <2>1. UNCHANGED <<resolutionVars, caseStatus, fraudLog, faults, restarts>>
    BY <1>4 DEF Assess, tableVars
  <2>2. \A f \in Events : pc'[f] \in Early => pc[f] \in Early
    BY <1>1, <1>4 DEF Assess, At, Goto, Early
  <2>3. QED
    BY <2>1, <2>2, PlacesUndecided DEF Undisturbed
<1>5. ASSUME NEW e \in Events, SelectOpenCase(e)
      PROVE  Undecided
  <2>1. UNCHANGED <<resolutionVars, caseStatus, fraudLog, restarts>>
    BY <1>5 DEF SelectOpenCase
  <2>2. \A f \in Events : pc'[f] \in Early => pc[f] \in Early
    BY <1>1, <1>5 DEF SelectOpenCase, At, Goto, Early
  <2>3. Undisturbed' => Undisturbed
    BY <1>5, FaultsDisturb DEF SelectOpenCase, Undisturbed
  <2>4. QED
    BY <2>1, <2>2, <2>3, PlacesUndecided
<1>6. ASSUME NEW e \in Events, InsertCase(e)
      PROVE  Undecided
  <2>1. UNCHANGED <<resolutionVars, fraudLog, faults, restarts>>
    BY <1>6 DEF InsertCase
  <2>2. /\ pc[e] = "inserting" /\ pc' = [pc EXCEPT ![e] = "logging"]
        /\ caseStatus' = [caseStatus EXCEPT ![e] = "pending"]
        /\ caseStatus \in [Events -> Statuses]
    BY <1>6 DEF InsertCase, At, Goto, IInv, TypeOK, TablesTypeOK
  <2>3. caseStatus[e] = "none"
    BY <2>2 DEF DecisionInv, FreshInv, Early
  <2>4. \A f \in Events :
           \/ caseStatus'[f] = caseStatus[f] /\ (pc'[f] \in Early => pc[f] \in Early)
           \/ caseStatus[f] = "none" /\ caseStatus'[f] = "pending" /\ pc'[f] \notin Early
    BY <1>1, <2>2, <2>3 DEF Early
  <2>5. QED
    BY <2>1, <2>4, CallsUntouched DEF Undisturbed
<1>7. ASSUME NEW e \in Events, LogAssessment(e)
      PROVE  Undecided
  <2>1. UNCHANGED <<resolutionVars, caseStatus, faults, restarts>>
    BY <1>7 DEF LogAssessment
  <2>2. \A f \in Events : pc'[f] \in Early => pc[f] \in Early
    BY <1>1, <1>7 DEF LogAssessment, At, Goto, Early
  <2>3. assessment[e] \in AssessmentActions
    BY <1>7 DEF LogAssessment, At, IInv, HandlerInv, TypeOK, GuardTypeOK
  <2>4. /\ fraudLog \subseteq fraudLog'
        /\ \A row \in fraudLog' : row \in fraudLog \/ row.action \in AssessmentActions
    BY <1>7, <2>3 DEF LogAssessment, InsertLog
  <2>5. QED
    BY <2>1, <2>2, <2>4, CallsUntouched DEF Undisturbed
<1>8. ASSUME NEW e \in Events, Finish(e)
      PROVE  Undecided
  <2>1. UNCHANGED <<resolutionVars, caseStatus, fraudLog, faults, restarts>>
    BY <1>8 DEF Finish, tableVars
  <2>2. \A f \in Events : pc'[f] \in Early => pc[f] \in Early
    BY <1>1, <1>8 DEF Finish, Release, Goto, Early
  <2>3. QED
    BY <2>1, <2>2, PlacesUndecided DEF Undisturbed
<1>9. ASSUME NEW e \in Events, Throw(e)
      PROVE  Undecided
  <2>1. UNCHANGED <<resolutionVars, caseStatus, fraudLog>>
    BY <1>9 DEF Throw
  <2>2. \A f \in Events : pc'[f] \in Early => pc[f] \in Early
    BY <1>1, <1>9 DEF Throw, Release, Goto, Early
  <2>3. QED
    BY <1>9, <2>1, <2>2, PlacesUndecided, FaultsDisturb DEF Throw
<1>10. QED
  BY <1>2, <1>3, <1>4, <1>5, <1>6, <1>7, <1>8, <1>9 DEF GuardStep, Handle

-----------------------------------------------------------------------------
(* Of the steps of a call, all but the update decide nothing.              *)

\* A step of the call of r that leaves cases alone.
LEMMA CallUndecided ==
  ASSUME UNCHANGED <<guardVars, caseStatus, decided>>,
         NEW r \in Resolvers,
         \A q \in Resolvers : q # r => step'[q] = step[q] /\ SameCall(q),
         \A row \in fraudLog' :
            row \in fraudLog \/ row.action \in AssessmentActions \/ <<row.event, row.action>> \in decided,
         step'[r] \in Closing => step[r] \in Closing /\ SameCall(r),
         step'[r] = "updating" =>
            \/ step[r] = "updating" /\ SameCall(r)
            \/ target'[r] \in Events /\ caseStatus[target'[r]] = "pending",
         Undisturbed' =>
            /\ Undisturbed
            /\ fraudLog \subseteq fraudLog'
            /\ step[r] \in Closing =>
                  \/ step'[r] \in Closing /\ SameCall(r)
                  \/ [event |-> target[r], action |-> decision[r]] \in fraudLog'
  PROVE  Undecided
<1>1. /\ decided' = decided
      /\ \A e \in Events : caseStatus'[e] = caseStatus[e] /\ (pc'[e] \in Early => pc[e] \in Early)
  BY DEF guardVars
<1>2. \A q \in Resolvers :
         /\ step'[q] \in Closing => step[q] \in Closing /\ SameCall(q)
         /\ step'[q] = "updating" =>
               \/ step[q] = "updating" /\ SameCall(q)
               \/ target'[q] \in Events /\ caseStatus'[target'[q]] = "pending"
  OBVIOUS
<1>3. Undisturbed' =>
         /\ Undisturbed
         /\ fraudLog \subseteq fraudLog'
         /\ \A q \in Resolvers : step[q] \in Closing =>
               \/ step'[q] \in Closing /\ SameCall(q)
               \/ [event |-> target[q], action |-> decision[q]] \in fraudLog'
  OBVIOUS
<1>4. QED
  BY <1>1, <1>2, <1>3 DEF Undecided

\* What the call of r is changed to touches no other call.
LEMMA OneCallMoves ==
  ASSUME TypeOK, NEW r \in Resolvers, NEW s, NEW t, NEW d,
         step' = [step EXCEPT ![r] = s],
         target' = [target EXCEPT ![r] = t],
         decision' = [decision EXCEPT ![r] = d]
  PROVE  /\ step'[r] = s /\ target'[r] = t /\ decision'[r] = d
         /\ \A q \in Resolvers : q # r => step'[q] = step[q] /\ SameCall(q)
BY DEF TypeOK, ResolutionTypeOK, SameCall

LEMMA SelectCaseUndecided ==
  ASSUME IInv, NEW r \in Resolvers, NEW e \in Events, NEW d \in Decisions,
         SelectCase(r, e, d), UNCHANGED <<guardVars, gateVars>>
  PROVE  Undecided
<1>1. /\ step'[r] = "updating" /\ target'[r] = e /\ decision'[r] = d
      /\ \A q \in Resolvers : q # r => step'[q] = step[q] /\ SameCall(q)
  BY OneCallMoves DEF SelectCase, Become, IInv
<1>2. /\ UNCHANGED <<guardVars, caseStatus, decided, fraudLog, faults, restarts>>
      /\ caseStatus[e] = "pending" /\ step[r] = "idle"
  BY DEF SelectCase, tableVars
<1>3. QED
  BY <1>1, <1>2, CallUndecided DEF Closing, Undisturbed

LEMMA CancelUndecided ==
  ASSUME IInv, NEW r \in Resolvers, CancelRejectedOrder(r), UNCHANGED <<guardVars, gateVars>>
  PROVE  Undecided
<1>1. /\ step'[r] = "auditing" /\ step[r] = "cancelling" /\ SameCall(r)
      /\ \A q \in Resolvers : q # r => step'[q] = step[q] /\ SameCall(q)
  BY DEF CancelRejectedOrder, Become, IInv, TypeOK, ResolutionTypeOK, SameCall
<1>2. UNCHANGED <<guardVars, caseStatus, decided, fraudLog, faults, restarts>>
  BY DEF CancelRejectedOrder
<1>3. QED
  BY <1>1, <1>2, CallUndecided DEF Closing, Undisturbed

LEMMA LogDecisionUndecided ==
  ASSUME IInv, DecisionInv, NEW r \in Resolvers, LogDecision(r), UNCHANGED <<guardVars, gateVars>>
  PROVE  Undecided
<1>1. /\ step'[r] = "idle" /\ step[r] = "auditing"
      /\ \A q \in Resolvers : q # r => step'[q] = step[q] /\ SameCall(q)
  BY OneCallMoves DEF LogDecision, Return, Become, IInv
<1>2. UNCHANGED <<guardVars, caseStatus, decided, faults, restarts>>
  BY DEF LogDecision
<1>3. fraudLog' = fraudLog \cup {[event |-> target[r], action |-> decision[r]]}
  BY DEF LogDecision, InsertLog
<1>4. <<target[r], decision[r]>> \in decided
  BY <1>1 DEF DecisionInv, TrailInv, Closing
<1>5. /\ \A row \in fraudLog' :
            row \in fraudLog \/ row.action \in AssessmentActions \/ <<row.event, row.action>> \in decided
      /\ [event |-> target[r], action |-> decision[r]] \in fraudLog'
      /\ fraudLog \subseteq fraudLog'
  BY <1>3, <1>4
<1>6. QED
  BY <1>1, <1>2, <1>5, CallUndecided DEF Closing, Undisturbed

LEMMA FailUndecided ==
  ASSUME IInv, NEW r \in Resolvers, Fail(r), UNCHANGED <<guardVars, gateVars>>
  PROVE  Undecided
<1>1. /\ step'[r] = "idle"
      /\ \A q \in Resolvers : q # r => step'[q] = step[q] /\ SameCall(q)
  BY OneCallMoves DEF Fail, Return, Become, IInv
<1>2. UNCHANGED <<guardVars, caseStatus, decided, fraudLog>> /\ ~Undisturbed'
  BY FaultsDisturb DEF Fail
<1>3. QED
  BY <1>1, <1>2, CallUndecided DEF Closing

\* The calls of a process that goes down end; the others do not notice.
LEMMA ForgetUndecided ==
  ASSUME IInv, NEW lost, Forget(lost), Restart, UNCHANGED <<caseStatus, fraudLog>>,
         \A e \in Events : pc'[e] \in Early => pc[e] \in Early
  PROVE  Undecided
<1>1. /\ decided' = decided /\ ~Undisturbed'
      /\ \A r \in Resolvers : step'[r] = "idle" \/ (step'[r] = step[r] /\ SameCall(r))
  BY FaultsDisturb DEF Forget, SameCall
<1>2. QED
  BY <1>1 DEF Undecided, Closing

LEMMA CronUndecided ==
  ASSUME IInv, NEW c \in Crons, Cron(c), UNCHANGED <<guardVars, gateVars>>
  PROVE  Undecided
<1>1. CASE ListStale(c)
  <2>1. UNCHANGED <<guardVars, step, target, decision, decided, tableVars>>
    BY <1>1 DEF ListStale
  <2>2. QED
    BY <2>1 DEF Undecided, SameCall, Undisturbed, tableVars, guardVars
<1>2. ASSUME NEW e \in Events, SkipClosed(c, e)
      PROVE  Undecided
  <2>1. UNCHANGED <<guardVars, step, target, decision, decided, tableVars>>
    BY <1>2 DEF SkipClosed
  <2>2. QED
    BY <2>1 DEF Undecided, SameCall, Undisturbed, tableVars, guardVars
<1>3. ASSUME NEW e \in Events, ReleaseStale(c, e)
      PROVE  Undecided
  BY <1>3, SelectCaseUndecided DEF ReleaseStale, Resolvers, Decisions
<1>4. QED
  BY <1>1, <1>2, <1>3 DEF Cron

LEMMA WorkerRestartUndecided ==
  ASSUME IInv, NEW c \in Crons, WorkerRestart(c), UNCHANGED <<guardVars, gateVars>>
  PROVE  Undecided
<1>1. Forget({c}) /\ Restart /\ UNCHANGED <<caseStatus, fraudLog, pc>>
  BY DEF WorkerRestart, guardVars
<1>2. QED
  BY <1>1, ForgetUndecided

LEMMA ServerRestartUndecided ==
  ASSUME IInv, ServerRestart
  PROVE  Undecided
<1>1. Forget(Admins) /\ Restart /\ UNCHANGED <<caseStatus, fraudLog>>
  BY DEF ServerRestart, GuardRestart
<1>2. \A e \in Events : pc'[e] \in Early => pc[e] \in Early
  BY DEF ServerRestart, GuardRestart, Early
<1>3. QED
  BY <1>1, <1>2, ForgetUndecided

-----------------------------------------------------------------------------
(* The update writes the decision, and the call is on its way to the log.  *)

LEMMA UpdateCaseDecides ==
  ASSUME IInv, DecisionInv, NEW r \in Resolvers, UpdateCase(r), UNCHANGED <<guardVars, gateVars>>
  PROVE  DecisionInv'
<1> DEFINE e == target[r]
           d == decision[r]
<1>1. /\ step[r] = "updating" /\ e \in Events /\ d \in Decisions /\ caseStatus[e] # "none"
      /\ step \in [Resolvers -> {"idle", "updating", "cancelling", "auditing"}]
      /\ caseStatus \in [Events -> Statuses]
      /\ decided \subseteq Events \X Decisions
  BY DEF UpdateCase, IInv, CaseInv, TypeOK, TablesTypeOK, ResolutionTypeOK
<1>2. /\ caseStatus' = [caseStatus EXCEPT ![e] = d]
      /\ decided' = decided \cup {<<e, d>>}
      /\ UNCHANGED <<target, decision, fraudLog, pc, faults, restarts>>
  BY DEF UpdateCase, guardVars
<1>3. step'[r] \in Closing /\ \A q \in Resolvers : q # r => step'[q] = step[q]
  BY <1>1 DEF UpdateCase, Become, Closing
<1>4. FreshInv'
  <2>1. \A f \in Events : caseStatus[f] = "none" => caseStatus'[f] = "none"
    BY <1>1, <1>2
  <2>2. QED
    BY <1>2, <2>1 DEF DecisionInv, FreshInv
<1>5. TrailInv'
  <2>1. \A q \in Resolvers : step'[q] \in Closing => <<target'[q], decision'[q]>> \in decided'
    BY <1>2, <1>3 DEF DecisionInv, TrailInv
  <2>2. \A row \in fraudLog' : row.action \in Decisions => <<row.event, row.action>> \in decided'
    BY <1>2 DEF DecisionInv, TrailInv, AuditTrail
  <2>3. ASSUME Undisturbed', NEW x \in decided'
        PROVE  \/ [event |-> x[1], action |-> x[2]] \in fraudLog'
               \/ \E q \in Resolvers : /\ step'[q] \in {"cancelling", "auditing"}
                                       /\ <<target'[q], decision'[q]>> = x
    <3>1. CASE x = <<e, d>>
      BY <1>2, <1>3, <3>1 DEF Closing
    <3>2. CASE x \in decided
      <4>1. Undisturbed
        BY <1>2, <2>3 DEF Undisturbed
      <4>2. \/ [event |-> x[1], action |-> x[2]] \in fraudLog
            \/ \E q \in Resolvers : /\ step[q] \in {"cancelling", "auditing"}
                                    /\ <<target[q], decision[q]>> = x
        BY <3>2, <4>1 DEF DecisionInv, TrailInv, AuditTrail
      <4>3. \A q \in Resolvers : step[q] \in {"cancelling", "auditing"} => step'[q] = step[q]
        BY <1>1, <1>3
      <4>4. QED
        BY <1>2, <4>2, <4>3
    <3>3. QED
      BY <1>2, <2>3, <3>1, <3>2
  <2>4. AuditTrail'
    BY <2>2, <2>3 DEF AuditTrail
  <2>5. QED
    BY <2>1, <2>4 DEF TrailInv
<1>6. TurnsInv'
  <2> SUFFICES ASSUME OneAtATime
               PROVE  /\ \A q \in Resolvers : step'[q] = "updating" => caseStatus'[target'[q]] = "pending"
                      /\ \A x \in decided' : caseStatus'[x[1]] = x[2]
    BY DEF TurnsInv, OneAtATime
  <2>1. \A q \in Resolvers : step'[q] # "updating"
    BY <1>3 DEF OneAtATime, Closing
  <2>2. /\ caseStatus[e] = "pending"
        /\ \A x \in decided : caseStatus[x[1]] = x[2] /\ x[1] \in Events /\ x[2] \in Decisions
    BY <1>1 DEF DecisionInv, TurnsInv
  <2>3. \A x \in decided : x[1] # e /\ caseStatus'[x[1]] = x[2]
    BY <1>2, <2>2 DEF Decisions
  <2>4. caseStatus'[e] = d
    BY <1>1, <1>2
  <2>5. QED
    BY <1>2, <2>1, <2>3, <2>4
<1>7. QED
  BY <1>4, <1>5, <1>6 DEF DecisionInv

-----------------------------------------------------------------------------
(* What a step may do to decisions: write one, or nothing.                 *)

LEMMA DecideOrNot ==
  ASSUME IInv, DecisionInv, [Next]_vars
  PROVE  \/ Undecided
         \/ \E r \in Resolvers : UpdateCase(r) /\ UNCHANGED <<guardVars, gateVars>>
         \/ /\ UNCHANGED <<caseStatus, decided, pc, resolutionVars, faults, restarts>>
            /\ fraudLog' \subseteq fraudLog
            /\ fraudLog' = fraudLog \/ LogRetention
<1>1. CASE GuardStep /\ UNCHANGED <<resolutionVars, gateVars>>
  BY <1>1, GuardUndecided
<1>2. CASE ResolutionStep /\ UNCHANGED <<guardVars, gateVars>>
  <2>1. ASSUME NEW r \in Admins, NEW e \in Events, Review(r, e)
        PROVE  Undecided
    BY <1>2, <2>1, SelectCaseUndecided DEF Review, Resolvers
  <2>2. QED
    BY <1>2, <2>1, CronUndecided, WorkerRestartUndecided, CancelUndecided, LogDecisionUndecided,
       FailUndecided DEF ResolutionStep, Proceed
<1>3. CASE GateStep /\ UNCHANGED <<guardVars, resolutionVars>>
  BY <1>3 DEF GateStep, AskFirst, AskSecondAndRelease, AskSecondAndSkip, tableVars, guardVars,
              resolutionVars
<1>4. CASE PruneLog /\ UNCHANGED <<guardVars, resolutionVars, gateVars>>
  BY <1>4 DEF PruneLog, guardVars, resolutionVars
<1>5. CASE ServerRestart
  BY <1>5, ServerRestartUndecided
<1>6. CASE UNCHANGED vars
  BY <1>6 DEF vars, tableVars, guardVars, resolutionVars
<1>7. QED
  BY <1>1, <1>2, <1>3, <1>4, <1>5, <1>6 DEF Next

\* Pruning the log takes rows away, and says so in its configuration.
LEMMA PruningKeeps ==
  ASSUME DecisionInv,
         UNCHANGED <<caseStatus, decided, pc, resolutionVars, faults, restarts>>,
         fraudLog' \subseteq fraudLog,
         fraudLog' = fraudLog \/ LogRetention
  PROVE  DecisionInv'
<1> USE DEF DecisionInv, resolutionVars
<1>1. FreshInv'
  BY DEF FreshInv
<1>2. TrailInv'
  BY DEF TrailInv, AuditTrail, Undisturbed
<1>3. TurnsInv'
  BY DEF TurnsInv, OneAtATime
<1>4. QED
  BY <1>1, <1>2, <1>3

LEMMA NextDecisionInv == IInv /\ DecisionInv /\ [Next]_vars => DecisionInv'
BY DecideOrNot, UndecidedKeeps, UpdateCaseDecides, PruningKeeps

LEMMA DecisionInvariance == Spec => [](IInv /\ DecisionInv)
BY InitIInv, NextIInv, InitDecisionInv, NextDecisionInv, PTL DEF Spec

(* The audit trail, for any number of overlapping requests and crons: a    *)
(* decision in the log was written to the case it names, and one that was  *)
(* written is in the log or on its way there (resolveCase,                 *)
(* fraud-prevention.service.ts:1198-1233).                                 *)
THEOREM DecisionsAreLogged == Spec => []AuditTrail
<1>1. DecisionInv => AuditTrail
  BY DEF DecisionInv, TrailInv
<1>2. QED
  BY <1>1, DecisionInvariance, PTL

(* Calls that take turns: a rejection that was written is what the case    *)
(* says from then on, so the order stays among the held ones.              *)
THEOREM RejectionsHold ==
  ASSUME OneAtATime
  PROVE  Spec => []RejectedStayHeld
<1>1. DecisionInv => RejectedStayHeld
  BY DEF DecisionInv, TurnsInv, RejectedStayHeld, Rejected, HeldOrderIds, EventsOf
<1>2. QED
  BY <1>1, DecisionInvariance, PTL

(* Calls that take turns: "A second decision on the same case is refused"  *)
(* (fraud-prevention.e2e-spec.ts:611).  Overlapping calls break it: see    *)
(* the run overlapping_decisions.                                          *)
THEOREM FirstDecisionStays ==
  ASSUME OneAtATime
  PROVE  Spec => DecisionFinal
<1> DEFINE Final == \A e \in Events :
                       caseStatus[e] \in Decisions => caseStatus'[e] = caseStatus[e]
<1>1. ASSUME IInv, DecisionInv, [Next]_vars
      PROVE  Final
  <2>1. CASE Undecided
    BY <2>1 DEF Undecided, Decisions
  <2>2. ASSUME NEW r \in Resolvers, UpdateCase(r)
        PROVE  Final
    <3>1. caseStatus[target[r]] = "pending" /\ caseStatus \in [Events -> Statuses]
      BY <1>1, <2>2 DEF UpdateCase, DecisionInv, TurnsInv, IInv, TypeOK, TablesTypeOK
    <3>2. caseStatus' = [caseStatus EXCEPT ![target[r]] = decision[r]]
      BY <2>2 DEF UpdateCase
    <3>3. QED
      BY <3>1, <3>2 DEF Decisions
  <2>3. QED
    BY <1>1, <2>1, <2>2, DecideOrNot
<1>2. Spec => [][Final]_caseStatus
  <2>1. IInv /\ DecisionInv /\ [Next]_vars => [Final]_caseStatus
    BY <1>1
  <2>2. QED
    BY <2>1, DecisionInvariance, PTL DEF Spec
<1>3. QED
  BY <1>2 DEF DecisionFinal

-----------------------------------------------------------------------------
(* The composition implements HoldPolicy.                                  *)

\* The steps the policy sees, among all the others.
LEMMA WhatThePolicySees ==
  ASSUME [Next]_vars
  PROVE  \/ UNCHANGED <<assessment, decided, released>>
         \/ \E e \in Events : Assess(e) /\ UNCHANGED <<resolutionVars, gateVars>>
         \/ \E r \in Resolvers : UpdateCase(r) /\ UNCHANGED <<guardVars, gateVars>>
         \/ \E o \in Orders : AskSecondAndRelease(o) /\ UNCHANGED <<guardVars, resolutionVars>>
<1>1. CASE GuardStep /\ UNCHANGED <<resolutionVars, gateVars>>
  BY <1>1 DEF GuardStep, Handle, Publish, StartAtOnce, Enqueue, Resume, SelectOpenCase, InsertCase,
              LogAssessment, Finish, Throw, Release, resolutionVars, gateVars
<1>2. CASE ResolutionStep /\ UNCHANGED <<guardVars, gateVars>>
  BY <1>2 DEF ResolutionStep, Review, Cron, SelectCase, ListStale, ReleaseStale, SkipClosed,
              WorkerRestart, Forget, Proceed, CancelRejectedOrder, LogDecision, Fail, guardVars, gateVars
<1>3. CASE GateStep /\ UNCHANGED <<guardVars, resolutionVars>>
  BY <1>3 DEF GateStep, AskFirst, AskSecondAndSkip, guardVars, resolutionVars
<1>4. CASE PruneLog /\ UNCHANGED <<guardVars, resolutionVars, gateVars>>
  BY <1>4 DEF guardVars, resolutionVars, gateVars
<1>5. CASE ServerRestart
  BY <1>5 DEF ServerRestart, GuardRestart, Forget, gateVars
<1>6. CASE UNCHANGED vars
  BY <1>6 DEF vars, guardVars, resolutionVars, gateVars
<1>7. QED
  BY <1>1, <1>2, <1>3, <1>4, <1>5, <1>6 DEF Next

\* A verdict clears the order, or says nothing about it.
LEMMA AssessClears ==
  ASSUME IInv, NEW e \in Events, Assess(e), UNCHANGED <<resolutionVars, gateVars>>
  PROVE  /\ OrderOf[e] \in Orders
         /\ UNCHANGED <<Rejected, released>>
         /\ Cleared' = Cleared \/ Cleared' = Cleared \cup {OrderOf[e]}
<1>1. PICK mode \in Modes, level \in Levels :
         assessment' = [assessment EXCEPT ![e] = ActionFor(mode, level)]
  BY DEF Assess
<1> DEFINE action == ActionFor(mode, level)
<1>2. /\ assessment[e] = "unscored"
      /\ assessment' = [assessment EXCEPT ![e] = action]
      /\ assessment \in [Events -> AssessmentActions \cup {"unscored"}]
      /\ UNCHANGED <<decided, released>>
      /\ OrderOf \in [Events -> Orders]
  BY <1>1, TablesAssumption DEF Assess, At, IInv, HandlerInv, TypeOK, GuardTypeOK, resolutionVars, gateVars
<1> HIDE DEF action
<1>3. "unscored" \notin AssessmentActions
  BY DEF AssessmentActions, HeldActions
<1>4. CASE action \in AssessmentActions \ HeldActions
  BY <1>2, <1>3, <1>4 DEF Cleared, Rejected, EventsOf
<1>5. CASE action \notin AssessmentActions \ HeldActions
  BY <1>2, <1>3, <1>5 DEF Cleared, Rejected, EventsOf
<1>6. QED
  BY <1>2, <1>4, <1>5

\* A decision clears the order of its case or rejects it.
LEMMA UpdateClearsOrRejects ==
  ASSUME IInv, NEW r \in Resolvers, UpdateCase(r), UNCHANGED <<guardVars, gateVars>>
  PROVE  \E o \in Orders :
            /\ released' = released
            /\ \/ Cleared' = Cleared \cup {o} /\ Rejected' = Rejected
               \/ Rejected' = Rejected \cup {o} /\ Cleared' = Cleared
<1>1. /\ target[r] \in Events /\ decision[r] \in Decisions
      /\ decided' = decided \cup {<<target[r], decision[r]>>}
      /\ UNCHANGED <<assessment, released>>
      /\ OrderOf \in [Events -> Orders]
  BY TablesAssumption DEF UpdateCase, IInv, CaseInv, TypeOK, ResolutionTypeOK, guardVars, gateVars
<1>2. CASE decision[r] = "approved"
  <2>1. Cleared' = Cleared \cup {OrderOf[target[r]]} /\ Rejected' = Rejected
    BY <1>1, <1>2 DEF Cleared, Rejected, EventsOf
  <2>2. QED
    BY <1>1, <2>1
<1>3. CASE decision[r] = "rejected"
  <2>1. Rejected' = Rejected \cup {OrderOf[target[r]]} /\ Cleared' = Cleared
    BY <1>1, <1>3 DEF Cleared, Rejected, EventsOf
  <2>2. QED
    BY <1>1, <2>1
<1>4. QED
  BY <1>1, <1>2, <1>3 DEF Decisions

\* The second question, when the first was "assessed?", is "held?": what it
\* lets go was cleared, and no case of it is rejected.
LEMMA ReleaseIsAllowed ==
  ASSUME IInv, DecisionInv, OneAtATime, SafeGate,
         NEW o \in Orders, AskSecondAndRelease(o), UNCHANGED <<guardVars, resolutionVars>>
  PROVE  /\ o \in Cleared
         /\ o \notin Rejected
         /\ released' = released \cup {o}
         /\ UNCHANGED <<Cleared, Rejected>>
<1>1. o \in asked /\ o \notin HeldOrderIds
  BY DEF AskSecondAndRelease, SafeGate, NotHeld, HeldAnswers
<1>2. o \in Cleared
  BY <1>1, NotHeldIsCleared DEF IInv, AskedInv
<1>3. Rejected \subseteq HeldOrderIds
  BY DEF DecisionInv, TurnsInv, Rejected, HeldOrderIds, EventsOf
<1>4. UNCHANGED <<Cleared, Rejected>>
  BY DEF Cleared, Rejected, EventsOf, guardVars, resolutionVars
<1>5. QED
  BY <1>1, <1>2, <1>3, <1>4 DEF AskSecondAndRelease

LEMMA PolicyStep ==
  ASSUME IInv, DecisionInv, OneAtATime, SafeGate, [Next]_vars
  PROVE  [Policy!Next]_(Policy!vars)
<1>1. CASE UNCHANGED <<assessment, decided, released>>
  BY <1>1 DEF Policy!vars, Cleared, Rejected, EventsOf
<1>2. ASSUME NEW e \in Events, Assess(e), UNCHANGED <<resolutionVars, gateVars>>
      PROVE  [Policy!Next]_(Policy!vars)
  <2>1. /\ OrderOf[e] \in Orders
        /\ UNCHANGED <<Rejected, released>>
        /\ Cleared' = Cleared \/ Cleared' = Cleared \cup {OrderOf[e]}
    BY <1>2, AssessClears
  <2>2. CASE Cleared' = Cleared
    BY <2>1, <2>2 DEF Policy!vars
  <2>3. CASE Cleared' = Cleared \cup {OrderOf[e]}
    BY <2>1, <2>3 DEF Policy!Next, Policy!Clear
  <2>4. QED
    BY <2>1, <2>2, <2>3
<1>3. ASSUME NEW r \in Resolvers, UpdateCase(r), UNCHANGED <<guardVars, gateVars>>
      PROVE  Policy!Next
  BY <1>3, UpdateClearsOrRejects DEF Policy!Next, Policy!Clear, Policy!Reject
<1>4. ASSUME NEW o \in Orders, AskSecondAndRelease(o), UNCHANGED <<guardVars, resolutionVars>>
      PROVE  Policy!Next
  BY <1>4, ReleaseIsAllowed DEF Policy!Next, Policy!Release
<1>5. QED
  BY <1>1, <1>2, <1>3, <1>4, WhatThePolicySees

(* The promise: with "assessed?" asked before "held?", a query of held     *)
(* orders that answers, and decisions that take turns, every behaviour of  *)
(* guard, cases, crons, restarts and fulfilment path is one of HoldPolicy: *)
(* no order is released that nothing cleared, and none once rejected.      *)
THEOREM KeepsThePromise ==
  ASSUME OneAtATime, FirstQuestion = "assessed", HeldQueryMayFail = FALSE
  PROVE  Spec => ImplementsHoldPolicy
<1>1. Init => Policy!Init
  BY DEF Init, GuardInit, ResolutionInit, GateInit, Policy!Init, Cleared, Rejected, EventsOf,
         AssessmentActions, HeldActions
<1>2. IInv /\ DecisionInv /\ [Next]_vars => [Policy!Next]_(Policy!vars)
  BY PolicyStep DEF SafeGate
<1>3. Spec => Policy!Spec
  BY <1>1, <1>2, DecisionInvariance, PTL DEF Spec, Policy!Spec
<1>4. QED
  BY <1>3 DEF ImplementsHoldPolicy

=============================================================================
