----------------------------- MODULE OrderGuard -----------------------------
(***************************************************************************)
(* FraudOrderGuard: every placed order is assessed on the server process.  *)
(* Each event runs as one asynchronous handler; at most MaxConcurrent run  *)
(* at a time and the others wait in a queue of promises.  A handler scores *)
(* the order, opens a review case if the verdict holds it, and only then   *)
(* writes the assessment to the log, because the host's fulfilment path    *)
(* reads "logged and no case" as free to go.                               *)
(*                                                                         *)
(* The handlers share one event loop.  A handler that ends resolves the    *)
(* promise of the first waiter; the waiter goes on in the same drain of    *)
(* the microtask queue, before the loop delivers an event or the answer of *)
(* a statement.  "woken" is that waiter, and while there is one no handler *)
(* moves but by Resume.                                                    *)
(***************************************************************************)
EXTENDS FraudTables, Sequences

CONSTANTS MaxConcurrent,  \* MAX_CONCURRENT
          Modes,          \* effective modes an assessment may read
          Levels,         \* risk levels a score may reach
          NoEvent         \* no waiter is being woken

ASSUME GuardAssumption ==
    /\ MaxConcurrent \in Nat \ {0}
    /\ Modes \subseteq {"off", "monitor", "enforce"}
    /\ Levels \subseteq {"low", "medium", "review", "blocked"}
    /\ NoEvent \notin Events

VARIABLES pc,          \* where the handler of each event is
          running,     \* the counter of handlers in flight
          queue,       \* waiters, first come first
          woken,       \* the waiter whose promise was just resolved
          assessment   \* the verdict the handler of each event reached

guardVars == <<pc, running, queue, woken, assessment>>

\* A handler holds a slot from the assessment to the last notification.
Active == {"assessing", "selecting", "inserting", "logging", "notifying"}
Ended  == {"done", "failed", "lost"}
Places == {"unpublished", "queued"} \cup Active \cup Ended

GuardTypeOK ==
    /\ pc \in [Events -> Places]
    /\ running \in Int
    /\ queue \in Seq(Events)
    /\ woken \in Events \cup {NoEvent}
    /\ assessment \in [Events -> AssessmentActions \cup {"unscored"}]

GuardInit ==
    /\ pc = [e \in Events |-> "unpublished"]
    /\ running = 0
    /\ queue = <<>>
    /\ woken = NoEvent
    /\ assessment = [e \in Events |-> "unscored"]

Goto(e, place) == pc' = [pc EXCEPT ![e] = place]

\* The macrotask steps of a handler wait until the microtasks are drained.
At(e, place) == woken = NoEvent /\ pc[e] = place

-----------------------------------------------------------------------------
(* The semaphore.                                                          *)

\* Mutant: one handler too many passes the check.
StartAtOnceOffByOne(e) ==
    /\ At(e, "unpublished")
    /\ running <= MaxConcurrent
    /\ running' = running + 1
    /\ Goto(e, "assessing")
    /\ UNCHANGED <<queue, woken, assessment, tableVars>>

\* Mutant: the verdict is logged before it is reached.
StartAtOnceUnscored(e) ==
    /\ At(e, "unpublished")
    /\ running < MaxConcurrent
    /\ running' = running + 1
    /\ Goto(e, "logging")
    /\ UNCHANGED <<queue, woken, assessment, tableVars>>

(* The event arrives and finds a free slot ...                             *)
StartAtOnce(e) ==
    /\ At(e, "unpublished")
    /\ running < MaxConcurrent
    /\ running' = running + 1
    /\ Goto(e, "assessing")
    /\ UNCHANGED <<queue, woken, assessment, tableVars>>

(* ... or none, and waits.                                                 *)
Enqueue(e) ==
    /\ At(e, "unpublished")
    /\ running >= MaxConcurrent
    /\ queue' = Append(queue, e)
    /\ Goto(e, "queued")
    /\ UNCHANGED <<running, woken, assessment, tableVars>>

(* The waiter takes its slot without looking at the counter again.         *)
Resume ==
    /\ woken # NoEvent
    /\ running' = running + 1
    /\ Goto(woken, "assessing")
    /\ woken' = NoEvent
    /\ UNCHANGED <<queue, assessment, tableVars>>

\* Mutant: the waiter is woken after a success only.
ReleaseOnSuccess(e, end) ==
    /\ running' = running - 1
    /\ Goto(e, end)
    /\ \/ /\ queue = <<>> \/ end = "failed"
          /\ UNCHANGED <<queue, woken>>
       \/ /\ queue # <<>> /\ end = "done"
          /\ woken' = Head(queue)
          /\ queue' = Tail(queue)
    /\ UNCHANGED assessment

\* Mutant: the queue is shifted twice, once too often.
ReleaseShiftTwice(e, end) ==
    /\ running' = running - 1
    /\ Goto(e, end)
    /\ \/ /\ queue = <<>>
          /\ UNCHANGED <<queue, woken>>
       \/ /\ queue # <<>>
          /\ woken' = Head(queue)
          /\ queue' = SubSeq(queue, 3, Len(queue))
    /\ UNCHANGED assessment

(* The finally block: give the slot back, wake the first waiter.           *)
Release(e, end) ==
    /\ running' = running - 1
    /\ Goto(e, end)
    /\ \/ /\ queue = <<>>
          /\ UNCHANGED <<queue, woken>>
       \/ /\ queue # <<>>
          /\ woken' = Head(queue)
          /\ queue' = Tail(queue)
    /\ UNCHANGED assessment

-----------------------------------------------------------------------------
(* The handler.                                                            *)

(* The last lines of assess: the action for a level under a mode.  "off"   *)
(* stands for any protection that is off; the free tier's downgrade of     *)
(* enforce to monitor is in the choice of the mode.                        *)
ActionFor(mode, level) ==
    CASE level \notin {"review", "blocked"} -> "allow"
      [] mode = "off"                       -> "shadow"
      [] mode = "monitor"                   -> "flag"
      [] level = "blocked"                  -> "block"
      [] OTHER                              -> "review"

Holds(action) == action \in HeldActions

\* Mutant: only a block verdict opens a case.
AssessBlockOnly(e) ==
    /\ At(e, "assessing")
    /\ \E mode \in Modes, level \in Levels :
          LET action == ActionFor(mode, level) IN
          /\ assessment' = [assessment EXCEPT ![e] = action]
          /\ Goto(e, IF action = "block" THEN "selecting" ELSE "logging")
    /\ UNCHANGED <<running, queue, woken, tableVars>>

\* Mutant: mode off returns before the log, as the documentation has it.
AssessOffReturns(e) ==
    /\ At(e, "assessing")
    /\ \E mode \in Modes, level \in Levels :
          LET action == ActionFor(mode, level) IN
          /\ assessment' = [assessment EXCEPT ![e] = action]
          /\ Goto(e, IF mode = "off" THEN "notifying"
                     ELSE IF Holds(action) THEN "selecting" ELSE "logging")
    /\ UNCHANGED <<running, queue, woken, tableVars>>

(* resolveAvsForOrder and assess only read.                                *)
Assess(e) ==
    /\ At(e, "assessing")
    /\ \E mode \in Modes, level \in Levels :
          LET action == ActionFor(mode, level) IN
          /\ assessment' = [assessment EXCEPT ![e] = action]
          /\ Goto(e, IF Holds(action) THEN "selecting" ELSE "logging")
    /\ UNCHANGED <<running, queue, woken, tableVars>>

(* createCase looks for an open case of the order; a failing query counts  *)
(* as no row.                                                              *)
SelectOpenCase(e) ==
    /\ At(e, "selecting")
    /\ \/ /\ HasOpenCase(OrderOf[e])
          /\ Goto(e, "logging")
          /\ UNCHANGED faults
       \/ /\ ~HasOpenCase(OrderOf[e])
          /\ Goto(e, "inserting")
          /\ UNCHANGED faults
       \/ /\ StatementFails
          /\ Goto(e, "inserting")
    /\ UNCHANGED <<running, queue, woken, assessment, caseStatus, fraudLog, orderState, restarts>>

\* Mutant: a failing insert is swallowed, like the failing query before it.
InsertCaseSwallowed(e) ==
    /\ At(e, "inserting")
    /\ \/ /\ caseStatus' = [caseStatus EXCEPT ![e] = "pending"]
          /\ UNCHANGED faults
       \/ /\ StatementFails
          /\ UNCHANGED caseStatus
    /\ Goto(e, "logging")
    /\ UNCHANGED <<running, queue, woken, assessment, fraudLog, orderState, restarts>>

InsertCase(e) ==
    /\ At(e, "inserting")
    /\ caseStatus' = [caseStatus EXCEPT ![e] = "pending"]
    /\ Goto(e, "logging")
    /\ UNCHANGED <<running, queue, woken, assessment, fraudLog, orderState, faults, restarts>>

LogAssessment(e) ==
    /\ At(e, "logging")
    /\ InsertLog(e, assessment[e])
    /\ Goto(e, "notifying")
    /\ UNCHANGED <<running, queue, woken, assessment, caseStatus, orderState, faults, restarts>>

(* The notifications end, well or badly, and the handler with them.        *)
Finish(e) ==
    /\ At(e, "notifying")
    /\ Release(e, "done")
    /\ UNCHANGED tableVars

(* A query without a catch of its own throws: the handler ends there, the  *)
(* error is printed, and nothing tries the order again.                    *)
Throw(e) ==
    /\ woken = NoEvent
    /\ pc[e] \in {"assessing", "inserting", "logging"}
    /\ StatementFails
    /\ Release(e, "failed")
    /\ UNCHANGED <<caseStatus, fraudLog, orderState, restarts>>

(* The server process restarts: handlers, counter and queue were memory.   *)
GuardRestart ==
    /\ Restart
    /\ pc' = [e \in Events |-> IF pc[e] \in Active \cup {"queued"} THEN "lost" ELSE pc[e]]
    /\ running' = 0
    /\ queue' = <<>>
    /\ woken' = NoEvent
    /\ UNCHANGED <<assessment, caseStatus, fraudLog, orderState, faults>>

-----------------------------------------------------------------------------
Publish(e) == StartAtOnce(e) \/ Enqueue(e)

Handle(e) == \/ Assess(e)
             \/ SelectOpenCase(e)
             \/ InsertCase(e)
             \/ LogAssessment(e)
             \/ Finish(e)

GuardStep == \/ \E e \in Events : Publish(e) \/ Handle(e) \/ Throw(e)
             \/ Resume

GuardNext == GuardStep \/ GuardRestart

(* The event loop always comes back to a handler whose statement has been  *)
(* answered, and to a waiter whose promise is resolved.  Nothing obliges   *)
(* customers to place orders.                                              *)
GuardFairness == /\ \A e \in Events : WF_<<guardVars, tableVars>>(Handle(e))
                 /\ WF_<<guardVars, tableVars>>(Resume)

StartInit == TablesInit /\ GuardInit

GuardSpec == /\ StartInit
             /\ [][GuardNext]_<<guardVars, tableVars>>
             /\ GuardFairness

-----------------------------------------------------------------------------
(* What the guard is for.                                                  *)

InFlight == {e \in Events : pc[e] \in Active}

(* The counter counts exactly the handlers in flight and never passes the  *)
(* limit, although a woken waiter does not look at it again: failures,     *)
(* restarts and hand-overs neither leak a slot nor mint one.               *)
SlotsAccounted ==
    /\ running = Cardinality(InFlight)
    /\ running <= MaxConcurrent

(* Nobody waits for a slot that is free: while the queue is not empty all  *)
(* slots are taken, or the one given back is on its way to a waiter.       *)
NoLostWakeup ==
    queue # <<>> => running = MaxConcurrent \/ woken # NoEvent

(* An order whose assessment is in the log and held it has a case, so no   *)
(* reader of the tables ever sees "assessed, and nothing to hold it" of an *)
(* order about to be held (the comment at order-guard.ts:79).              *)
CaseBeforeLog ==
    \A row \in fraudLog : Holds(row.action) => HasCase(OrderOf[row.event])

(* The queue drains: an event that had to wait is handled, whatever        *)
(* becomes of the handlers before it, unless the process restarts.         *)
WaitersServed ==
    \A e \in Events : pc[e] = "queued" ~> pc[e] \in Ended

(* "Every placed order gets a `fraud_log` row - even with the channel off" *)
(* (README.md:236), unless a statement of the handler fails or the process *)
(* restarts.                                                               *)
AssessedUnlessCut ==
    \A e \in Events :
        pc[e] # "unpublished" ~> IsAssessed(OrderOf[e]) \/ pc[e] \in {"failed", "lost"}

=============================================================================
