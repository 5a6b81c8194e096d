------------------------------ MODULE Velocity ------------------------------
(***************************************************************************)
(* The rules that count: an assessment asks the tables, one query after    *)
(* the other, how many orders, addresses and failed payments there were in *)
(* the last hour or day, while other orders are placed and assessed and    *)
(* time goes by.  The failures a checkout guard recorded count if its      *)
(* table exists, which is asked for and remembered.  These two questions   *)
(* may fail and the assessment goes on; when another query fails it ends.  *)
(***************************************************************************)
EXTENDS NetUtil, RiskScoring

CONSTANTS Orders,     \* orders that may be placed, by number: 1..n
          HostsOf, MailboxesOf, \* the network and mail addresses each order may come with
          FailingHosts, \* network addresses of orders whose payment fails
          Limits,     \* the channel's configuration
          Hour, Day, GuardMemory, \* an hour, a day and ten minutes, in ticks
          MaxFailures \* bound: failed payments of an address and kind

ASSUME VelocityAssumption ==
    /\ Hour \in Nat /\ Day \in Nat /\ GuardMemory \in Nat \ {0}
    /\ \A o \in Orders : HostsOf[o] \subseteq Address
    /\ MaxFailures \in Nat
    /\ Limits.maxOrdersPerIpPerHour \in Nat /\ Limits.maxOrdersPerIpPerDay \in Nat

VARIABLES now,        \* the clock
          placed,     \* the orders placed so far, in this order
          counted,    \* what the assessment of each order knows so far
          failures,   \* when payments failed: Vendure's rows and the guard's
          guardTable, \* whether the guard's table is there, and since when
          guardMemo,  \* checkoutGuardTable
          probeFailed \* history: when the question for that table failed last

velocityVars == <<now, placed, counted, failures, guardTable, guardMemo, probeFailed>>

Never == -100

Queries == <<"hour", "day", "email", "fanout", "failed">>

Uncounted == [asked |-> 0, hour |-> 0, day |-> 0, emailOrders |-> 0, emailValue |-> 0,
              identities |-> 0, failed |-> 0,
              unheard |-> FALSE] \* history: the count of the guard's failures failed

VelocityInit ==
    /\ now = 0
    /\ placed = <<>>
    /\ counted = [o \in Orders |-> Uncounted]
    /\ failures = {}
    /\ guardTable = Never
    /\ guardMemo = [exists |-> FALSE, checkedAt |-> Never]
    /\ probeFailed = Never

-----------------------------------------------------------------------------
PlacedOrders == DOMAIN placed

RowOf(o) == placed[o]

Since(window) == {i \in DOMAIN placed : placed[i].at > now - window}

(* The address an assessment goes by is normalised; the column it is       *)
(* compared with holds the one that the order came with.                   *)
Client(o) == NormaliseIp(RowOf(o).ip)

\* Mutant: the order at hand does not count.
FromHostOther(o, window) ==
    {i \in Since(window) : placed[i].ip = Client(o) /\ i # o}

FromHost(o, window) == {i \in Since(window) : placed[i].ip = Client(o)}

\* Customers' addresses are compared with the one as written and its canonical form.
FromEmail(o, window) ==
    {i \in Since(window) : placed[i].email \in {RowOf(o).email, Canonical(RowOf(o).email)}}

Tick(last) ==
    /\ now < last
    /\ now' = now + 1
    /\ UNCHANGED <<placed, counted, failures, guardTable, guardMemo, probeFailed>>

Place(o) ==
    /\ o = Len(placed) + 1
    /\ \E ip \in HostsOf[o], email \in MailboxesOf[o] :
          placed' = Append(placed, [at |-> now, ip |-> ip, email |-> email, value |-> 1])
    /\ UNCHANGED <<now, counted, failures, guardTable, guardMemo, probeFailed>>

FailPayment(ip, kind) ==
    /\ kind = "guard" => guardTable # Never
    /\ \E n \in 1..MaxFailures :
          /\ \A f \in failures : <<f.ip, f.kind, f.n>> # <<ip, kind, n>>
          /\ failures' = failures \cup {[ip |-> ip, kind |-> kind, n |-> n, at |-> now]}
    /\ UNCHANGED <<now, placed, counted, guardTable, guardMemo, probeFailed>>

InstallGuard ==
    /\ guardTable = Never
    /\ guardTable' = now
    /\ UNCHANGED <<now, placed, counted, failures, guardMemo, probeFailed>>

-----------------------------------------------------------------------------
Asking(o, query) ==
    /\ o \in PlacedOrders
    /\ counted[o].asked < Len(Queries)
    /\ Queries[counted[o].asked + 1] = query

Count(o, ev) ==
    /\ counted' = [counted EXCEPT ![o] = [ev EXCEPT !.asked = @ + 1]]
    /\ UNCHANGED <<now, placed, failures, guardTable>>

CountHour(o) ==
    /\ Asking(o, "hour")
    /\ Count(o, [counted[o] EXCEPT !.hour = Cardinality(FromHost(o, Hour))])
    /\ UNCHANGED <<guardMemo, probeFailed>>

CountDay(o) ==
    /\ Asking(o, "day")
    /\ Count(o, [counted[o] EXCEPT !.day = Cardinality(FromHost(o, Day))])
    /\ UNCHANGED <<guardMemo, probeFailed>>

CountEmail(o) ==
    /\ Asking(o, "email")
    /\ Count(o, [counted[o] EXCEPT
          !.emailOrders = Cardinality(FromEmail(o, Day)),
          !.emailValue = MapThenSumSet(LAMBDA i : placed[i].value, FromEmail(o, Day))])
    /\ UNCHANGED <<guardMemo, probeFailed>>

CountIdentities(o) ==
    /\ Asking(o, "fanout")
    /\ Count(o, [counted[o] EXCEPT
          !.identities = Cardinality({placed[i].email : i \in FromHost(o, Day)})])
    /\ UNCHANGED <<guardMemo, probeFailed>>

Failed(o, kinds) ==
    {f \in failures : f.ip = Client(o) /\ f.kind \in kinds /\ f.at > now - Hour}

\* Mutant: a table that was not there once is never asked for again.
RememberedForGood == guardMemo.exists \/ guardMemo.checkedAt # Never

\* A table found stays found; one not found is asked for again after a while.
Remembered ==
    guardMemo.exists \/ (guardMemo.checkedAt # Never /\ now - guardMemo.checkedAt < GuardMemory)

(* The last queries; the score is taken and nothing else is kept.  A       *)
(* question for the table that fails is remembered as "no table", and a    *)
(* count of the guard's failures that fails is none.                       *)
CountFailed(o) ==
    /\ Asking(o, "failed")
    /\ \E probed, heard \in BOOLEAN :
          /\ guardMemo' = IF Remembered THEN guardMemo
                          ELSE [exists |-> probed /\ guardTable # Never, checkedAt |-> now]
          /\ probeFailed' = IF Remembered \/ probed THEN probeFailed ELSE now
          /\ Count(o, [Uncounted EXCEPT
                !.asked = counted[o].asked,
                !.failed = Cardinality(Failed(o, {"payment"} \cup
                              (IF guardMemo'.exists /\ heard THEN {"guard"} ELSE {}))),
                !.unheard = ~heard])

VelocityNext(orders, kinds, last) ==
    \/ Tick(last)
    \/ "guard" \in kinds /\ InstallGuard
    \/ \E ip \in FailingHosts, kind \in kinds : FailPayment(ip, kind)
    \/ \E o \in orders :
          \/ Place(o)
          \/ CountHour(o) \/ CountDay(o) \/ CountEmail(o) \/ CountIdentities(o) \/ CountFailed(o)

-----------------------------------------------------------------------------
Finishing(o) == counted[o].asked = Len(Queries) - 1 /\ counted'[o].asked = Len(Queries)

Evidence(o) ==
    [Unsuspicious EXCEPT !.hour = counted[o].hour, !.day = counted[o].day,
                         !.emailOrders = counted[o].emailOrders,
                         !.emailValue = counted[o].emailValue,
                         !.identities = counted[o].identities]

\* The orders up to o that came with the address o is assessed under, in its
\* plain form, and are not older than the window when o came.
Burst(o, window) ==
    {i \in 1..o : placed[i].ip = Client(o) /\ placed[i].at > placed[o].at - window}

\* The order o is scored with what a burst of these orders calls for.
ScoredAs(o, hourly, daily) ==
    LET raised == Signals(Limits, Evidence(o)) IN
    /\ Cardinality(hourly) >= Limits.maxOrdersPerIpPerHour => "ip_velocity_hour" \in raised
    /\ Cardinality(daily) >= Limits.maxOrdersPerIpPerDay => "ip_velocity_day" \in raised
    /\ Cardinality({placed[i].email : i \in daily}) >= 3 => "identity_fanout" \in raised

(* However the assessments of a burst overlap: the order that reaches the  *)
(* limit of its address within an hour, or within a day, and each one      *)
(* after it, is scored with the velocity signal, if its assessment is done *)
(* before time moves on; and so is the third identity of one address.      *)
(* Orders that came with the address in its mapped form do not count.      *)
BurstCaught ==
    [][\A o \in PlacedOrders : Finishing(o) /\ now = placed[o].at =>
          ScoredAs(o, Burst(o, Hour), Burst(o, Day))]_velocityVars

\* The same, with the orders from one host together however it is written.
BurstOfHost(o, window) ==
    {i \in 1..o : Client(i) = Client(o) /\ placed[i].at > placed[o].at - window}

(* "IPv4-mapped addresses (`::ffff:1.2.3.4`) are normalised"               *)
(* (CHANGELOG.md:43): an order that reaches a limit of its host is scored  *)
(* with the signal whichever way the addresses of the host's orders are    *)
(* written.                                                                *)
BurstCaughtHoweverWritten ==
    [][\A o \in PlacedOrders : Finishing(o) /\ now = placed[o].at =>
          ScoredAs(o, BurstOfHost(o, Hour), BurstOfHost(o, Day))]_velocityVars

(* A payment that failed within the hour before the assessment counts, if  *)
(* its order came with the address in its plain form.  So does one that    *)
(* the guard recorded, once its table has been there for as long as an     *)
(* answer that there is none is remembered, unless a question for the      *)
(* table failed within that time, or the count itself did.                 *)
FailuresCounted ==
    [][\A o \in PlacedOrders : Finishing(o) =>
          counted'[o].failed >= Cardinality(
              {f \in failures : /\ f.ip = Client(o)
                                /\ f.at > now - Hour
                                /\ f.kind = "guard" =>
                                      /\ now - guardTable >= GuardMemory
                                      /\ now - probeFailed' >= GuardMemory
                                      /\ ~counted'[o].unheard})
      ]_velocityVars

=============================================================================
