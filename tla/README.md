# Fraud prevention for Vendure: a TLA+ model

This directory holds TLA+ modules that model the fraud-prevention plugin in
`src/`, TLC configurations that check them on small instances, and TLAPS proofs
of the most important results for any number of orders, reviewers and
processes. Line numbers refer to `src/src/fraud-prevention.service.ts`
("service") unless another file is named.

## 1. The system and its parts

The plugin runs inside a Vendure server process, one or more worker processes
and one SQL database. Nothing is transactional: each statement goes to the pool
by itself, so between any two statements of a call anything else may run.

| component | state | operations | interacts with |
|---|---|---|---|
| Order guard, `order-guard.ts` | `running`, `queue` (memory of the server) | one handler per `OrderPlacedEvent`: score, open a case, log, notify | scoring, cases, log, messages |
| Risk scoring, service 657-1080 | none | `assess`: signals, sum, thresholds, mode | lists, configuration, IP intelligence, card checks |
| Card checks, `avs.ts` | none | verdicts of issuer, Radar and 3-D Secure | scoring; Stripe |
| IP intelligence and MX, `ip-intel.ts` | cache table, negative cache, token bucket, MX memory | look-ups with a deadline | scoring; ip-api, DNS |
| Addresses, `net-util.ts` | none | canonical mailbox, notations, ranges | lists, scoring, feeds |
| Review cases, service 1095-1330 | `fraud_blocked_orders` | `createCase`, `resolveCase`, `cancelRejectedOrder` | log, Vendure's order service |
| Lists, service 1462-1512, 1849-1871 | `fraud_blocklist`, `fraud_whitelist` | `addEntry`, `removeEntry`, `blocklistCaseIdentity` | scoring, rejection |
| Crons, `crons.ts` | none | auto-release (hourly), feed sync and log retention (nightly) on the workers | cases, log, feeds, messages |
| Fulfilment queries, service 1125-1163 | none | `heldOrderIds`, `isAssessed`, `assessedOrderIds` | asked by the host's fulfilment path |
| Threat feeds, service 1513-1767 | `fraud_blocklist`, `fraud_feed_state`, custom feeds, `syncInFlight`, an advisory lock | `syncAll`, `syncSource`, custom feeds | read by the scoring |
| Configuration, service 554-660 | `fraud_config`, notification settings, a 30 s memo of each in each process | `getConfig`, `saveConfig` and the same of notifications | scoring, messages |
| Messages, `ops-notify.ts`, service 1903-2087 | the texts of a channel | webhooks, mails to team and customer | guard, decisions, cron |
| Licence, `plugin.ts` | key in force of each process, stored key, end of the evaluation | boot, activation, deactivation, `hasPremiumAccess` | mode, crons |
| Screen, `fraud-prevention.component.ts` | what is shown, edited and under way | requests whose answers come late | all endpoints |
| Order panel, `order-fraud-panel.component.ts` | the order shown and its assessment | one request per order | log |

What makes it hard:

* **Interleaving.** Handlers share an event loop; administrators' requests, the
  workers' crons and the host's fulfilment run share the tables. The code reads
  a row and acts on it one or more statements later (`resolveCase`,
  `createCase`, the two fulfilment queries).
* **Partial failure.** Each statement may throw. Some calls swallow that
  (`heldOrderIds` answers "nothing is held", `createCase` "no open case"), some
  end the handler (order-guard.ts:42).
* **Restarts.** Queue and handlers are memory; a feed swap spans many
  statements and can end after any of them.
* **Ordering.** "Logged and no case" means "free to ship", so the case has to
  come before the log row (order-guard.ts:79-84).
* **Liveness.** A semaphore hands its slot on from handler to handler; a process
  flag and a database lock guard the sync; polls and look-ups have deadlines.
* **Stale state.** `cancelRejectedOrder` works on a snapshot; memos live for 30 s
  in each process; the screen applies an answer to whatever it has become.
* **Numbers.** Prefix lengths at their ends and shift counts of 32, limits that
  count the order itself, thresholds at 0, 100 and equal, a full token bucket.

What makes each part correct:

* guard: slots are conserved, no wake-up is lost, every waiter is served, the
  case comes before the log;
* resolution: a decision is final, a rejected order stays held, the log tells
  what was decided, stale cases are released in the end;
* gate: nothing ships that neither a verdict nor an approval cleared, nothing
  ships after a rejection;
* feeds: one sync at a time, the swap is exact, live rows are never absent, a
  removed feed leaves none, what is skipped as unchanged is unchanged, rows follow the list in the end;
* rejection: money that stays with the shop is told of, and the log row tells what
  was done, however payments, refunds and a second rejection interleave;
* lists and addresses: a range matches exactly its addresses, the limited query that
  narrows the ranges down loses none while its limit is not reached, aliases of a
  mailbox share its fate, what an administrator or a rejection lists is found;
* counting: the order that passes a limit is caught however many come at once, and
  no failure is missed while the queries that may fail unnoticed do not;
* look-ups: at most so many requests, no answer made up, each ends;
* scoring: what speaks against an order never lowers its level; a card verdict is
  told of one payment, never mixed of two;
* configuration: a read is stale for a bounded time only, thresholds do not cross;
* licence: what was activated is in force after a restart;
* messages: a customer hears what happened, in words there were; nobody waits for
  a silent server for ever;
* screen: one timer, one decision at a time, what differs from the stored settings
  stays marked, answers are shown where they belong.

## 2. Modules

| module | models | lines |
|---|---|---|
| `FraudTables` | the rows guard, decisions and gate share, their queries and writes | service 421-459, 1082-1163, 1447-1459 |
| `OrderGuard` | semaphore and handler | order-guard.ts, service 940-961, 1095-1114 |
| `CaseResolution` | `resolveCase`, approve and reject requests, auto-release | service 1198-1327, 1874-1901, controller 324-391, crons.ts 30-36 |
| `FulfilmentGate` | the host's two questions | src/README.md:223-238, service 1125-1163 |
| `HoldPolicy` | abstract: what the three together promise about fulfilment | |
| `FraudPrevention` | composition of the four modules above; refinement mapping | |
| `RejectOrder` | one rejection against Vendure's payments, refunds and order | service 1198-1327 |
| `FeedSync` | feed sync of built-in and custom lists | service 461-530, 1514-1767 |
| `NetUtil` | canonical mailboxes, notations, ranges, the narrowing query | net-util.ts, service 715-729 |
| `IdentityLists` | list entries, the rejection that lists an identity, what scoring reads | service 461-481, 695-746, 1462-1512, 1849-1871 |
| `Velocity` | the counting queries while orders come | service 748-856, 1340-1369 |
| `IpIntel` | ip-api and MX look-ups | ip-intel.ts, service 685-690, 1770-1793 |
| `CardChecks` | verdicts and where they are looked for | avs.ts, service 857-930, 1009-1027 |
| `RiskScoring` | every rule with its weight, the sum, levels | types.ts 86-146, service 664-944 |
| `Assessment` | composition of the six modules above | service 695-1027 |
| `ConfigMemo` | the settings and the memos | service 554-660, 1903-2021, types.ts 122-146 |
| `Licence` | keys and evaluation in each process | plugin.ts 71-223, controller 172-190 |
| `AdminUI` | purchase and its poll, update, review queue, texts, settings | fraud-prevention.component.ts 1461-2393 |
| `OrderPanel` | the panel on an order's page | order-fraud-panel.component.ts 93-120 |
| `CustomerMessages` | mails and webhooks of one order | ops-notify.ts, service 532-552, 1903-2087, order-guard.ts 74-174, controller 330-388 |
| `Console` | composition of the five modules above | |
| `FraudPreventionProofs`, `RejectOrderProofs`, `FeedSyncProofs`, `ListsProofs`, `ScoringProofs`, `AssessmentProofs`, `ConsoleProofs` | theorems (5) and the inductive invariants behind them | |
| `NumberLemmas` | sums over finite sets, quotients: lemmas of the proofs | |
| `MCOrderGuard`, `MCFraudPrevention`, `MCRejectOrder`, `MCFeedSync`, `MCAssessment`, `MCConsole` | constants for TLC | |

`Assessment` and `Console` compose modules that share no state while they run: what
one answers enters the next as a value. A behaviour of theirs therefore tells one
*story*, chosen at the start, in which one part moves and the others stand still;
their product would show nothing more. The modules that do share state, the
guard, the decisions and the gate, are composed step by step in `FraudPrevention`.

### How state and actions correspond to the code

`FraudTables`. An event names a delivery of `OrderPlacedEvent`; several may be
about one order. Handling an event inserts at most one case, so `caseStatus[e]`
is the status column of the case row opened for `e` ("none" before the insert).
`fraudLog` is the set of log rows, `orderState` what the host looks at of
Vendure's order. Queries are operators (`HeldOrderIds`, `IsAssessed`), each
statement that writes is one action of the module that issues it. `faults` and
`restarts` count down the failures and restarts an instance allows.

`OrderGuard`. `pc[e]` is the place of `e`'s handler, one per `await` after which
something can have changed. `Enqueue`, `StartAtOnce`, `Release` and `Resume` are
the semaphore of order-guard.ts:37-48. A woken waiter increments the counter
without looking at it again; this is safe only because it resumes in the
microtask drain that follows the `finally` block. The model keeps that fact:
while `woken` names a waiter, no other handler moves. `Assess` picks any mode
and level of the instance: the scoring that would choose them reads only, and
its last step, `ActionFor`, is the code's. `Throw` is a statement that ends the
handler; `GuardRestart` loses queue and handlers.

`CaseResolution`. One call per resolver at a time: `SelectCase` (read and check),
`UpdateCase` (update by id), `CancelRejectedOrder`, `LogDecision`. The cron
lists stale cases first (`ListStale`) and then goes through them. Which pending
cases are past their hours is a choice, because time is not modelled. `decided`
is a history variable: the decisions that were ever written.

`FulfilmentGate` is outside `src/`: it is written from how the README says the
host asks. `FirstQuestion` is the order of the two queries, `HeldQueryMayFail`
whether the query behind `heldOrderIds` may throw.

`FeedSync`. `job[c]` holds the place and the local variables of the sync a caller
has started, with one step per statement and one chunk or batch per step. A content
hash stands for the content. A row's `staged` tells `tor~staging` from `tor`.
`trouble` counts what has happened of list edits, failing statements, restarts
and syncs without the lock; `Scenarios` says which combinations an instance
allows. A failing `RELEASE_LOCK` is taken to be a lost connection, which
releases the lock. A chunk takes the oldest rows, as the code orders by id; only
that order matters, so ids are numbered anew when rows are added. Four attempts at a
deadlocked statement are one step that succeeds or throws.

Custom feeds are sources with a row of their own that may be missing, off or under
another address; `AddCustomFeed`, `UpdateCustomFeed`, `RemoveRows` and `RemoveFeed` are
single statements or pairs of them, as in the code, and may come between any two
steps of a sync. `StartAll` is offered to administrators as well as to the cron,
as the handler has it, although today's order of routes hides it (see 4).

`RejectOrder`. `call[c]` is a request with its snapshot of the order, the warnings
it has collected and the refunds it believes in. Each call of Vendure's order
service is one step that does it, refuses, throws, or throws after the deed; this
is how the code distinguishes results. `Meddle` is everybody else: payments that
settle, refunds and cancellations by other administrators.

`IdentityLists` keeps the two tables as sets of rows with ids, because the code may
insert a value twice. `NetUtil` has the widths of addresses as constants; shift
counts are taken modulo the width as JavaScript does. An address carries the form
it is written in, because the candidates are told by how their text begins: `v4`,
`dotted` for `::ffff:1.2.3.4`, `v6` with the first zeros left out (`::ffff:102:304`),
`spelled` with all groups or in brackets, `bad` for what is no address. A mailbox carries
its dots and tag. A query with `LIMIT` and no `ORDER BY` answers any rows, as many as there are
or as the limit says (`UpTo`): `Hits` for the mailbox, `Fetched` for the ranges of
either list. A list query that fails answers nothing (service 701, 711, 729): the
properties say "if the queries do not fail".

`Velocity` counts rows with a time; the clock moves only between the statements
of an assessment. `Client` is the address an assessment goes by, which is normalised;
a row keeps the form its order came with, and the counts compare the two as the
queries do. Two queries may fail and the assessment goes on (`CountFailed`): the
question whether the guard's table exists, which is then remembered as "no table"
(`probeFailed` tells when), and the count in it, which is then none (`unheard`).
Any other counting query that throws ends the assessment, which is a handler
that is cut short (`OrderGuard`). `IpIntel` has one look-up
per asker at a time; a tick is the time in which the bucket gains a token; an
answer after the deadline is for nobody. `CardChecks` is a set of pure operators;
`Assessment` evaluates them on all payments and metadata of an instance.
`RiskScoring` is pure too, and `Doubt` of the story "scoring" adds one thing
that speaks against the order at a time.

`ConfigMemo`. `settingRow[k]` keeps every version of a row with the times it was
the current one, so that a property can say how old an answer is. The two keys
share nothing, so a behaviour is about one of them. `Licence` has a
process per server and worker; `verify` of the licence kit is external.

`AdminUI`, `OrderPanel`. Each record is a component's fields; a request in flight is
a value that stays until `...Answered` takes it, in any order. Of the settings it counts
which channels' differ from what is stored (`differ`), which hold a value beyond its
bounds (`beyond`), and which were saved that way and are stored within them
(`bounded`). `CustomerMessages`
reads the settings as either answer of the memo; the deadlines of a mail (25 s) and of a
webhook (6 s) are steps of their own.

Definitions marked as mutants are deliberately wrong variants of the definition
after them. Replacing that definition by its mutant breaks the property the
mutant belongs to, which shows that the property depends on the code.

## 3. Runs

Runs expected to pass:

| run | question | instance | distinct states |
|---|---|---|---|
| `concurrent` | may anything ship that nothing cleared (`ReleasedWereCleared`, `CaseBeforeLog`, `TypeOK`), does the log tell what was decided (`AuditTrail`), and does the cron close every pending case (`StaleCasesReleased`)? | one order delivered twice, an administrator, a worker, one failing statement, one restart | 600 000 |
| `sequential` | with one resolver at a time: are decisions final, rejected orders held, and is `HoldPolicy` implemented? | as above without the worker, cancelling or not, the log pruned | 77 000 |
| `burst` | are slots, wake-ups and waiters conserved, and is every order assessed unless its handler is cut short? | four events of three orders, two slots, one failing statement, one restart, channels off and enforcing | 215 000 |
| `reject_order` | is money that stays told of, does the row tell the outcome, does every rejection end? | two rejections of an order with two payments of two units, in five states it may be found in; two refusals, captures or refunds by others, one throwing call | 570 000 |
| `feed_sync` | exclusive (`OneSyncAtATime`, `NoGuardLeftBehind`), exact (`SwapExact`), never absent, nothing stale skipped, converging, gone when removed? | a built-in and a custom list of at most two lines, cron on a worker and administrator on the server, chunks of one; one edit with two failing statements and a restart, two without; one sync without the lock; a custom feed added with two failing statements, edited once more with one, or twice more with a restart | 390 000 |
| `assessment` | are listed identities found (`AliasesShareFate`, `StoppedAtTheDoor`), and clients in listed ranges in any notation, whichever are fetched (`ListedRangesFound`); bursts and failures counted (`BurstCaught`, `FailuresCounted`), look-ups bounded, honest and finite (`RateBounded`, `OnlyWhatWasTold`, `LookupsReturn`), card verdicts told (`ChecksWereTold`), and does evidence never help (`WorseNeverHelps`)? | two rejections of aliases, three rows, a failing statement; IPv4 of 3 and IPv6 of 5 bits and every prefix length, every range in every form on either list, alone, with a row of a feed and with further ranges; three orders in a day of two hours, the second with its host's address in either form; failing questions for the guard's table and failing counts; two askers, two tokens; all pairs of payments; three doubts on three configurations | 806 000 |
| `console` | are settings stale for a bounded time only and thresholds in order, is a licence in force after a restart, do screens keep track and polls end, do texts stay in their channel, do customers hear what happened, and does every request end? | two processes, a save and a failing query; two licence keys; two answers overtaking, values beyond bounds; an administrator, the cron and the guard with one webhook | 187 000 |

Runs that show where the code and its documentation or tests disagree:

| run | what TLC finds |
|---|---|
| `gate_as_documented` | the README's snippet asks "held?" and then "assessed?"; case and log row written between the answers let a held order through |
| `overlapping_decisions` | two requests read "pending"; the second overwrites the first one's decision |
| `swap_cut_short` | a sync dies between deleting the live rows and renaming the staged ones; the next one deletes the staged rows first, and an address that never left the list is not found |
| `failed_refund` | Vendure answers a refund whose payment handler failed with a refund in state "Failed", not with an error code; the code takes it for made, logs it so, and the money stays |
| `mapped_hosts` | of three orders from one host the second came with its address in the mapped form; the counts compare the normalised address with the column as written and leave it out, and a limit is passed without the signal |

### Bounds, and why they are enough

Two deliveries of one order are what every race between two handlers needs, and
both kinds of event (first and second delivery) are among them; `burst` has two
slots and four events, so that a queue of two, a hand-over to a waiter and a
late delivery occur at once. Two resolvers are what every race of a decision
needs. One failing statement and one restart can come at any step, in any order.
Two payments let one be settled and the other authorized, or one refund succeed
and the other fail, on a snapshot that either has left behind.
A list of two lines with chunks of one makes every loop of the swap run twice,
so it can be cut in its middle. `feed_sync` edits the list once where a
sync may be cut, and twice where none is, because a list that is edited back after a
cut is a finding (4); more row ids
than `MaxRows` are never in use at once, so that bound cuts nothing off (a
larger one gives the same states). `Scenarios` combines troubles so that each pair
the code has to survive occurs, rather than all at once.

Address widths of 3 and 5 bits with octets of 2 have every prefix length from
none to all bits, one octet boundary that the narrowing query looks at, and
mapped addresses at their end. A limit of two ranges (`RangeLimit`, 2000 in the
code) with three rows is reached and passed; a first row may be any range, the rows
after it are of `Crowd`, a range in two notations that is a candidate for every
IPv4 client or for some. Hosts come in the plain form and one of three orders in the
mapped one too, which is what a count needs to go wrong by one. Limits of two and three an hour are passed by
three orders; the day is longer than the hour so that an order may leave the one
window and stay in the other. A bucket of two tokens can be empty, refilled and
full; two askers of one address are what a shared answer needs. Clocks end
(`LastMoment`, `LastTick`) after every window has passed once. Three doubts reach
each level from the one below. In `console`, two answers under way are what
overtaking needs (`MaxLoads`, `MaxAsked`, `MaxClicks`), and `LastTick` lets a memo
end, be filled and end again.

Configurations that switch the deadlock check off belong to systems that really
stop: all events handled, nothing pending, every clock at its end, no clicks left.

### Fairness

* Handlers and woken waiters (`GuardFairness`) are weakly fair: the event loop
  returns to a promise that is settled. It supposes that statements and
  look-ups are answered or fail; ip-intel.ts:53 is a place where a response cut
  off in its body might do neither, and is in the hazard list.
* A started decision is carried on and the auto-release recurs
  (`ResolutionFairness`): `@Cron(EVERY_HOUR)`.
* A rejection goes on when Vendure has answered, refused or thrown (`RejectOrder`).
* A look-up is answered or meets its deadline (`Assessment`): the requests have
  `timeout` and the MX query a race against a timer. The body of a response is
  covered by the same timer there; in the fetch of a feed it is not (4).
* The screen's timers fire, and the browser ends every request with an answer or
  an error. That a purchase is told to be installed is strongly fair: it may be
  disabled while a poll is under way, but the server does not forget it. The
  actors of `CustomerMessages` go on when a statement, server or timer has answered.
* A started sync is carried on; the nightly `@Cron` comes round, strongly fair in
  starting, because an administrator's sync may disable it again and again but
  not at every night's moment.
* Nothing is assumed of customers, administrators, list owners, failures or
  restarts.

## 4. Findings without a run

Seen while modelling; each can be reproduced with the models or read off the code.
Runs are kept for five disagreements; these are close relatives of them or
concern text and routes, which are no state.

Gate and decisions:

* `heldOrderIds` answers the empty set when its query fails (service 1132), and a
  rejected order ships: set `HeldQueryMayFail` in `concurrent`.
* Two deliveries look for an open case before either inserts one: two cases.
  A statement that throws in a handler leaves the order without a log row for
  good; nothing retries it.
* With a worker beside the administrator, the auto-release overwrites a rejection
  written since it read the case, and the order ships. The retention cron may
  delete an order's only log row and so turn `isAssessed` false again.
* Mode "off" does write log rows, which src/README.md:116, order-guard.ts:13,
  service 278 and the screen's status sentence (component 1878) deny and
  src/README.md:236 affirms.
* An order that is already cancelled is answered `cancelled: true` without refunds
  or warnings; a rejection without cancelling tells the team "see warnings" when
  there are none; a statement that fails after the refunds leaves no log row;
  `blocklistCaseIdentity` throwing ends the request before the team is told.

Feeds:

* A sync that dies between swap and hash, after which the list is edited back,
  keeps the wrong rows: the old hash matches. The sync of a single source takes
  neither flag nor lock; it can rename a full sync's staged rows and, if its process
  dies then, leave two copies of one line, which pass the count for two lines.
* `POST lists/sync` (controller 572) is declared after `POST lists/:list`
  (controller 490): the screen's sync buttons (component 2131-2160) reach
  `addEntry` with list "sync" and get 400. The end-to-end test asks only what an
  unauthenticated caller gets. `POST feeds/custom/:id` with `sync` does work.
* `removeCustomFeed` leaves the staged rows of an interrupted sync, which the scoring
  reads like any other, and the feed's state: a removed feed then goes on blocking.
  `RemovedFeedLeaves` is stated of live rows, and of all rows if no sync was cut
  short. Removed during a sync, the feed's rows stay for good. A status update
  that fails twice throws out of `syncAll` and ends the other feeds' sync. A change
  of a feed's list type with unchanged content is skipped: rows keep the old type.
  `fetchUrl` has no end for a body that stops coming; flag and lock stay held.
* Two quick clicks on a feed's switch show the opposite of what is stored.

Scoring and lists:

* The e-mail count takes only the written and the canonical address, so aliases
  x+2 do not count for x+1 (service 772). An allowlisted dotted or tagged address is
  stored canonical and looked up as written (service 1476, 1029). The daily value
  counts the order twice (service 778-790).
* Duplicate rows add a signal each, up to three (60 to 120), and removing one leaves
  the address blocked; `blocklistCaseIdentity` compares the raw value with stored
  canonical ones and so makes duplicates.
* The narrowing query passes over IPv4 ranges wider than /8 and, for IPv4 clients,
  ::/0-like ones and mapped ranges that are spelled out (`0:0:0:0:0:ffff:...`), although
  net-util.ts:102 says that an entry matches "however the socket happened to report
  the client"; `ListedRangesFound` is stated for the others (`PassedOver`). It fetches 2000
  ranges in no order (service 724, 727, 1047-1048): with as many candidates without the client,
  and for IPv6 every IPv6 range is a candidate, the one with it may be missed. A list
  query that fails answers nothing, and a listed identity passes (701, 711, 729, 1035, 1041, 1050).
  Mapped addresses in hexadecimal are not normalised. A disposable domain that a feed lists scores 45
  instead of 50. A returning customer at a new address may fall below review.
* A question for the guard's table that fails is remembered as "no table" for ten
  minutes, and a count that fails is 0 (service 1345, 1364): failures in an old table
  are missed. `FailuresCounted` excepts both.
* The bucket may let 80 requests through in a minute, not 45 (ip-intel.ts:42); the
  negative cache is never emptied, the MX memory not when a domain has no servers.
* Metadata with any verdict keeps Stripe from being asked for the rest.

Licence, messages, screen:

* `deactivateRuntimeLicence` drops a key of the environment too, which
  controller 183 and plugin.ts:99 deny. A worker hears of an activation when it
  restarts; a status is verified when a process boots.
* The mail "held" starts after the webhooks and two reads of settings: an approval
  in between is told first, and the customer then hears that the order is held.
  Approving a case without an address tells the team nothing (controller 331). The
  cron tells customers whatever `notifyOnApproval` says. A failing read of the
  notification settings memoises "tell" for 30 s.
* The purchase poll may start again after the screen is left, by a late answer;
  texts of one channel may be shown and saved under another when their answer comes
  late; another case's decision may begin while one is under way; the panel
  shows the previous order's assessment after an error; a failed save followed by a
  reload clears the mark of unsaved edits. `reviewHours` of 0 is stored as 24
  (service 656) and shown as 0; a threshold beyond its bounds is stored within them (619-628)
  and shown as typed, under "All changes saved" (component 1045, 1890-1896). The properties of `console` are stated
  for what the code does guarantee beside these.

## 5. What is proved

TLAPS proves, for all values of the constants under the modules' named
assumptions:

| module | theorem | statement |
|---|---|---|
| `FraudPreventionProofs` | `Invariance` | `Spec => []IInv` |
| | `TypeCorrect` | `Spec => []TypeOK` |
| | `CaseComesFirst` | `Spec => []CaseBeforeLog` |
| | `OnlyClearedReleased` | if the gate asks "assessed?" first and the query of held orders does not fail, `Spec => []ReleasedWereCleared` |
| | `SlotsAreAccounted` | `GuardSpec => []SlotsAccounted` |
| | `NoWakeupIsLost` | `GuardSpec => []NoLostWakeup` |
| | `DecisionsAreLogged` | `Spec => []AuditTrail` |
| | `RejectionsHold` | if calls take turns, `Spec => []RejectedStayHeld` |
| | `FirstDecisionStays` | if calls take turns, `Spec => DecisionFinal` |
| | `KeepsThePromise` | if calls take turns and the gate is asked as in `OnlyClearedReleased`, `Spec => ImplementsHoldPolicy` |
| `RejectOrderProofs` | `OutcomesAreTold` | `Spec => []OutcomeTold` |
| | `NoMoneyUnmentioned` | `Spec => []NothingLeftUnsaid` |
| `FeedSyncProofs` | `Invariance` | `Spec => []IInv` |
| | `TypeCorrect` | `Spec => []TypeOK` |
| | `MutualExclusion` | `Spec => []OneSyncAtATime` |
| | `GuardsAreLetGo` | `Spec => []NoGuardLeftBehind` |
| | `SwapsAreExact` | `Spec => []SwapExact` |
| | `NeverMissing` | `Spec => []NeverAbsentUncut` |
| | `RemovedFeedsLeave` | `Spec => []RemovedFeedLeaves` |
| | `SkipsAreRight` | `Spec => []SkipIsRightLocked` |
| `ListsProofs` | `AliasesAreCaught` | `Spec => []AliasesShareFate` |
| | `RejectionsAreListed` | `Spec => []RejectedAreListed`: a rejection that has ended has listed the identity |
| | `RangesAreFound` | `Spec => []ListedRangesFound` |
| `ScoringProofs` | `RejectedIdentitiesStop` | `Spec => []StoppedAtTheDoor` |
| | `SuspicionOnlyAdds` | if every configuration is graded, `Spec => WorseNeverHelps` |
| | `ChecksAreTold` | `Spec => []ChecksWereTold` |
| `AssessmentProofs` | `BucketHolds` | `Spec => []RateBounded` |
| | `NothingMadeUp` | `Spec => OnlyWhatWasTold` |
| | `BurstsAreCaught` | `Spec => BurstCaught` |
| | `FailuresAreCounted` | `Spec => FailuresCounted` |
| `ConsoleProofs` | `ThresholdsStayOrdered` | `Spec => []ThresholdsOrdered` |
| | `ReadsAreRecent` | `Spec => []StaleForBoundedTime` |
| | `LicenceSurvives` | `Spec => []SurvivesRestart` |
| | `ScreensAreTrue` | `Spec => []ScreensKeepTrack` |
| | `WordsArePosted` | `Spec => WordsStayInChannel` |
| | `CustomersHearTheTruth` | `Spec => []ToldWhatHappened` |

### Assumptions

About constants: there are finitely many events, payments and lines of lists;
administrators and crons are different callers; the guard's slots, chunks, batches,
capacities and amounts are positive, as the code's constants and Vendure's
payments are; limits on orders are natural numbers. Names that the code cannot confuse are told apart (`NoSource` is no
source, feed rows are not "manual", a warning about a payment is not "threw", a
refund made by hand is not a call's). The memory of an answer lasts longer than
no time (`IntelTtl`, `MxTtl`: 30 days and 24 hours). There is a default channel
(`Shops # {}`). An octet is not wider than an IPv4 address, and that is narrower than an
IPv6 one; what stands before a mapped address fits in the difference. The rows that
feeds bring are finitely many, and the value of a row for a range has a base and a prefix
length; the base may be anything, a text that is no address included (`bad`), because the
parser of the feeds does not refuse it. A query of ranges answers one at least (`RangeLimit`),
the memory of the guard's table lasts longer than no time (`GuardMemory`), and what is
listed after a first range is a range an administrator may type (`Crowd`). An order's
payments, and the places where metadata may tell something, are sequences, and there
is a place for AVS. TLC evaluates each assumption on the runs.

`SuspicionOnlyAdds` is about configurations that are `Graded`: weights are integers
and none but the returning customer's is negative, a lighter form of a signal does not
weigh more than the heavier one that takes its place (warm and hot velocity, hosting
and VPN, postcode and country, elevated and highest), limits are integers. `DefaultIsGraded`
proves it of the default; a shop may set weights for which the statement is false.

Three theorems say "calls take turns" (`OneAtATime`: there is at most one resolver,
so its calls follow each other). The run `overlapping_decisions` shows what two do.
The two other hypotheses are `SafeGate`; the run `gate_as_documented` shows that the
order of the questions is needed, and without a query that answers the gate
opens (4).

`SkipIsRightLocked` is about lists that are changed once at most, or as often as one
likes if no sync is cut short. Without that it is false: a sync that dies
between swap and hash, after which the list is changed back, leaves a hash that fits and rows
that may be as many (4).

### Arguments

**The composition.** `ReleasedWereCleared` is not inductive: to know
that the order about to be released was cleared, one has to know that an order
which passed "assessed?" and is not held has a case that was approved, or has a
verdict that let it through. That is `AskedInv` with `Accounted`, and it needs: log
rows tell the truth about verdicts and a held verdict's row comes with a case
(`LogInv`); a handler reaches its log statement with a case in the table if its
verdict holds (`HandlerInv`); cases are never deleted and approved ones are in
`decided` (`CaseInv`); the waiter that `Resume` starts has not been scored
(`QueueInv`). `IInv` is the conjunction. The module proves that
`Init` implies it (`InitIInv`) and that each component's steps, pruning and restarts
preserve each part; each part has a lemma of its own.

**The semaphore.** That a woken waiter increments the counter without
looking at it again is safe only if its slot is still promised to it. `SlotInv`
counts such slots: `Claimed` is the handlers in flight and one more while `woken`
names a waiter. It never passes the limit, and equals it while somebody waits, which
is more than `NoLostWakeup` says and inductive. Lemmas about cardinalities say how
the set of handlers in flight changes when one enters or leaves it.

**Decisions and the promise.** `DecisionInv` stands on `IInv`. `FreshInv`: a handler
that may still insert a case has inserted none, so an insert never covers a decision.
`TrailInv`: a call past its update has left its decision in `decided`, so a log row
names something that was decided, whoever overlaps; this gives `AuditTrail` for any
number of resolvers. `TurnsInv` says what only calls that take turns know: between
read and update the case stays pending, and so each decision ever written is still
its case's status. `KeepsThePromise` then maps each step: a verdict that lets an
order through and an approval are `Clear`, a rejection is `Reject`, a release is
`Release`, whose guard is `ReleasedWereCleared` and `RejectedStayHeld` at the moment
of the step; every other step, restarts and pruning included, is a stutter.

**A rejection.** `RejectInv` follows a call through its loops. `OutcomeKept`: what the
call refunded is what it believes, save for one refund of a call in which Vendure
threw, and such a call does nothing after that but write its row. `SnapshotKept`: what
was due of a payment at the snapshot is at least what is outstanding, although
others refund meanwhile, because nobody takes a refund back. `NothingSkipped`: what
is no longer on the list is voided, repaid or has a word on it. Outstanding money is
an amount less a sum over a set of refunds; the library folds such a sum by
removing one element after the other. What the proof needs of it (that an added
refund adds its total, and that a sum over fewer refunds is not larger) is proved
in `NumberLemmas` from the fold's definition by taking a smallest finite set for
which it fails; `ScoringProofs` uses the same lemmas for the sum of weights.

**Feeds.** `GuardInv`: whoever is on the way after the lock holds it, so there is one
of them. `PickInv`: rows picked for a chunk still are what they were picked for when
the statement reaches the table, or are gone. `SwapInv` says for each place of the
swap which staged and live rows there are, and that each line has one row: exactly
the lines staged so far, then all of them, then all of them whatever part of them
has been renamed. It is stated for sources that nobody removed or edited during
their sync (`tangled`) and as long as nobody syncs without the lock (`Locked`); the
findings (4) are why. `CoreInv` says that a line that never leaves the list is live
outside a swap of its source; `SwapInv` has it staged inside.
`RemovalInv`: a feed that is removed, or about to be, is nobody's source, and has no live
rows. `IInv` is their conjunction with `TypeOK` (in which ids are unique) and `JobInv`;
of the module's actions, each has a lemma. `StagingInv` stands on it: unless a sync was
cut short, rows under a staging key are the work of somebody who is staging or
swapping that source, so a removed feed has none.

**Skipping a list.** A sync that skips a list trusts a hash and a number of rows.
`SkipInv`, which stands on `IInv`, says why that is enough: the live rows are *within*
the hashed lines, one each (`Within`), and then as many rows as lines are all the
lines. As long as nothing was cut short that holds of every source except while it is
swapped (`UncutInv`). If syncs may be cut, hash and rows may be of different lists; `ChangeInv`
says that while a list has been changed once at most they still are not in the way of each
other: before the change everything is of the one list; after it, whoever still holds
the old lines finds no row and no hash of the new ones, and a hash of the new ones
has their rows beside it. `HalfInv` follows the swap, for removed feeds
too, whose rows `SwapInv` leaves open; `AbsentInv` says that a feed that is added
begins without rows, which the other parts need when its list is first set.
A step either keeps or removes live rows or promotes the lines of the one sync at
work (`Follows`, `RowsFollow`), and `FollowKeeps` shows once that such a step
preserves every part.

**Lists.** `RowsInv`: a row written by hand is canonical, by whichever of the two
ways it came. Canonical forms of two addresses are equal if one person reads them, so the
exact comparison of the scoring finds all of them. `RequestInv` follows a rejection:
what it has to list is in the table or on its list of things to do, unless an
administrator removed rows meanwhile.

**Ranges.** `RangesInv`: whatever adds rows adds ranges only as ranges. The rest is about
numbers. Powers of two are a recursive function, whose equations are proved by a
smallest counterexample (`PowerIs`, `PowerOfSum`, monotonicity); clearing the last bits of
a number, by shifts whose count wraps at the width, is subtracting a remainder, and two
numbers have the same first bits exactly if one lies in the block of numbers of the other
(`SamePrefixIs`, `ExtentIs`). A block of a mapped address is the block of the address,
shifted; so each pair of notations comes to one comparison (`InRange`). `IsCandidate` shows
that a range around a client is a candidate, unless it is `PassedOver`: in a block of
at least an octet all numbers have the same first octet. Which candidates are fetched is
open; `EnoughFetched` counts: either all are, or as many as the limit, and these
cannot all be among the fewer that do not contain the client.

**Scoring.** The score is the sum of weights over the signals raised, clamped to 0 and 100.
Signals are followed rule by rule (`ByIdentity`, `ByVelocity`, and so on): each thing that
`Worse` may add to what is known raises all that was raised before, or puts a signal that
weighs no less in the place of one that it excludes (`HeavierSignals`, `WorseWeighsMore`).
For `StoppedAtTheDoor`, whatever ranges were fetched, the query of mailboxes answers
at most three rows of the mailbox and its domain:
if the mailbox is listed, one of them is its row or all three are the domain's (`HitsTell`).
These, or the network address, weigh 55 at least; the credit of up to two settled orders, the
only negative weight that can be in the sum, takes 12 away (`RowsCount`), and a review begins at 40.

**Card checks.** `CardInv`: the verdicts are what `ResolveAvsForOrder` makes of the payments
that the behaviour is about. "The first of a sequence that" is a library operator over a
least index; `LeastIs` and a lemma for each of its uses (`FirstPresentIs`, `FirstUsableIs`)
say that it is one of the sequence, and that those before it are not wanted. The theorem
then follows a verdict back from the resolver, the metadata or the charge to its place.

**Look-ups.** `BucketInv` counts from any request on: the requests since, with the
tokens left, fit in a full bucket and what it gained until its last refill.
`RateBounded` says nothing of tokens and is not inductive. `ToldInv`: each row of the
table, each entry of the memory and each answer about to be stored was told, and
not before its time stamp; so what is served within its lifetime was told within it.

**Counts.** `BurstInv` is about the moment at which an order was placed. Until the
clock moves on, each of its queries sees every order up to it that came with the very
address it is assessed under, whoever is counting or placed meanwhile, so each number
it has so far is at least its burst's (`Caught`); after that, nothing is claimed.
`FailureInv`: the guard's failures are younger than its table, and a remembered answer
that there is no table is older than the table, or is that of a question that
failed; so, when the answer is still trusted, the table is younger than the memory or a
question failed within it. These, and a count that fails in the step itself, are the
exceptions `FailuresCounted` makes.

**Settings.** `ConfigInv` says that what is ordered is: every version of the row that
was ever written, what each memo remembers, what a read was answered and what a save
is about to write. `NormalisedOrdered` shows that any form becomes ordered,
`MeantOrdered` that reading an ordered row, or none, gives ordered settings.
`StaleInv` adds ages: what is in a memo was the row's, or the default for a failed
query, between the moment it was asked for and the moment it was remembered
(`AgeInv`); versions are ended but not taken away (`AnswersStay`), so it stays true.

**Licence.** `LicenceInv`: as long as none of the exceptions of `SurvivesRestart` has
happened, stored key and key in force are in step, or one request, or the boot, is
on its way to bring them in step (`InStep`).

**Screen, panel, texts.** `ScreensInv` says for each what the flags of the component
know of the requests in flight: at most one timer and it is named; a case that was
sent is the busy one or has been excepted; edits that differ from what is stored, and
were not brought within bounds by a save, are the current ones and are marked; answers under way are for the order shown. In
`Tracked` at most one load is under way, for the chosen channel, unless loads have
overtaken each other.

**Messages.** `MessagesInv` is `ToldWhatHappened` with what makes it inductive: whoever
is past its decision has a decision that was written, and the words of the
moment count for it (`HeardInv`); who is before it has sent nothing.

### Only model-checked

* All liveness, which is out of the prover's reach: `WaitersServed`,
  `AssessedUnlessCut`, `StaleCasesReleased`, `RejectionsConclude`, `Converges`,
  `LookupsReturn`, `PollsEnd`, `EachAnswers`.

Every invariant that a passing run checks has a theorem.

## 6. What is not modelled

Left out: the rendering of mails and their variables and the pool of SMTP
connections (text and I/O); the parsing of a feed's lines and the redirects of its
fetch; the licence kit (signatures, heartbeat, revocation: another package);
statistics, digest and customer profile (read-only aggregates); `simulate`, which is
`assess` on typed input; the schema set-up (runs once before anything else);
tables, charts, previews and the editor of the screen. A Vendure service, Stripe,
ip-api, DNS, mail servers and webhooks are the outcomes the code distinguishes.
