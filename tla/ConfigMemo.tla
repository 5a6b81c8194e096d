----------------------------- MODULE ConfigMemo -----------------------------
(***************************************************************************)
(* The settings of a channel and those of the notifications: one row each  *)
(* in the database or none, read through a memo that every process keeps   *)
(* for itself.  A save forgets the memo of its own process and then writes *)
(* the row; what was typed is bounded in the one, taken as it is in the    *)
(* other.                                                                  *)
(***************************************************************************)
EXTENDS Integers

CONSTANTS Processes,   \* servers and workers
          Readers,     \* reads that may overlap
          HomeOf,      \* the process of each read
          Forms,       \* what an administrator may send of a channel
          Bodies,      \* and of the notifications
          Ttl,         \* 30 seconds, in ticks
          QueryTime,   \* bound: ticks until a query is answered
          LastTick,    \* bound: the clock
          MaxSaves, MaxQueryFaults \* bounds

ASSUME MemoAssumption ==
    /\ HomeOf \in [Readers -> Processes]
    /\ Ttl \in Nat /\ QueryTime \in Nat /\ LastTick \in Nat
    /\ MaxSaves \in Nat /\ MaxQueryFaults \in Nat
    /\ \A form \in Forms : form.review.n \in Int /\ form.block.n \in Int

Keys == {"config", "notif"} \* the row of the channel, the row of notifications

VARIABLES clock,
          settingRow, \* the row of each key, with the times it was written
          memo,       \* what each process remembers of each key, and since when
          reading,    \* where each read is
          saving,     \* the save under way, on the server
          memoTrouble \* the row a behaviour is about (they share nothing), saves and failed queries so far

memoVars == <<clock, settingRow, memo, reading, saving, memoTrouble>>

-----------------------------------------------------------------------------
(* What saveConfig makes of a form.  A number is finite or not.            *)

Num(v, default, lo, hi) ==
    IF ~v.finite THEN default
    ELSE IF v.n < lo THEN lo ELSE IF v.n > hi THEN hi ELSE v.n

ModesKnown == {"off", "monitor", "enforce"}

\* Mutant: bounded, and not compared.
NormalisedApart(c) ==
    [mode   |-> IF c.mode \in ModesKnown THEN c.mode ELSE "monitor",
     review |-> Num(c.review, 40, 0, 100),
     block  |-> Num(c.block, 70, 0, 100)]

Normalised(c) ==
    LET review == Num(c.review, 40, 0, 100)
        block  == Num(c.block, 70, 0, 100)
    IN [mode   |-> IF c.mode \in ModesKnown THEN c.mode ELSE "monitor",
        review |-> IF review > block THEN block ELSE review,
        block  |-> block]

NoRow == [kind |-> "no row"]

DefaultConfig == [mode |-> "monitor", review |-> 40, block |-> 70]

\* What a row of fraud_config stands for; one that is missing, for the default.
RowToConfig(row) ==
    IF row = NoRow THEN DefaultConfig
    ELSE [row EXCEPT !.mode = IF @ \in ModesKnown THEN @ ELSE "monitor"]

\* The row of notification settings: an empty address stands for the default one.
LoadNotificationConfig(row) ==
    IF row = NoRow THEN [address |-> "default", tell |-> TRUE]
    ELSE [row EXCEPT !.address = IF @ = "" THEN "default" ELSE @]

Meant(k, row) == IF k = "config" THEN RowToConfig(row) ELSE LoadNotificationConfig(row)

-----------------------------------------------------------------------------
NoMemo == [at |-> -1, value |-> NoRow]
Idle   == [at |-> "idle", key |-> "none", value |-> NoRow, since |-> 0]

MemoInit ==
    /\ clock = 0
    /\ settingRow = [k \in Keys |-> {[value |-> NoRow, from |-> 0, to |-> LastTick]}]
    /\ memo = [p \in Processes |-> [k \in Keys |-> NoMemo]]
    /\ reading = [r \in Readers |-> Idle]
    /\ saving = Idle
    /\ memoTrouble \in [key : Keys, saves : {0}, faults : {{}}]

\* The row as it is now: the version that nothing has ended yet.
Current(k) == (CHOOSE v \in settingRow[k] : v.to = LastTick).value

(* Time passes; a query that was sent is answered before it is too old.    *)
PassTime ==
    /\ clock < LastTick - 1
    /\ \A r \in Readers : reading[r].at = "asked" => clock < reading[r].since + QueryTime
    /\ clock' = clock + 1
    /\ UNCHANGED <<settingRow, memo, reading, saving, memoTrouble>>

Remembers(p, k) == memo[p][k].at >= 0 /\ clock - memo[p][k].at < Ttl

\* Mutant: a value that is used stays fresh.
ReadMemoSliding(r, k) ==
    /\ reading[r].at # "asked"
    /\ Remembers(HomeOf[r], k)
    /\ memo' = [memo EXCEPT ![HomeOf[r]][k].at = clock]
    /\ reading' = [reading EXCEPT ![r] =
          [at |-> "read", key |-> k, value |-> memo[HomeOf[r]][k].value, since |-> clock]]
    /\ UNCHANGED <<clock, settingRow, saving, memoTrouble>>

(* A read finds the value in its memo ...                                  *)
ReadMemo(r, k) ==
    /\ reading[r].at # "asked"
    /\ Remembers(HomeOf[r], k)
    /\ reading' = [reading EXCEPT ![r] =
          [at |-> "read", key |-> k, value |-> memo[HomeOf[r]][k].value, since |-> clock]]
    /\ UNCHANGED <<clock, settingRow, memo, saving, memoTrouble>>

(* ... or asks the database; the answer to a query that fails is the       *)
(* default.                                                                *)
AskRow(r, k) ==
    /\ reading[r].at # "asked"
    /\ ~Remembers(HomeOf[r], k)
    /\ \/ /\ reading' = [reading EXCEPT ![r] =
                [at |-> "asked", key |-> k, value |-> Meant(k, Current(k)), since |-> clock]]
          /\ UNCHANGED memoTrouble
       \/ /\ memoTrouble.faults = {} /\ MaxQueryFaults > 0
          /\ memoTrouble' = [memoTrouble EXCEPT !.faults = {[key |-> k, at |-> clock]}]
          /\ reading' = [reading EXCEPT ![r] =
                [at |-> "asked", key |-> k, value |-> Meant(k, NoRow), since |-> clock]]
    /\ UNCHANGED <<clock, settingRow, memo, saving>>

(* The answer is remembered from its arrival on.                           *)
Remember(r) ==
    /\ reading[r].at = "asked"
    /\ memo' = [memo EXCEPT ![HomeOf[r]][reading[r].key] = [at |-> clock, value |-> reading[r].value]]
    /\ reading' = [reading EXCEPT ![r] =
          [at |-> "read", key |-> @.key, value |-> @.value, since |-> clock]]
    /\ UNCHANGED <<clock, settingRow, saving, memoTrouble>>

(* A save forgets the key, on this process only ...                        *)
Forget(p, k, row) ==
    /\ k = memoTrouble.key
    /\ saving.at = "idle"
    /\ memoTrouble.saves < MaxSaves
    /\ memoTrouble' = [memoTrouble EXCEPT !.saves = @ + 1]
    /\ saving' = [Idle EXCEPT !.at = "writing", !.key = k, !.value = row]
    /\ memo' = [memo EXCEPT ![p][k] = NoMemo]
    /\ UNCHANGED <<clock, settingRow, reading>>

SaveConfig(p) == \E form \in Forms : Forget(p, "config", Normalised(form))

SaveNotificationConfig(p) == \E body \in Bodies : Forget(p, "notif", body)

(* ... and writes the row, or the statement throws.                        *)
WriteSetting ==
    /\ saving.at = "writing"
    /\ \/ settingRow' = [settingRow EXCEPT ![saving.key] =
             {IF v.to = LastTick THEN [v EXCEPT !.to = clock] ELSE v : v \in @}
             \cup {[value |-> saving.value, from |-> clock, to |-> LastTick]}]
       \/ UNCHANGED settingRow
    /\ saving' = Idle
    /\ UNCHANGED <<clock, memo, reading, memoTrouble>>

MemoNext(server) ==
    \/ PassTime
    \/ \E r \in Readers : Remember(r) \/ ReadMemo(r, memoTrouble.key) \/ AskRow(r, memoTrouble.key)
    \/ SaveConfig(server) \/ SaveNotificationConfig(server)
    \/ WriteSetting

-----------------------------------------------------------------------------
(* What a read answers was the row at a moment not longer ago than the     *)
(* memo is kept and a query takes, whatever is saved meanwhile and in      *)
(* whatever order answers come back; or a query has failed since then, and *)
(* it is the default ("Small in-process memo for read-mostly rows",        *)
(* fraud-prevention.service.ts:600).                                       *)
StaleForBoundedTime ==
    \A r \in Readers : reading[r].at = "read" =>
        LET oldest == reading[r].since - (Ttl + QueryTime)
            k      == reading[r].key
        IN \/ \E v \in settingRow[k] :
                 Meant(k, v.value) = reading[r].value /\ v.from <= reading[r].since /\ v.to >= oldest
           \/ /\ reading[r].value = Meant(k, NoRow)
              /\ \E f \in memoTrouble.faults : f.key = k /\ f.at >= oldest

(* Whatever was typed, and whichever of default and saved row is read, the *)
(* levels an order is put in do not overlap: one that would be blocked     *)
(* would be reviewed ("review must not sit above block",                   *)
(* fraud-prevention.service.ts:620).                                       *)
ThresholdsOrdered ==
    \A r \in {s \in Readers : reading[s].key = "config"} :
                       /\ reading[r].value.review <= reading[r].value.block
                       /\ {reading[r].value.review, reading[r].value.block} \subseteq 0..100

=============================================================================
