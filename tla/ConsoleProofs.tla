--------------------------- MODULE ConsoleProofs ---------------------------
(***************************************************************************)
(* Proofs about the console, for any processes, readers, forms, lifetimes  *)
(* of a memo, licence keys, purchases, channels, administrators, webhooks  *)
(* and requests in flight.                                                 *)
(***************************************************************************)
EXTENDS Console, TLAPS

-----------------------------------------------------------------------------
(* Thresholds.  What is read is a row or a memo, and what is there is the  *)
(* default or was bounded when it was saved.                               *)

Ordered(c) ==
    /\ c \in [mode : ModesKnown, review : 0..100, block : 0..100]
    /\ c.review <= c.block

OrderedRow(row) == row = NoRow \/ Ordered(row)

\* The shape of the state, as far as the steps rely on it.
MemoShape ==
    /\ settingRow = [k \in Keys |-> settingRow[k]]
    /\ \A v \in settingRow["config"] : v = [value |-> v.value, from |-> v.from, to |-> v.to]
    /\ memo = [p \in Processes |-> [k \in Keys |-> memo[p][k]]]
    /\ reading = [r \in Readers |->
          [at |-> reading[r].at, key |-> reading[r].key, value |-> reading[r].value, since |-> reading[r].since]]

ConfigInv ==
    /\ MemoShape
    /\ \A v \in settingRow["config"] : OrderedRow(v.value)
    /\ \E v \in settingRow["config"] : v.to = LastTick
    /\ \A p \in Processes : memo[p]["config"].at >= 0 => Ordered(memo[p]["config"].value)
    /\ \A r \in Readers : /\ reading[r].at = "asked" => reading[r].key \in Keys
                          /\ reading[r].key = "config" => Ordered(reading[r].value)
    /\ saving.key = "config" => Ordered(saving.value)

LEMMA NormalisedOrdered ==
  ASSUME NEW form \in Forms
  PROVE  Ordered(Normalised(form))
<1>1. form.review.n \in Int /\ form.block.n \in Int
  BY MemoAssumption
<1>2. Num(form.review, 40, 0, 100) \in 0..100 /\ Num(form.block, 70, 0, 100) \in 0..100
  BY <1>1 DEF Num
<1>3. (IF form.mode \in ModesKnown THEN form.mode ELSE "monitor") \in ModesKnown
  BY DEF ModesKnown
<1>4. QED
  BY <1>2, <1>3 DEF Normalised, Ordered

LEMMA MeantOrdered ==
  ASSUME NEW row, OrderedRow(row)
  PROVE  Ordered(Meant("config", row))
<1>1. Meant("config", row) = RowToConfig(row)
  BY DEF Meant
<1>2. CASE row = NoRow
  BY <1>1, <1>2 DEF RowToConfig, DefaultConfig, Ordered, ModesKnown
<1>3. CASE row # NoRow
  <2>1. (IF row.mode \in ModesKnown THEN row.mode ELSE "monitor") \in ModesKnown
    BY DEF ModesKnown
  <2>2. QED
    BY <1>1, <1>3, <2>1 DEF RowToConfig, OrderedRow, Ordered
<1>4. QED
  BY <1>2, <1>3

LEMMA CurrentOrdered ==
  ASSUME ConfigInv
  PROVE  OrderedRow(Current("config"))
BY DEF ConfigInv, Current

(* A read is answered by the memo ...                                      *)
LEMMA ReadMemoStep ==
  ASSUME ConfigInv, NEW r \in Readers, NEW k \in Keys, ReadMemo(r, k)
  PROVE  ConfigInv'
<1> USE DEF ConfigInv, MemoShape, ReadMemo
<1>1. HomeOf[r] \in Processes
  BY MemoAssumption
<1>2. k = "config" => Ordered(memo[HomeOf[r]][k].value)
  BY <1>1 DEF Remembers
<1>3. MemoShape'
  OBVIOUS
<1>4. \A s \in Readers : /\ reading'[s].at = "asked" => reading'[s].key \in Keys
                         /\ reading'[s].key = "config" => Ordered(reading'[s].value)
  BY <1>2
<1>5. QED
  BY <1>3, <1>4

(* ... or by the row, or by the default if the query fails, ...            *)
LEMMA AskRowStep ==
  ASSUME ConfigInv, NEW r \in Readers, NEW k \in Keys, AskRow(r, k)
  PROVE  ConfigInv'
<1> USE DEF ConfigInv, MemoShape
<1>1. PICK row : /\ row \in {Current(k), NoRow}
                 /\ reading' = [reading EXCEPT ![r] =
                       [at |-> "asked", key |-> k, value |-> Meant(k, row), since |-> clock]]
  BY DEF AskRow
<1>2. k = "config" => Ordered(Meant(k, row))
  BY <1>1, CurrentOrdered, MeantOrdered DEF OrderedRow
<1>3. UNCHANGED <<settingRow, memo, saving>>
  BY DEF AskRow
<1>4. MemoShape'
  BY <1>1, <1>3
<1>5. \A s \in Readers : /\ reading'[s].at = "asked" => reading'[s].key \in Keys
                         /\ reading'[s].key = "config" => Ordered(reading'[s].value)
  BY <1>1, <1>2
<1>6. QED
  BY <1>3, <1>4, <1>5

(* ... and the answer goes to the memo.                                    *)
LEMMA RememberStep ==
  ASSUME ConfigInv, NEW r \in Readers, Remember(r)
  PROVE  ConfigInv'
<1> USE DEF ConfigInv, MemoShape, Remember
<1> DEFINE home == HomeOf[r]
           k    == reading[r].key
<1>1. home \in Processes /\ k \in Keys /\ (k = "config" => Ordered(reading[r].value))
  BY MemoAssumption
<1>2. memo' = [memo EXCEPT ![home] = [memo[home] EXCEPT ![k] = [at |-> clock, value |-> reading[r].value]]]
  BY <1>1
<1>3. \A p \in Processes : memo'[p]["config"].at >= 0 => Ordered(memo'[p]["config"].value)
  BY <1>1, <1>2 DEF Keys
<1>4. memo' = [p \in Processes |-> [q \in Keys |-> memo'[p][q]]]
  BY <1>1, <1>2, ZenonT(60)
<1>5. \A s \in Readers : /\ reading'[s].key = reading[s].key /\ reading'[s].value = reading[s].value
                         /\ reading'[s].at = "asked" => reading[s].at = "asked"
  OBVIOUS
<1>6. MemoShape'
  BY <1>4
<1>7. QED
  BY <1>3, <1>5, <1>6

(* A save bounds what it is about to write.                                *)
LEMMA ForgetStep ==
  ASSUME ConfigInv, NEW p, NEW k \in Keys, NEW row, Forget(p, k, row), k = "config" => Ordered(row)
  PROVE  ConfigInv'
<1> USE DEF ConfigInv, MemoShape, Forget
<1>1. saving'.key = k /\ saving'.value = row
  BY DEF Idle
<1>2. memo' = [memo EXCEPT ![p] = [memo[p] EXCEPT ![k] = NoMemo]]
  OBVIOUS
<1>3. \A q \in Processes : memo'[q]["config"].at >= 0 => Ordered(memo'[q]["config"].value)
  BY <1>2 DEF Keys, NoMemo
<1>4. memo' = [q \in Processes |-> [j \in Keys |-> memo'[q][j]]]
  BY <1>2, ZenonT(60)
<1>5. QED
  BY <1>1, <1>3, <1>4

(* What was saved becomes the last version of the row, or stays unwritten. *)
LEMMA WriteSettingStep ==
  ASSUME ConfigInv, WriteSetting
  PROVE  ConfigInv'
<1> USE DEF ConfigInv, MemoShape, WriteSetting
<1>1. saving'.key # "config"
  BY DEF Idle
<1>2. CASE UNCHANGED settingRow
  BY <1>1, <1>2
<1>3. CASE settingRow' = [settingRow EXCEPT ![saving.key] =
             {IF v.to = LastTick THEN [v EXCEPT !.to = clock] ELSE v : v \in @}
             \cup {[value |-> saving.value, from |-> clock, to |-> LastTick]}]
  <2>1. CASE saving.key # "config"
    BY <1>1, <1>3, <2>1, ZenonT(60) DEF Keys
  <2>2. CASE saving.key = "config"
    <3> DEFINE new    == [value |-> saving.value, from |-> clock, to |-> LastTick]
               End(v) == IF v.to = LastTick THEN [v EXCEPT !.to = clock] ELSE v
    <3>1. settingRow'["config"] = {End(v) : v \in settingRow["config"]} \cup {new}
      BY <1>3, <2>2 DEF Keys
    <3>2. ASSUME NEW v \in settingRow["config"]
          PROVE  /\ End(v).value = v.value
                 /\ End(v) = [value |-> End(v).value, from |-> End(v).from, to |-> End(v).to]
      <4>1. v = [value |-> v.value, from |-> v.from, to |-> v.to]
        OBVIOUS
      <4>2. CASE v.to = LastTick
        <5>1. [v EXCEPT !.to = clock] = [value |-> v.value, from |-> v.from, to |-> clock]
          BY <4>1, SMTT(40)
        <5>2. QED
          BY <4>2, <5>1
      <4>3. CASE v.to # LastTick
        BY <4>1, <4>3
      <4>4. QED
        BY <4>2, <4>3
    <3>3. \A v \in settingRow'["config"] :
             /\ OrderedRow(v.value)
             /\ v = [value |-> v.value, from |-> v.from, to |-> v.to]
      <4> SUFFICES ASSUME NEW v \in settingRow'["config"]
                   PROVE  OrderedRow(v.value) /\ v = [value |-> v.value, from |-> v.from, to |-> v.to]
        OBVIOUS
      <4>1. CASE v = new
        BY <2>2, <4>1 DEF OrderedRow
      <4>2. CASE v # new
        <5>1. PICK u \in settingRow["config"] : v = End(u)
          BY <3>1, <4>2
        <5>2. QED
          BY <3>2, <5>1
      <4>3. QED
        BY <4>1, <4>2
    <3>4. new \in settingRow'["config"] /\ new.to = LastTick
      BY <3>1
    <3>5. settingRow' = [k \in Keys |-> settingRow'[k]]
      BY <1>3
    <3>6. QED
      BY <1>1, <3>3, <3>4, <3>5
  <2>3. QED
    BY <2>1, <2>2
<1>4. QED
  BY <1>2, <1>3

LEMMA MemoStep ==
  ASSUME ConfigInv, MemoNext(Server), memoTrouble.key \in Keys
  PROVE  ConfigInv'
<1>1. CASE PassTime
  BY <1>1 DEF PassTime, ConfigInv, MemoShape
<1>2. CASE SaveConfig(Server)
  BY <1>2, ForgetStep, NormalisedOrdered DEF SaveConfig, Keys
<1>3. CASE SaveNotificationConfig(Server)
  BY <1>3, ForgetStep DEF SaveNotificationConfig, Keys
<1>4. QED
  BY <1>1, <1>2, <1>3, ReadMemoStep, AskRowStep, RememberStep, WriteSettingStep DEF MemoNext

KeyInv ==
    /\ memoTrouble = [key |-> memoTrouble.key, saves |-> memoTrouble.saves, faults |-> memoTrouble.faults]
    /\ memoTrouble.key \in Keys

LEMMA KeyStays ==
  ASSUME KeyInv, MemoNext(Server)
  PROVE  KeyInv'
<1>1. CASE UNCHANGED memoTrouble
  BY <1>1 DEF KeyInv
<1>2. ASSUME NEW x, memoTrouble' = [memoTrouble EXCEPT !.faults = x] PROVE KeyInv'
  BY <1>2 DEF KeyInv
<1>3. ASSUME NEW x, memoTrouble' = [memoTrouble EXCEPT !.saves = x] PROVE KeyInv'
  BY <1>3 DEF KeyInv
<1>4. \/ UNCHANGED memoTrouble
      \/ \E x : memoTrouble' = [memoTrouble EXCEPT !.faults = x]
      \/ \E x : memoTrouble' = [memoTrouble EXCEPT !.saves = x]
  BY DEF MemoNext, PassTime, ReadMemo, AskRow, Remember, SaveConfig, SaveNotificationConfig, Forget, WriteSetting
<1>5. QED
  BY <1>1, <1>2, <1>3, <1>4

LEMMA ConfigInvInit == Init => ConfigInv /\ KeyInv
<1> SUFFICES ASSUME Init PROVE ConfigInv /\ KeyInv
  OBVIOUS
<1>0. MemoInit
  BY DEF Init
<1>1. KeyInv
  BY <1>0 DEF MemoInit, KeyInv
<1>2. MemoShape
  BY <1>0 DEF MemoInit, MemoShape, Keys, Idle
<1>3. settingRow["config"] = {[value |-> NoRow, from |-> 0, to |-> LastTick]}
  BY <1>0 DEF MemoInit, Keys
<1>4. /\ \A v \in settingRow["config"] : OrderedRow(v.value)
      /\ \E v \in settingRow["config"] : v.to = LastTick
  <2> DEFINE first == [value |-> NoRow, from |-> 0, to |-> LastTick]
  <2>1. first.value = NoRow /\ first.to = LastTick
    OBVIOUS
  <2>2. settingRow["config"] = {first}
    BY <1>3
  <2> HIDE DEF first
  <2>3. QED
    BY <2>1, <2>2 DEF OrderedRow
<1>5. \A p \in Processes : memo[p]["config"].at = -1
  BY <1>0 DEF MemoInit, Keys, NoMemo
<1>6. \A r \in Readers : reading[r].at = "idle" /\ reading[r].key = "none"
  BY <1>0 DEF MemoInit, Idle
<1>7. saving.key # "config"
  BY <1>0 DEF MemoInit, Idle
<1>8. QED
  BY <1>1, <1>2, <1>4, <1>5, <1>6, <1>7 DEF ConfigInv

LEMMA ConfigInvStep == ConfigInv /\ KeyInv /\ [Next]_vars => ConfigInv' /\ KeyInv'
<1> SUFFICES ASSUME ConfigInv, KeyInv, [Next]_vars PROVE ConfigInv' /\ KeyInv'
  OBVIOUS
<1>1. CASE MemoNext(Server)
  BY <1>1, MemoStep, KeyStays DEF KeyInv
<1>2. CASE UNCHANGED memoVars
  BY <1>2 DEF memoVars, ConfigInv, KeyInv, MemoShape
<1>3. QED
  BY <1>1, <1>2 DEF Next, Elsewhere, vars

(* However forms, defaults, failing queries, memos and rows mix, the       *)
(* thresholds that are read lie between 0 and 100 and do not cross         *)
(* (fraud-prevention.service.ts:620).                                      *)
THEOREM ThresholdsStayOrdered == Spec => []ThresholdsOrdered
<1>1. ConfigInv => ThresholdsOrdered
  BY DEF ConfigInv, ThresholdsOrdered, Ordered
<1>2. QED
  BY <1>1, ConfigInvInit, ConfigInvStep, PTL DEF Spec

-----------------------------------------------------------------------------
(* Staleness.  A value was the row's at a moment between two times, or is  *)
(* the default that a query answered that failed after the first of them.  *)

Answers(k, value, oldest, newest) ==
    \/ \E v \in settingRow[k] : Meant(k, v.value) = value /\ v.from <= newest /\ v.to >= oldest
    \/ /\ value = Meant(k, NoRow)
       /\ \E f \in memoTrouble.faults : f.key = k /\ f.at >= oldest

VersionsInv ==
    /\ settingRow = [k \in Keys |-> settingRow[k]]
    /\ \A k \in Keys : \A v \in settingRow[k] :
          /\ v = [value |-> v.value, from |-> v.from, to |-> v.to]
          /\ v.from \in Int /\ v.to \in Int /\ v.from <= clock
    /\ \A k \in Keys : \E v \in settingRow[k] : v.to = LastTick
    /\ \A f \in memoTrouble.faults : f.at \in Int
    /\ saving.at = "writing" => saving.key \in Keys

\* What is remembered and what is asked is no older than when it was asked.
AgeInv ==
    /\ clock \in Nat /\ clock <= LastTick
    /\ \A p \in Processes, k \in Keys :
          /\ memo[p][k].at \in Int /\ memo[p][k].at <= clock
          /\ memo[p][k].at >= 0 =>
                Answers(k, memo[p][k].value, memo[p][k].at - QueryTime, memo[p][k].at)
    /\ \A r \in Readers :
          /\ reading[r].since \in Int /\ reading[r].since <= clock
          /\ reading[r].at = "asked" =>
                /\ reading[r].key \in Keys
                /\ clock <= reading[r].since + QueryTime
                /\ Answers(reading[r].key, reading[r].value, reading[r].since, reading[r].since)
          /\ reading[r].at = "read" =>
                /\ reading[r].key \in Keys
                /\ Answers(reading[r].key, reading[r].value,
                           reading[r].since - (Ttl + QueryTime), reading[r].since)

StaleInv == ConfigInv /\ KeyInv /\ VersionsInv /\ AgeInv

\* Versions are ended, not taken away, and the times asked about are past.
LEMMA AnswersStay ==
  ASSUME NEW k, NEW value, NEW oldest \in Int, NEW newest \in Int,
         NEW older \in Int, NEW newer \in Int, older <= oldest, newest <= newer,
         Answers(k, value, oldest, newest),
         \A v \in settingRow[k] : v.from \in Int /\ v.to \in Int,
         \A v \in settingRow[k] : \E w \in settingRow'[k] :
            w.value = v.value /\ w.from = v.from /\ (w.to = v.to \/ (w.to \in Int /\ w.to >= oldest)),
         \A f \in memoTrouble.faults : f \in memoTrouble'.faults /\ f.at \in Int
  PROVE  Answers(k, value, older, newer)'
<1>1. CASE \E v \in settingRow[k] : Meant(k, v.value) = value /\ v.from <= newest /\ v.to >= oldest
  <2>1. PICK v \in settingRow[k] : Meant(k, v.value) = value /\ v.from <= newest /\ v.to >= oldest
    BY <1>1
  <2>2. PICK w \in settingRow'[k] : w.value = v.value /\ w.from = v.from /\ (w.to = v.to \/ (w.to \in Int /\ w.to >= oldest))
    OBVIOUS
  <2>3. w.from <= newer /\ w.to >= older
    BY <2>1, <2>2
  <2>4. QED
    BY <2>1, <2>2, <2>3 DEF Answers
<1>2. CASE /\ value = Meant(k, NoRow)
           /\ \E f \in memoTrouble.faults : f.key = k /\ f.at >= oldest
  <2>1. PICK f \in memoTrouble.faults : f.key = k /\ f.at >= oldest
    BY <1>2
  <2>2. f.at >= older /\ f \in memoTrouble'.faults
    BY <2>1
  <2>3. QED
    BY <1>2, <2>1, <2>2 DEF Answers
<1>3. QED
  BY <1>1, <1>2 DEF Answers

\* No step of the settings loses a version or a fault.
Preserved ==
    /\ \A k \in Keys : \A v \in settingRow[k] : \E w \in settingRow'[k] :
          /\ w.value = v.value /\ w.from = v.from
          /\ w.to = v.to \/ w.to = clock
    /\ \A f \in memoTrouble.faults : f \in memoTrouble'.faults
    /\ clock' \in Nat /\ clock <= clock' /\ clock' <= LastTick

LEMMA AnswersKept ==
  ASSUME StaleInv, Preserved, NEW k \in Keys, NEW value, NEW oldest \in Int, NEW newest \in Int,
         oldest <= clock, Answers(k, value, oldest, newest),
         NEW older \in Int, NEW newer \in Int, older <= oldest, newest <= newer
  PROVE  Answers(k, value, older, newer)'
<1>1. \A v \in settingRow[k] : v.from \in Int /\ v.to \in Int
  BY DEF StaleInv, VersionsInv
<1>2. ASSUME NEW v \in settingRow[k]
      PROVE  \E w \in settingRow'[k] :
                w.value = v.value /\ w.from = v.from /\ (w.to = v.to \/ (w.to \in Int /\ w.to >= oldest))
  <2>1. PICK w \in settingRow'[k] : w.value = v.value /\ w.from = v.from /\ (w.to = v.to \/ w.to = clock)
    BY DEF Preserved
  <2>2. clock \in Int /\ clock >= oldest
    BY DEF StaleInv, AgeInv
  <2>3. QED
    BY <2>1, <2>2
<1>3. \A f \in memoTrouble.faults : f \in memoTrouble'.faults /\ f.at \in Int
  BY DEF Preserved, StaleInv, VersionsInv
<1>4. QED
  BY <1>1, <1>2, <1>3, AnswersStay

(* What a process remembers, and where a read is, as long as the step does *)
(* not touch it.                                                           *)
MemoAged(p, k) ==
    /\ memo[p][k].at \in Int /\ memo[p][k].at <= clock
    /\ memo[p][k].at >= 0 =>
          Answers(k, memo[p][k].value, memo[p][k].at - QueryTime, memo[p][k].at)

ReadingAged(r) ==
    /\ reading[r].since \in Int /\ reading[r].since <= clock
    /\ reading[r].at = "asked" =>
          /\ reading[r].key \in Keys
          /\ clock <= reading[r].since + QueryTime
          /\ Answers(reading[r].key, reading[r].value, reading[r].since, reading[r].since)
    /\ reading[r].at = "read" =>
          /\ reading[r].key \in Keys
          /\ Answers(reading[r].key, reading[r].value,
                     reading[r].since - (Ttl + QueryTime), reading[r].since)

LEMMA MemoStays ==
  ASSUME StaleInv, Preserved, NEW p \in Processes, NEW k \in Keys, memo'[p][k] = memo[p][k]
  PROVE  MemoAged(p, k)'
<1>1. /\ memo[p][k].at \in Int /\ memo[p][k].at <= clock
      /\ memo[p][k].at >= 0 =>
            Answers(k, memo[p][k].value, memo[p][k].at - QueryTime, memo[p][k].at)
  BY DEF StaleInv, AgeInv
<1>2. clock \in Int /\ clock' \in Int /\ clock <= clock' /\ QueryTime \in Nat
  BY MemoAssumption DEF StaleInv, AgeInv, Preserved
<1>3. PICK at, value : at = memo[p][k].at /\ value = memo[p][k].value
  OBVIOUS
<1>4. at >= 0 => Answers(k, value, at - QueryTime, at)'
  <2>1. at \in Int /\ at - QueryTime \in Int /\ at - QueryTime <= clock
    BY <1>1, <1>2, <1>3
  <2>2. QED
    BY <1>1, <1>3, <2>1, AnswersKept
<1>5. QED
  BY <1>1, <1>2, <1>3, <1>4 DEF MemoAged

LEMMA ReadingStays ==
  ASSUME StaleInv, Preserved, NEW r \in Readers, reading'[r] = reading[r],
         reading[r].at = "asked" => clock' <= reading[r].since + QueryTime
  PROVE  ReadingAged(r)'
<1>1. PICK k, value, since, at :
         k = reading[r].key /\ value = reading[r].value /\ since = reading[r].since /\ at = reading[r].at
  OBVIOUS
<1>2. /\ since \in Int /\ since <= clock
      /\ at = "asked" => k \in Keys /\ Answers(k, value, since, since)
      /\ at = "read" => k \in Keys /\ Answers(k, value, since - (Ttl + QueryTime), since)
  BY <1>1 DEF StaleInv, AgeInv
<1>3. clock \in Int /\ clock' \in Int /\ clock <= clock' /\ QueryTime \in Nat /\ Ttl \in Nat
  BY MemoAssumption DEF StaleInv, AgeInv, Preserved
<1>4. at = "asked" => Answers(k, value, since, since)'
  BY <1>2, <1>3, AnswersKept
<1>5. at = "read" => Answers(k, value, since - (Ttl + QueryTime), since)'
  <2>1. since - (Ttl + QueryTime) \in Int /\ since - (Ttl + QueryTime) <= clock
    BY <1>2, <1>3
  <2>2. QED
    BY <1>2, <2>1, AnswersKept
<1>6. QED
  BY <1>1, <1>2, <1>3, <1>4, <1>5 DEF ReadingAged

\* Nothing is written, and time stands still.
LEMMA RowsStay ==
  ASSUME StaleInv, UNCHANGED <<clock, settingRow>>,
         \A f \in memoTrouble.faults : f \in memoTrouble'.faults
  PROVE  Preserved
BY DEF Preserved, StaleInv, AgeInv

LEMMA AgesKept ==
  ASSUME \A p \in Processes, k \in Keys : MemoAged(p, k)', \A r \in Readers : ReadingAged(r)',
         Preserved
  PROVE  AgeInv'
BY DEF AgeInv, MemoAged, ReadingAged, Preserved

\* A query was sent that answers what the row stood for when it was sent.
LEMMA AskedAges ==
  ASSUME StaleInv, Preserved, VersionsInv', NEW r \in Readers, NEW k \in Keys, NEW value,
         Answers(k, value, clock, clock)', UNCHANGED <<clock, memo>>,
         reading' = [reading EXCEPT ![r] = [at |-> "asked", key |-> k, value |-> value, since |-> clock]]
  PROVE  VersionsInv' /\ AgeInv'
<1>1. clock \in Nat /\ QueryTime \in Nat
  BY MemoAssumption DEF StaleInv, AgeInv
<1>2. ReadingAged(r)'
  <2>1. /\ reading'[r].at = "asked" /\ reading'[r].key = k /\ reading'[r].value = value
        /\ reading'[r].since = clock
    BY DEF StaleInv, ConfigInv, MemoShape
  <2>2. QED
    BY <1>1, <2>1 DEF ReadingAged
<1>3. \A s \in Readers : s # r => ReadingAged(s)'
  <2>1. \A s \in Readers : s # r => reading'[s] = reading[s]
    BY DEF StaleInv, ConfigInv, MemoShape
  <2>2. \A s \in Readers : reading[s].at = "asked" => clock' <= reading[s].since + QueryTime
    BY DEF StaleInv, AgeInv
  <2>3. QED
    BY <2>1, <2>2, ReadingStays
<1>4. \A q \in Processes, j \in Keys : MemoAged(q, j)'
  BY MemoStays
<1>5. QED
  BY <1>2, <1>3, <1>4, AgesKept

\* Nothing is read or remembered in this step.
LEMMA NothingAsked ==
  ASSUME StaleInv, Preserved, VersionsInv', UNCHANGED <<clock, memo, reading>>
  PROVE  VersionsInv' /\ AgeInv'
<1>1. \A s \in Readers : ReadingAged(s)'
  <2>1. \A s \in Readers : reading[s].at = "asked" => clock' <= reading[s].since + QueryTime
    BY DEF StaleInv, AgeInv
  <2>2. QED
    BY <2>1, ReadingStays
<1>2. \A q \in Processes, j \in Keys : MemoAged(q, j)'
  BY MemoStays
<1>3. QED
  BY <1>1, <1>2, AgesKept

(* Time passes, but no query stays unanswered too long.                    *)
LEMMA PassTimeAges ==
  ASSUME StaleInv, PassTime
  PROVE  VersionsInv' /\ AgeInv'
<1>1. /\ clock' = clock + 1 /\ clock < LastTick - 1
      /\ UNCHANGED <<settingRow, memo, reading, saving, memoTrouble>>
      /\ \A r \in Readers : reading[r].at = "asked" => clock < reading[r].since + QueryTime
  BY DEF PassTime
<1>2. clock \in Nat /\ LastTick \in Nat /\ QueryTime \in Nat
  BY MemoAssumption DEF StaleInv, AgeInv
<1>3. Preserved
  BY <1>1, <1>2 DEF Preserved
<1>4. VersionsInv'
  BY <1>1, <1>2 DEF StaleInv, VersionsInv
<1>5. ASSUME NEW r \in Readers
      PROVE  reading[r].at = "asked" => clock' <= reading[r].since + QueryTime
  BY <1>1, <1>2 DEF StaleInv, AgeInv
<1>6. \A r \in Readers : ReadingAged(r)'
  BY <1>1, <1>3, <1>5, ReadingStays
<1>7. \A p \in Processes, k \in Keys : MemoAged(p, k)'
  BY <1>1, <1>3, MemoStays
<1>8. QED
  BY <1>3, <1>4, <1>6, <1>7, AgesKept

(* A read is answered by a memo that is young enough.                      *)
LEMMA ReadMemoAges ==
  ASSUME StaleInv, NEW r \in Readers, NEW k \in Keys, ReadMemo(r, k)
  PROVE  VersionsInv' /\ AgeInv'
<1>1. UNCHANGED <<clock, settingRow, memo, saving, memoTrouble>>
  BY DEF ReadMemo
<1>2. PICK p \in Processes : p = HomeOf[r]
  BY MemoAssumption
<1>3. PICK at, value : at = memo[p][k].at /\ value = memo[p][k].value
  OBVIOUS
<1>4. at >= 0 /\ clock - at < Ttl /\ at \in Int /\ at <= clock
  BY <1>2, <1>3 DEF ReadMemo, Remembers, StaleInv, AgeInv
<1>5. /\ reading' = [reading EXCEPT ![r] = [at |-> "read", key |-> k, value |-> value, since |-> clock]]
  BY <1>2, <1>3 DEF ReadMemo
<1>6. Preserved
  BY <1>1, RowsStay
<1>7. VersionsInv'
  BY <1>1 DEF StaleInv, VersionsInv
<1>8. clock \in Nat /\ Ttl \in Nat /\ QueryTime \in Nat
  BY MemoAssumption DEF StaleInv, AgeInv
<1>9. Answers(k, value, clock - (Ttl + QueryTime), clock)'
  <2>1. Answers(k, value, at - QueryTime, at)
    BY <1>2, <1>3, <1>4 DEF StaleInv, AgeInv
  <2>2. /\ at - QueryTime \in Int /\ at - QueryTime <= clock /\ clock - (Ttl + QueryTime) \in Int
        /\ clock - (Ttl + QueryTime) <= at - QueryTime
    BY <1>4, <1>8
  <2>3. Answers(k, value, clock - (Ttl + QueryTime), clock)
    BY <1>4, <1>8, <2>1, <2>2 DEF Answers, StaleInv, VersionsInv
  <2>4. QED
    BY <1>1, <2>3 DEF Answers
<1>10. ReadingAged(r)'
  <2>1. /\ reading'[r].at = "read" /\ reading'[r].key = k /\ reading'[r].value = value
        /\ reading'[r].since = clock
    BY <1>5 DEF StaleInv, ConfigInv, MemoShape
  <2>2. QED
    BY <1>1, <1>8, <1>9, <2>1 DEF ReadingAged
<1>11. \A s \in Readers : s # r => ReadingAged(s)'
  <2>1. \A s \in Readers : s # r => reading'[s] = reading[s]
    BY <1>5 DEF StaleInv, ConfigInv, MemoShape
  <2>2. \A s \in Readers : reading[s].at = "asked" => clock' <= reading[s].since + QueryTime
    BY <1>1 DEF StaleInv, AgeInv
  <2>3. QED
    BY <1>6, <2>1, <2>2, ReadingStays
<1>12. \A q \in Processes, j \in Keys : MemoAged(q, j)'
  BY <1>1, <1>6, MemoStays
<1>13. QED
  BY <1>6, <1>7, <1>10, <1>11, <1>12, AgesKept

(* The row as it is when it is asked for, or the default and a fault.      *)
LEMMA AskRowAges ==
  ASSUME StaleInv, NEW r \in Readers, NEW k \in Keys, AskRow(r, k)
  PROVE  VersionsInv' /\ AgeInv'
<1>1. UNCHANGED <<clock, settingRow, memo, saving>>
  BY DEF AskRow
<1>2. clock \in Nat /\ clock <= LastTick /\ LastTick \in Nat /\ QueryTime \in Nat
  BY MemoAssumption DEF StaleInv, AgeInv
<1>3. PICK value :
         /\ reading' = [reading EXCEPT ![r] = [at |-> "asked", key |-> k, value |-> value, since |-> clock]]
         /\ \/ value = Meant(k, Current(k)) /\ memoTrouble' = memoTrouble
            \/ /\ value = Meant(k, NoRow)
               /\ memoTrouble.faults = {}
               /\ memoTrouble' = [memoTrouble EXCEPT !.faults = {[key |-> k, at |-> clock]}]
  BY DEF AskRow
<1>4. CASE value = Meant(k, Current(k)) /\ memoTrouble' = memoTrouble
  <2>1. PICK v \in settingRow[k] : v.to = LastTick /\ v.value = Current(k)
    BY DEF StaleInv, VersionsInv, Current
  <2>2. v.from <= clock /\ v.to >= clock
    BY <1>2, <2>1 DEF StaleInv, VersionsInv
  <2>3. Answers(k, value, clock, clock)'
    BY <1>1, <1>4, <2>1, <2>2 DEF Answers
  <2>4. Preserved
    BY <1>1, <1>4, RowsStay
  <2>5. VersionsInv'
    BY <1>1, <1>4 DEF StaleInv, VersionsInv
  <2>6. QED
    BY <2>3, <2>4, <2>5, <1>1, <1>2, <1>3, AskedAges
<1>5. CASE /\ value = Meant(k, NoRow)
           /\ memoTrouble.faults = {}
           /\ memoTrouble' = [memoTrouble EXCEPT !.faults = {[key |-> k, at |-> clock]}]
  <2>1. PICK fault : fault = [key |-> k, at |-> clock]
    OBVIOUS
  <2>2. memoTrouble'.faults = {fault} /\ fault.key = k /\ fault.at = clock
    BY <1>5, <2>1 DEF StaleInv, KeyInv
  <2>3. Answers(k, value, clock, clock)'
    BY <1>1, <1>2, <1>5, <2>2 DEF Answers
  <2>4. Preserved
    BY <1>1, <1>5, RowsStay
  <2>5. VersionsInv'
    BY <1>1, <1>2, <2>2 DEF StaleInv, VersionsInv
  <2>6. QED
    BY <2>3, <2>4, <2>5, <1>1, <1>2, <1>3, AskedAges
<1>6. QED
  BY <1>3, <1>4, <1>5

(* The answer is as old as the query, which is not too old.                *)
LEMMA RememberAges ==
  ASSUME StaleInv, NEW r \in Readers, Remember(r)
  PROVE  VersionsInv' /\ AgeInv'
<1>1. UNCHANGED <<clock, settingRow, saving, memoTrouble>> /\ reading[r].at = "asked"
  BY DEF Remember
<1>2. clock \in Nat /\ QueryTime \in Nat /\ Ttl \in Nat
  BY MemoAssumption DEF StaleInv, AgeInv
<1>a. PICK p \in Processes : p = HomeOf[r]
  BY MemoAssumption
<1>3. PICK k, value, since :
         k = reading[r].key /\ value = reading[r].value /\ since = reading[r].since
  OBVIOUS
<1>4. /\ k \in Keys /\ since \in Int /\ since <= clock /\ clock <= since + QueryTime
      /\ Answers(k, value, since, since)
  BY <1>1, <1>3 DEF StaleInv, AgeInv
<1>5. /\ memo' = [memo EXCEPT ![p] = [memo[p] EXCEPT ![k] = [at |-> clock, value |-> value]]]
      /\ reading' = [reading EXCEPT ![r] = [at |-> "read", key |-> k, value |-> value, since |-> clock]]
  BY <1>a, <1>3 DEF Remember
<1>6. Preserved
  BY <1>1, RowsStay
<1>7. VersionsInv'
  BY <1>1 DEF StaleInv, VersionsInv
<1>8. /\ Answers(k, value, clock - QueryTime, clock)'
      /\ Answers(k, value, clock - (Ttl + QueryTime), clock)'
  <2>1. PICK low, lower \in Int : low = clock - QueryTime /\ lower = clock - (Ttl + QueryTime)
    BY <1>2
  <2>2. low <= since /\ lower <= since
    BY <1>2, <1>4, <2>1
  <2>3. Answers(k, value, low, clock) /\ Answers(k, value, lower, clock)
    BY <1>2, <1>4, <2>2 DEF Answers, StaleInv, VersionsInv
  <2>4. Answers(k, value, low, clock)' /\ Answers(k, value, lower, clock)'
    BY <1>1, <2>3 DEF Answers
  <2>5. QED
    BY <1>1, <2>1, <2>4
<1>9. ReadingAged(r)'
  <2>1. /\ reading'[r].at = "read" /\ reading'[r].key = k /\ reading'[r].value = value
        /\ reading'[r].since = clock
    BY <1>5 DEF StaleInv, ConfigInv, MemoShape
  <2>2. QED
    BY <1>1, <1>2, <1>4, <1>8, <2>1 DEF ReadingAged
<1>10. \A s \in Readers : s # r => ReadingAged(s)'
  <2>1. \A s \in Readers : s # r => reading'[s] = reading[s]
    BY <1>5 DEF StaleInv, ConfigInv, MemoShape
  <2>2. \A s \in Readers : reading[s].at = "asked" => clock' <= reading[s].since + QueryTime
    BY <1>1 DEF StaleInv, AgeInv
  <2>3. QED
    BY <1>6, <2>1, <2>2, ReadingStays
<1>11. ASSUME NEW q \in Processes, NEW j \in Keys
       PROVE  MemoAged(q, j)'
  <2>1. CASE q = p /\ j = k
    <3>1. memo'[q][j].at = clock /\ memo'[q][j].value = value
      BY <1>5, <2>1 DEF StaleInv, ConfigInv, MemoShape
    <3>2. QED
      BY <1>1, <1>2, <1>8, <2>1, <3>1 DEF MemoAged
  <2>2. CASE ~(q = p /\ j = k)
    <3>1. memo'[q][j] = memo[q][j]
      BY <1>5, <2>2 DEF StaleInv, ConfigInv, MemoShape
    <3>2. QED
      BY <1>6, <3>1, MemoStays
  <2>3. QED
    BY <2>1, <2>2
<1>12. QED
  BY <1>6, <1>7, <1>9, <1>10, <1>11, AgesKept

LEMMA ForgetAges ==
  ASSUME StaleInv, NEW p, NEW k \in Keys, NEW row, Forget(p, k, row)
  PROVE  VersionsInv' /\ AgeInv'
<1>1. /\ UNCHANGED <<clock, settingRow, reading>>
      /\ memoTrouble' = [memoTrouble EXCEPT !.saves = @ + 1]
      /\ memo' = [memo EXCEPT ![p] = [memo[p] EXCEPT ![k] = NoMemo]]
      /\ saving'.key = k
  BY DEF Forget, Idle
<1>2. memoTrouble'.faults = memoTrouble.faults
  BY <1>1 DEF StaleInv, KeyInv
<1>3. Preserved
  BY <1>1, <1>2, RowsStay
<1>4. VersionsInv'
  BY <1>1, <1>2 DEF StaleInv, VersionsInv
<1>5. \A s \in Readers : ReadingAged(s)'
  <2>1. \A s \in Readers : reading[s].at = "asked" => clock' <= reading[s].since + QueryTime
    BY <1>1 DEF StaleInv, AgeInv
  <2>2. QED
    BY <1>1, <1>3, <2>1, ReadingStays
<1>6. ASSUME NEW q \in Processes, NEW j \in Keys
      PROVE  MemoAged(q, j)'
  <2>1. CASE q = p /\ j = k
    <3>1. memo'[q][j].at = -1
      BY <1>1, <2>1 DEF StaleInv, ConfigInv, MemoShape, NoMemo
    <3>2. clock' \in Nat
      BY <1>3 DEF Preserved
    <3>3. QED
      BY <3>1, <3>2 DEF MemoAged
  <2>2. CASE ~(q = p /\ j = k)
    <3>1. memo'[q][j] = memo[q][j]
      BY <1>1, <2>2 DEF StaleInv, ConfigInv, MemoShape
    <3>2. QED
      BY <1>3, <3>1, MemoStays
  <2>3. QED
    BY <2>1, <2>2
<1>7. QED
  BY <1>3, <1>4, <1>5, <1>6, AgesKept

(* The version that was current ends now, which is not before any of the   *)
(* times that matter.                                                      *)
LEMMA WriteSettingAges ==
  ASSUME StaleInv, WriteSetting
  PROVE  VersionsInv' /\ AgeInv'
<1>1. UNCHANGED <<clock, memo, reading, memoTrouble>> /\ saving.at = "writing" /\ saving' = Idle
  BY DEF WriteSetting
<1>2. clock \in Nat /\ clock <= LastTick /\ LastTick \in Nat
  BY MemoAssumption DEF StaleInv, AgeInv
<1>3. PICK k \in Keys : k = saving.key
  BY <1>1 DEF StaleInv, VersionsInv
<1> DEFINE End(v) == IF v.to = LastTick THEN [v EXCEPT !.to = clock] ELSE v
           new    == [value |-> saving.value, from |-> clock, to |-> LastTick]
<1>4. CASE UNCHANGED settingRow
  <2>1. Preserved
    BY <1>1, <1>4, RowsStay
  <2>2. VersionsInv'
    BY <1>1, <1>4 DEF StaleInv, VersionsInv, Idle
  <2>3. QED
    BY <1>1, <2>1, <2>2, NothingAsked
<1>5. CASE settingRow' = [settingRow EXCEPT ![k] = {End(v) : v \in settingRow[k]} \cup {new}]
  <2>1. ASSUME NEW v \in settingRow[k]
        PROVE  /\ End(v).value = v.value /\ End(v).from = v.from
               /\ End(v).to = v.to \/ End(v).to = clock
               /\ End(v) = [value |-> End(v).value, from |-> End(v).from, to |-> End(v).to]
    <3>1. v = [value |-> v.value, from |-> v.from, to |-> v.to]
      BY DEF StaleInv, VersionsInv
    <3>2. CASE v.to = LastTick
      <4>1. [v EXCEPT !.to = clock] = [value |-> v.value, from |-> v.from, to |-> clock]
        BY <3>1
      <4>2. QED
        BY <3>2, <4>1
    <3>3. CASE v.to # LastTick
      BY <3>1, <3>3
    <3>4. QED
      BY <3>2, <3>3
  <2>2. /\ new = [value |-> new.value, from |-> new.from, to |-> new.to]
        /\ new.from = clock /\ new.to = LastTick
    OBVIOUS
  <2>3. /\ settingRow'[k] = {End(v) : v \in settingRow[k]} \cup {new}
        /\ \A j \in Keys : j # k => settingRow'[j] = settingRow[j]
        /\ settingRow' = [j \in Keys |-> settingRow'[j]]
    BY <1>5 DEF StaleInv, VersionsInv
  <2> HIDE DEF End, new
  <2>4. Preserved
    <3>1. ASSUME NEW j \in Keys, NEW v \in settingRow[j]
          PROVE  \E w \in settingRow'[j] :
                    w.value = v.value /\ w.from = v.from /\ (w.to = v.to \/ w.to = clock)
      <4>1. CASE j = k
        <5>1. End(v) \in settingRow'[j]
          BY <2>3, <4>1
        <5>2. QED
          BY <2>1, <4>1, <5>1
      <4>2. CASE j # k
        BY <2>3, <4>2
      <4>3. QED
        BY <4>1, <4>2
    <3>2. QED
      BY <1>1, <1>2, <3>1 DEF Preserved
  <2>5. VersionsInv'
    <3>1. ASSUME NEW w \in settingRow'[k]
          PROVE  /\ w = [value |-> w.value, from |-> w.from, to |-> w.to]
                 /\ w.from \in Int /\ w.to \in Int /\ w.from <= clock
      <4>1. CASE w = new
        BY <1>2, <2>2, <4>1
      <4>2. CASE w # new
        <5>1. PICK v \in settingRow[k] : w = End(v)
          BY <2>3, <4>2
        <5>2. v.from \in Int /\ v.to \in Int /\ v.from <= clock
          BY DEF StaleInv, VersionsInv
        <5>3. QED
          BY <1>2, <2>1, <5>1, <5>2
      <4>3. QED
        BY <4>1, <4>2
    <3>2. ASSUME NEW j \in Keys
          PROVE  /\ \A w \in settingRow'[j] :
                       /\ w = [value |-> w.value, from |-> w.from, to |-> w.to]
                       /\ w.from \in Int /\ w.to \in Int /\ w.from <= clock
                 /\ \E w \in settingRow'[j] : w.to = LastTick
      <4>1. CASE j = k
        BY <2>2, <2>3, <3>1, <4>1
      <4>2. CASE j # k
        BY <2>3, <4>2 DEF StaleInv, VersionsInv
      <4>3. QED
        BY <4>1, <4>2
    <3>3. saving'.at # "writing"
      BY <1>1 DEF Idle
    <3>4. \A f \in memoTrouble'.faults : f.at \in Int
      BY <1>1 DEF StaleInv, VersionsInv
    <3>5. QED
      BY <1>1, <2>3, <3>2, <3>3, <3>4 DEF VersionsInv
  <2>6. QED
    BY <1>1, <2>4, <2>5, NothingAsked
<1>6. QED
  BY <1>3, <1>4, <1>5 DEF WriteSetting

LEMMA StaleStep ==
  ASSUME StaleInv, MemoNext(Server)
  PROVE  StaleInv'
<1>1. ConfigInv' /\ KeyInv'
  BY MemoStep, KeyStays DEF StaleInv, KeyInv
<1>2. VersionsInv' /\ AgeInv'
  <2>1. memoTrouble.key \in Keys /\ "config" \in Keys /\ "notif" \in Keys
    BY DEF StaleInv, KeyInv, Keys
  <2>2. QED
    BY <2>1, PassTimeAges, ReadMemoAges, AskRowAges, RememberAges, ForgetAges, WriteSettingAges
       DEF MemoNext, SaveConfig, SaveNotificationConfig
<1>3. QED
  BY <1>1, <1>2 DEF StaleInv

LEMMA StaleInvInit == Init => StaleInv
<1> SUFFICES ASSUME Init
             PROVE  StaleInv
  OBVIOUS
<1>1. MemoInit /\ ConfigInv /\ KeyInv
  BY ConfigInvInit DEF Init
<1>2. PICK first : first = [value |-> NoRow, from |-> 0, to |-> LastTick]
  OBVIOUS
<1>3. /\ settingRow = [k \in Keys |-> {first}] /\ clock = 0 /\ memoTrouble.faults = {}
      /\ saving.at = "idle" /\ LastTick \in Nat
  BY <1>1, <1>2, MemoAssumption DEF MemoInit, Idle
<1>4. first.from = 0 /\ first.to = LastTick /\ first = [value |-> first.value, from |-> first.from, to |-> first.to]
  BY <1>2
<1>5. VersionsInv
  BY <1>3, <1>4 DEF VersionsInv
<1>6. AgeInv
  <2>1. \A p \in Processes, k \in Keys : memo[p][k].at = -1
    BY <1>1 DEF MemoInit, NoMemo
  <2>2. \A r \in Readers : reading[r].at = "idle" /\ reading[r].since = 0
    BY <1>1 DEF MemoInit, Idle
  <2>3. QED
    BY <1>3, <2>1, <2>2 DEF AgeInv
<1>7. QED
  BY <1>1, <1>5, <1>6 DEF StaleInv

LEMMA StaleInvStep == StaleInv /\ [Next]_vars => StaleInv'
<1> SUFFICES ASSUME StaleInv, [Next]_vars
             PROVE  StaleInv'
  OBVIOUS
<1>1. CASE MemoNext(Server)
  BY <1>1, StaleStep
<1>2. CASE UNCHANGED memoVars
  <2>1. ConfigInv' /\ KeyInv'
    BY ConfigInvStep DEF StaleInv
  <2>2. VersionsInv' /\ AgeInv'
    BY <1>2 DEF memoVars, StaleInv, VersionsInv, AgeInv, Answers
  <2>3. QED
    BY <2>1, <2>2 DEF StaleInv
<1>3. QED
  BY <1>1, <1>2 DEF Next, Elsewhere, vars

(* A value that is read was the row's a bounded time ago, or a query of    *)
(* that time failed: however many processes remember the row, whatever is  *)
(* saved meanwhile, and in whatever order answers come back ("Small        *)
(* in-process memo for read-mostly rows", fraud-prevention.service.ts:600).*)
THEOREM ReadsAreRecent == Spec => []StaleForBoundedTime
<1>1. StaleInv => StaleForBoundedTime
  BY DEF StaleInv, AgeInv, StaleForBoundedTime, Answers
<1>2. QED
  BY <1>1, StaleInvInit, StaleInvStep, PTL DEF Spec

-----------------------------------------------------------------------------
(* The licence.                                                            *)

LicenceShape ==
    /\ inForce = [p \in Hosting |-> inForce[p]]
    /\ evaluating = [p \in Hosting |-> evaluating[p]]
    /\ request = [q \in Requests |-> [at |-> request[q].at, key |-> request[q].key]]
    /\ licenceTrouble = [f \in {"count", "saveFailed", "envDropped", "crossed"} |-> licenceTrouble[f]]

\* What SurvivesRestart excepts: it does not come back once it has happened.
Undisturbed ==
    /\ expired = {} /\ ~licenceTrouble.saveFailed
    /\ ~licenceTrouble.crossed /\ ~licenceTrouble.envDropped

\* A licence is in force after a restart.
LicensedAfter == Configured # NoKey \/ Verifies(storedKey)

\* Either the stored key is in step with what is in force, or a request is
\* under way or the server boots, which will bring it in step.
InStep ==
    /\ \A q1, q2 \in Underway : q1 = q2
    /\ \A q \in Requests :
          /\ request[q].at = "saving" => Verifies(request[q].key) /\ inForce[Server] = request[q].key
          /\ request[q].at = "clearing" => storedKey = NoKey
    /\ Server \in booting => Underway = {} /\ inForce[Server] = Configured
    /\ Underway = {} /\ Server \notin booting => ((inForce[Server] # NoKey) <=> LicensedAfter)

LicenceInv ==
    /\ LicenceShape
    /\ \A p \in Hosting : evaluating[p] = (inForce[p] = NoKey)
    /\ Undisturbed => InStep

LEMMA LicenceInvInit == Init => LicenceInv
<1> SUFFICES ASSUME Init
             PROVE  LicenceInv
  OBVIOUS
<1>1. LicenceInit
  BY DEF Init
<1>2. LicenceShape
  BY <1>1 DEF LicenceInit, LicenceShape
<1>3. Underway = {} /\ booting = {} /\ storedKey = NoKey
  BY <1>1 DEF LicenceInit, Underway
<1>4. inForce[Server] = Configured
  BY <1>1, LicenceAssumption DEF LicenceInit
<1>5. \A p \in Hosting : evaluating[p] = (inForce[p] = NoKey)
  BY <1>1 DEF LicenceInit
<1>6. InStep
  <2>1. \A q \in Requests : request[q].at = "new"
    BY <1>1 DEF LicenceInit
  <2>2. ~Verifies(storedKey)
    BY <1>3, LicenceAssumption DEF Verifies
  <2>3. QED
    BY <1>3, <1>4, <2>1, <2>2 DEF InStep, LicensedAfter
<1>7. QED
  BY <1>2, <1>5, <1>6 DEF LicenceInv

\* What a key means does not change as long as none expires.
LEMMA KeysMean ==
  ASSUME UNCHANGED <<env, expired>>
  PROVE  Configured' = Configured /\ \A k : Verifies(k)' = Verifies(k)
BY DEF Configured, Verifies

LEMMA StartKeeps ==
  ASSUME LicenceInv, NEW p \in Hosting, StartProcess(p)
  PROVE  LicenceInv'
<1>1. /\ inForce' = [inForce EXCEPT ![p] = Configured]
      /\ evaluating' = [evaluating EXCEPT ![p] = (Configured = NoKey)]
      /\ booting' = booting \cup {p}
      /\ UNCHANGED <<env, storedKey, expired>>
      /\ licenceTrouble' = [licenceTrouble EXCEPT !.count = @ + 1]
  BY DEF StartProcess, Strikes
<1>2. request' = [q \in Requests |->
          IF p = Server /\ request[q].at # "new" THEN [at |-> "done", key |-> NoKey] ELSE request[q]]
  BY DEF StartProcess
<1>3. Configured' = Configured /\ \A k : Verifies(k)' = Verifies(k)
  BY <1>1, KeysMean
<1>4. LicenceShape'
  BY <1>1, <1>2 DEF LicenceInv, LicenceShape
<1>5. \A q \in Hosting : evaluating'[q] = (inForce'[q] = NoKey)
  BY <1>1 DEF LicenceInv, LicenceShape
<1>6. ASSUME Undisturbed'
      PROVE  InStep'
  <2>1. Undisturbed /\ InStep
    BY <1>1, <1>6 DEF Undisturbed, LicenceInv, LicenceShape
  <2>2. CASE p = Server
    <3>1. \A q \in Requests : request'[q].at \in {"new", "done"}
      BY <1>2, <2>2
    <3>2. Underway' = {} /\ inForce'[Server] = Configured'
      BY <1>1, <1>3, <2>2, <3>1 DEF Underway, LicenceInv, LicenceShape
    <3>3. QED
      BY <1>1, <2>2, <3>1, <3>2 DEF InStep
  <2>3. CASE p # Server
    <3>1. \A q \in Requests : request'[q] = request[q]
      BY <1>2, <2>3
    <3>2. inForce'[Server] = inForce[Server] /\ (Server \in booting' <=> Server \in booting)
      BY <1>1, <2>3, LicenceAssumption DEF LicenceInv, LicenceShape
    <3>3. Underway' = Underway
      BY <3>1 DEF Underway
    <3>4. QED
      BY <1>1, <1>3, <2>1, <3>1, <3>2, <3>3 DEF InStep, LicensedAfter
  <2>4. QED
    BY <2>2, <2>3
<1>7. QED
  BY <1>4, <1>5, <1>6 DEF LicenceInv

LEMMA BootstrapKeeps ==
  ASSUME LicenceInv, NEW p \in Hosting, Bootstrap(p)
  PROVE  LicenceInv'
<1>1. /\ p \in booting /\ booting' = booting \ {p}
      /\ UNCHANGED <<env, storedKey, expired, request, licenceTrouble>>
      /\ \/ /\ inForce[p] = NoKey /\ Verifies(storedKey)
            /\ inForce' = [inForce EXCEPT ![p] = storedKey]
            /\ evaluating' = [evaluating EXCEPT ![p] = FALSE]
         \/ /\ inForce[p] # NoKey \/ ~Verifies(storedKey)
            /\ UNCHANGED <<inForce, evaluating>>
  BY DEF Bootstrap
<1>2. Configured' = Configured /\ \A k : Verifies(k)' = Verifies(k)
  BY <1>1, KeysMean
<1>3. \A k : Verifies(k) => k # NoKey
  BY LicenceAssumption DEF Verifies
<1>4. LicenceShape'
  BY <1>1 DEF LicenceInv, LicenceShape
<1>5. \A q \in Hosting : evaluating'[q] = (inForce'[q] = NoKey)
  BY <1>1, <1>3 DEF LicenceInv, LicenceShape
<1>6. ASSUME Undisturbed'
      PROVE  InStep'
  <2>1. InStep
    BY <1>1, <1>6 DEF Undisturbed, LicenceInv
  <2>2. Underway' = Underway
    BY <1>1 DEF Underway
  <2>3. CASE p = Server
    <3>1. Underway = {} /\ inForce[Server] = Configured
      BY <1>1, <2>1, <2>3 DEF InStep
    <3>2. (inForce'[Server] # NoKey) <=> LicensedAfter
      BY <1>1, <1>3, <2>3, <3>1 DEF LicensedAfter, LicenceInv, LicenceShape
    <3>3. \A q \in Requests : request'[q].at \notin {"saving", "clearing"}
      BY <2>2, <3>1 DEF Underway
    <3>4. QED
      BY <1>1, <1>2, <2>2, <2>3, <3>1, <3>2, <3>3 DEF InStep, LicensedAfter
  <2>4. CASE p # Server
    <3>1. inForce'[Server] = inForce[Server] /\ (Server \in booting' <=> Server \in booting)
      BY <1>1, <2>4, LicenceAssumption DEF LicenceInv, LicenceShape
    <3>2. QED
      BY <1>1, <1>2, <2>1, <2>2, <3>1 DEF InStep, LicensedAfter
  <2>5. QED
    BY <2>3, <2>4
<1>7. QED
  BY <1>4, <1>5, <1>6 DEF LicenceInv

\* A request that goes under way is the only one, unless two have crossed.
LEMMA AdvanceIs ==
  ASSUME LicenceInv, NEW q \in Requests, NEW at, NEW key, Advance(q, at, key),
         UNCHANGED expired
  PROVE  /\ request'[q].at = at /\ request'[q].key = key
         /\ \A r \in Requests : r # q => request'[r] = request[r]
         /\ request' = [r \in Requests |-> [at |-> request'[r].at, key |-> request'[r].key]]
         /\ licenceTrouble' = [f \in {"count", "saveFailed", "envDropped", "crossed"} |-> licenceTrouble'[f]]
         /\ Undisturbed' =>
               /\ Undisturbed
               /\ at \in {"saving", "clearing"} => Underway \subseteq {q} /\ Underway' = {q}
               /\ at = "done" => Underway' = Underway \ {q}
<1>1. /\ request' = [request EXCEPT ![q] = [at |-> at, key |-> key]]
      /\ licenceTrouble' = [licenceTrouble EXCEPT
            !.crossed = @ \/ (at \in {"saving", "clearing"} /\ Underway \ {q} # {})]
  BY DEF Advance
<1>2. /\ request'[q].at = at /\ request'[q].key = key
      /\ \A r \in Requests : r # q => request'[r] = request[r]
      /\ request' = [r \in Requests |-> [at |-> request'[r].at, key |-> request'[r].key]]
  BY <1>1 DEF LicenceInv, LicenceShape
<1>3. /\ licenceTrouble' = [f \in {"count", "saveFailed", "envDropped", "crossed"} |-> licenceTrouble'[f]]
      /\ licenceTrouble'.saveFailed = licenceTrouble.saveFailed
      /\ licenceTrouble'.envDropped = licenceTrouble.envDropped
      /\ licenceTrouble'.crossed =
            (licenceTrouble.crossed \/ (at \in {"saving", "clearing"} /\ Underway \ {q} # {}))
  BY <1>1 DEF LicenceInv, LicenceShape
<1>4. ASSUME Undisturbed'
      PROVE  /\ Undisturbed
             /\ at \in {"saving", "clearing"} => Underway \subseteq {q} /\ Underway' = {q}
             /\ at = "done" => Underway' = Underway \ {q}
  <2>1. Undisturbed /\ (at \in {"saving", "clearing"} => Underway \ {q} = {})
    BY <1>3, <1>4 DEF Undisturbed
  <2>2. \A r : r \in Underway' <=> r \in Requests /\ request'[r].at \in {"saving", "clearing"}
    BY DEF Underway
  <2>3. \A r : r \in Underway <=> r \in Requests /\ request[r].at \in {"saving", "clearing"}
    BY DEF Underway
  <2>4. QED
    BY <1>2, <2>1, <2>2, <2>3
<1>5. QED
  BY <1>2, <1>3, <1>4

LEMMA ActivateKeeps ==
  ASSUME LicenceInv, NEW q \in Requests, NEW k \in LicenceKeys, Activate(q, k)
  PROVE  LicenceInv'
<1>1. /\ Server \notin booting /\ Verifies(k) /\ Advance(q, "saving", k)
      /\ inForce' = [inForce EXCEPT ![Server] = k]
      /\ evaluating' = [evaluating EXCEPT ![Server] = FALSE]
      /\ UNCHANGED <<env, storedKey, evaluationOn, expired, booting>>
  BY DEF Activate
<1>2. k # NoKey
  BY LicenceAssumption
<1>3. Verifies(k)'
  BY <1>1 DEF Verifies
<1>4. /\ inForce'[Server] = k
      /\ inForce' = [p \in Hosting |-> inForce'[p]] /\ evaluating' = [p \in Hosting |-> evaluating'[p]]
      /\ \A p \in Hosting : evaluating'[p] = (inForce'[p] = NoKey)
  BY <1>1, <1>2, LicenceAssumption DEF LicenceInv, LicenceShape
<1>5. LicenceShape'
  BY <1>1, <1>4, AdvanceIs DEF LicenceShape
<1>6. ASSUME Undisturbed'
      PROVE  InStep'
  <2>1. /\ Underway' = {q} /\ request'[q].at = "saving" /\ request'[q].key = k
    BY <1>1, <1>6, AdvanceIs
  <2>2. \A r \in Requests : r # q => request'[r].at \notin {"saving", "clearing"}
    BY <2>1 DEF Underway
  <2>3. QED
    BY <1>1, <1>3, <1>4, <2>1, <2>2 DEF InStep
<1>7. QED
  BY <1>4, <1>5, <1>6 DEF LicenceInv

LEMMA SaveKeyKeeps ==
  ASSUME LicenceInv, NEW q \in Requests, SaveKey(q)
  PROVE  LicenceInv'
<1>1. /\ request[q].at = "saving" /\ Advance(q, "done", NoKey) /\ storedKey' = request[q].key
      /\ UNCHANGED <<env, inForce, evaluating, evaluationOn, expired, booting>>
  BY DEF SaveKey
<1>2. LicenceShape'
  BY <1>1, AdvanceIs DEF LicenceShape, LicenceInv
<1>3. ASSUME Undisturbed'
      PROVE  InStep'
  <2>1. /\ Undisturbed /\ Underway' = Underway \ {q} /\ request'[q].at = "done"
    BY <1>1, <1>3, AdvanceIs
  <2>2. InStep /\ q \in Underway
    BY <1>1, <2>1 DEF LicenceInv, Underway
  <2>3. Underway' = {} /\ Server \notin booting
    BY <2>1, <2>2 DEF InStep
  <2>4. inForce[Server] # NoKey /\ Verifies(storedKey')
    BY <1>1, <2>2, LicenceAssumption DEF InStep, Verifies
  <2>5. LicensedAfter'
    BY <1>1, <2>4 DEF LicensedAfter, Verifies
  <2>6. \A r \in Requests : request'[r].at \notin {"saving", "clearing"}
    BY <2>3 DEF Underway
  <2>7. QED
    BY <1>1, <2>3, <2>4, <2>5, <2>6 DEF InStep
<1>4. QED
  BY <1>1, <1>2, <1>3 DEF LicenceInv

LEMMA ClearKeyKeeps ==
  ASSUME LicenceInv, NEW q \in Requests, ClearKey(q)
  PROVE  LicenceInv'
<1>1. /\ Server \notin booting /\ Advance(q, "clearing", NoKey) /\ storedKey' = NoKey
      /\ UNCHANGED <<env, inForce, evaluating, evaluationOn, expired, booting>>
  BY DEF ClearKey
<1>2. LicenceShape'
  BY <1>1, AdvanceIs DEF LicenceShape, LicenceInv
<1>3. ASSUME Undisturbed'
      PROVE  InStep'
  <2>1. Underway' = {q} /\ request'[q].at = "clearing"
    BY <1>1, <1>3, AdvanceIs
  <2>2. \A r \in Requests : r # q => request'[r].at \notin {"saving", "clearing"}
    BY <2>1 DEF Underway
  <2>3. QED
    BY <1>1, <2>1, <2>2 DEF InStep
<1>4. QED
  BY <1>1, <1>2, <1>3 DEF LicenceInv

(* What ends a request without Advance: a failed save, a deactivation.     *)
LEMMA EndedIs ==
  ASSUME LicenceInv, NEW q \in Requests, request' = [request EXCEPT ![q] = [at |-> "done", key |-> NoKey]]
  PROVE  /\ request' = [r \in Requests |-> [at |-> request'[r].at, key |-> request'[r].key]]
         /\ request'[q].at = "done" /\ \A r \in Requests : r # q => request'[r] = request[r]
         /\ Underway' = Underway \ {q}
<1>1. /\ request' = [r \in Requests |-> [at |-> request'[r].at, key |-> request'[r].key]]
      /\ request'[q].at = "done" /\ \A r \in Requests : r # q => request'[r] = request[r]
  BY DEF LicenceInv, LicenceShape
<1>2. QED
  BY <1>1 DEF Underway

LEMMA SaveFailsKeeps ==
  ASSUME LicenceInv, NEW q \in Requests, SaveKeyFails(q)
  PROVE  LicenceInv'
<1>1. /\ request' = [request EXCEPT ![q] = [at |-> "done", key |-> NoKey]]
      /\ licenceTrouble' = [licenceTrouble EXCEPT !.count = @ + 1, !.saveFailed = TRUE]
      /\ UNCHANGED <<env, storedKey, inForce, evaluating, evaluationOn, expired, booting>>
  BY DEF SaveKeyFails
<1>2. LicenceShape' /\ ~Undisturbed'
  BY <1>1, EndedIs DEF LicenceInv, LicenceShape, Undisturbed
<1>3. QED
  BY <1>1, <1>2 DEF LicenceInv

LEMMA DeactivateKeeps ==
  ASSUME LicenceInv, NEW q \in Requests, Deactivate(q)
  PROVE  LicenceInv'
<1>1. /\ request[q].at = "clearing"
      /\ inForce' = [inForce EXCEPT ![Server] = NoKey]
      /\ evaluating' = [evaluating EXCEPT ![Server] = TRUE]
      /\ request' = [request EXCEPT ![q] = [at |-> "done", key |-> NoKey]]
      /\ licenceTrouble' = [licenceTrouble EXCEPT !.envDropped = @ \/ Configured # NoKey]
      /\ UNCHANGED <<env, storedKey, evaluationOn, expired, booting>>
  BY DEF Deactivate
<1>2. /\ inForce'[Server] = NoKey
      /\ inForce' = [p \in Hosting |-> inForce'[p]] /\ evaluating' = [p \in Hosting |-> evaluating'[p]]
      /\ \A p \in Hosting : evaluating'[p] = (inForce'[p] = NoKey)
  BY <1>1, LicenceAssumption DEF LicenceInv, LicenceShape
<1>3. /\ licenceTrouble' = [f \in {"count", "saveFailed", "envDropped", "crossed"} |-> licenceTrouble'[f]]
      /\ licenceTrouble'.saveFailed = licenceTrouble.saveFailed
      /\ licenceTrouble'.crossed = licenceTrouble.crossed
      /\ licenceTrouble'.envDropped = (licenceTrouble.envDropped \/ Configured # NoKey)
  BY <1>1 DEF LicenceInv, LicenceShape
<1>4. LicenceShape'
  BY <1>1, <1>2, <1>3, EndedIs DEF LicenceShape
<1>5. ASSUME Undisturbed'
      PROVE  InStep'
  <2>1. Undisturbed /\ Configured = NoKey
    BY <1>1, <1>3, <1>5 DEF Undisturbed
  <2>2. InStep /\ q \in Underway
    BY <1>1, <2>1 DEF LicenceInv, Underway
  <2>3. Underway' = {} /\ Server \notin booting /\ storedKey = NoKey
    BY <1>1, <2>2, EndedIs, ZenonT(60) DEF InStep
  <2>4. ~LicensedAfter'
    BY <1>1, <2>1, <2>3, LicenceAssumption, KeysMean DEF LicensedAfter, Verifies
  <2>5. \A r \in Requests : request'[r].at \notin {"saving", "clearing"}
    BY <2>3 DEF Underway
  <2>6. QED
    BY <1>1, <1>2, <2>3, <2>4, <2>5 DEF InStep
<1>6. QED
  BY <1>2, <1>4, <1>5 DEF LicenceInv

LEMMA ExpireKeeps ==
  ASSUME LicenceInv, Expire
  PROVE  LicenceInv'
<1>1. /\ licenceTrouble' = [licenceTrouble EXCEPT !.count = @ + 1]
      /\ UNCHANGED <<env, storedKey, inForce, evaluating, booting, request>>
      /\ expired' # {} \/ UNCHANGED expired
  BY DEF Expire, Strikes
<1>2. LicenceShape'
  BY <1>1 DEF LicenceInv, LicenceShape
<1>3. Undisturbed' => Undisturbed /\ UNCHANGED expired
  BY <1>1 DEF LicenceInv, LicenceShape, Undisturbed
<1>4. Undisturbed' => InStep'
  BY <1>1, <1>3 DEF LicenceInv, InStep, Underway, Verifies, LicensedAfter, Configured
<1>5. QED
  BY <1>1, <1>2, <1>4 DEF LicenceInv

LEMMA LicenceInvStep == LicenceInv /\ [Next]_vars => LicenceInv'
<1> SUFFICES ASSUME LicenceInv, [Next]_vars
             PROVE  LicenceInv'
  OBVIOUS
<1>1. CASE LicenceNext
  BY <1>1, StartKeeps, BootstrapKeeps, ActivateKeeps, SaveKeyKeeps, SaveFailsKeeps, ClearKeyKeeps,
     DeactivateKeeps, ExpireKeeps DEF LicenceNext
<1>2. CASE UNCHANGED licenceVars
  BY <1>2 DEF licenceVars, LicenceInv, LicenceShape, Undisturbed, InStep, Underway, Verifies,
              LicensedAfter, Configured
<1>3. QED
  BY <1>1, <1>2 DEF Next, Elsewhere, vars

(* A key is "applied immediately (no .env edit, no redeploy) and persisted"*)
(* (fraud-prevention.controller.ts:170-171): with any number of keys,      *)
(* processes, restarts and requests, what is in force between requests is  *)
(* what would be after a restart, unless one of the exceptions has         *)
(* happened.                                                               *)
THEOREM LicenceSurvives == Spec => []SurvivesRestart
<1>1. LicenceInv => SurvivesRestart
  <2> SUFFICES ASSUME LicenceInv, Undisturbed, Underway = {}, booting = {}
               PROVE  /\ (inForce[Server] # NoKey) = LicensedAfter
                      /\ HasPremiumAccess(Server) = (LicensedAfter \/ evaluationOn)
    BY DEF SurvivesRestart, LicensedAfter, Undisturbed
  <2>1. (inForce[Server] # NoKey) <=> LicensedAfter
    BY DEF LicenceInv, InStep
  <2>2. evaluating[Server] <=> (inForce[Server] = NoKey)
    BY LicenceAssumption DEF LicenceInv
  <2>3. HasPremiumAccess(Server) <=> (LicensedAfter \/ evaluationOn)
    BY <2>1, <2>2 DEF HasPremiumAccess
  <2>4. QED
    BY <2>1, <2>3 DEF LicensedAfter, HasPremiumAccess
<1>2. QED
  BY <1>1, LicenceInvInit, LicenceInvStep, PTL DEF Spec

-----------------------------------------------------------------------------
(* The screens.                                                            *)

ClaimInv ==
    /\ claim = [f \in {"server", "running", "named", "asked", "told", "open", "buying", "buys"} |-> claim[f]]
    /\ claim.running \in Int /\ OneClaimTimer

\* A case that has been sent and is not the busy one has been excepted.
QueueInv ==
    /\ queue = [busy |-> queue.busy, sent |-> [c \in QueueCases |-> queue.sent[c]], between |-> queue.between]
    /\ \A c \in QueueCases : queue.sent[c] \in Nat
    /\ \A c \in QueueCases : queue.sent[c] > 0 /\ queue.busy # c => c \in queue.between
    /\ OneDecisionAtATime

EditsInv ==
    /\ edits = [f \in {"current", "differ", "dirty", "beyond", "bounded", "save", "editedSince", "reload",
                       "excused", "clicks"} |-> edits[f]]
    /\ edits.excused
       \/ /\ edits.save \in {Blank, edits.current}
          /\ \/ edits.reload
             \/ /\ edits.differ \ edits.bounded \subseteq {edits.current}
                /\ edits.differ \ edits.bounded = {} \/ edits.dirty

PanelInv ==
    /\ panel = [f \in {"order", "paid", "loadedFor", "data", "loads", "overtaken"} |-> panel[f]]
    /\ panel.loads = [o \in PageOrders |-> panel.loads[o]]
    /\ \A o \in PageOrders : panel.loads[o] \in Nat
    /\ panel.paid => panel.order = panel.loadedFor
    /\ panel.overtaken
       \/ /\ \A o \in PageOrders : panel.loads[o] > 0 => o = panel.loadedFor /\ panel.loads[o] = 1
          /\ ~Asking => panel.data = panel.loadedFor

LEMMA ClaimKept == ClaimInv /\ ClaimNext => ClaimInv'
<1> SUFFICES ASSUME ClaimInv, ClaimNext
             PROVE  ClaimInv'
  OBVIOUS
<1> DEFINE ClaimFields == {"server", "running", "named", "asked", "told", "open", "buying", "buys"}
           Kept(c) == /\ c = [f \in ClaimFields |-> c[f]]
                      /\ c.running \in Int /\ (c.running = IF c.named THEN 1 ELSE 0)
<1>1. Kept(claim)
  BY DEF ClaimInv, OneClaimTimer
<1>2. ASSUME NEW c, Kept(c)
      PROVE  Kept(Stopped(c)) /\ Stopped(c).running = 0
  <2>1. CASE c.named
    <3>1. c.running = 1 /\ c.running - 1 = 0 /\ c = [f \in ClaimFields |-> c[f]]
      BY <1>2, <2>1
    <3>2. Stopped(c) = [c EXCEPT !.running = 0, !.named = FALSE]
      BY <2>1, <3>1 DEF Stopped
    <3>3. /\ Stopped(c) = [f \in ClaimFields |-> Stopped(c)[f]]
          /\ Stopped(c).running = 0 /\ Stopped(c).named = FALSE
      BY <3>1, <3>2
    <3>4. QED
      BY <3>3
  <2>2. CASE ~c.named
    BY <1>2, <2>2 DEF Stopped
  <2>3. QED
    BY <2>1, <2>2
<1>3. ASSUME NEW c, Kept(c)
      PROVE  Kept(Started(c))
  <2>1. PICK s : s = Stopped(c)
    OBVIOUS
  <2>2. Kept(s) /\ s.running + 1 = 1
    BY <1>2, <1>3, <2>1
  <2>3. Started(c) = [s EXCEPT !.running = 1, !.named = TRUE]
    BY <2>1, <2>2 DEF Started
  <2>4. /\ Started(c) = [f \in ClaimFields |-> Started(c)[f]]
        /\ Started(c).running = 1 /\ Started(c).named = TRUE
    BY <2>2, <2>3
  <2>5. QED
    BY <2>4
<1>4. ASSUME NEW state \in {"none", "pending", "installed"}, ClaimAnswered(state)
      PROVE  Kept(claim')
  <2>1. PICK c : c = [claim EXCEPT !.told[state] = @ - 1]
    OBVIOUS
  <2>2. Kept(c)
    BY <1>1, <2>1
  <2>3. claim' = Applied(c, state)
    BY <1>4, <2>1 DEF ClaimAnswered
  <2> HIDE DEF Kept
  <2>4. QED
    BY <1>2, <1>3, <2>2, <2>3 DEF Applied
<1>5. CASE PurchaseAnswered
  <2>1. CASE claim' = [Started(claim) EXCEPT !.buying = "no"]
    <3>1. PICK c : c = Started(claim)
      OBVIOUS
    <3>2. Kept(c)
      BY <1>1, <1>3, <3>1
    <3>3. Kept([c EXCEPT !.buying = "no"])
      BY <3>2
    <3>4. QED
      BY <2>1, <3>1, <3>3 DEF ClaimInv, OneClaimTimer
  <2>2. CASE claim' = [claim EXCEPT !.buying = "no"]
    BY <1>1, <2>2 DEF ClaimInv, OneClaimTimer
  <2>3. QED
    BY <1>5, <2>1, <2>2 DEF PurchaseAnswered
<1>6. CASE NgOnDestroy
  <2>1. PICK c : c = Stopped(claim)
    OBVIOUS
  <2>2. Kept(c)
    BY <1>1, <1>2, <2>1
  <2>3. Kept([c EXCEPT !.open = FALSE])
    BY <2>2
  <2>4. QED
    BY <1>6, <2>1, <2>3 DEF NgOnDestroy, ClaimInv, OneClaimTimer
<1>7. CASE BuyLicence
  BY <1>1, <1>7 DEF BuyLicence, ClaimInv, OneClaimTimer
<1>8. CASE Linked
  BY <1>1, <1>8 DEF Linked, ClaimInv, OneClaimTimer
<1>9. CASE CheckClaim \/ ClaimFails
  BY <1>1, <1>9 DEF CheckClaim, ClaimFails, ClaimInv, OneClaimTimer
<1>10. CASE ServerTells
  BY <1>1, <1>10 DEF ServerTells, ClaimInv, OneClaimTimer
<1>11. CASE Purchase
  BY <1>1, <1>11 DEF Purchase, ClaimInv, OneClaimTimer
<1>12. CASE \E state \in {"none", "pending", "installed"} : ClaimAnswered(state)
  BY <1>4, <1>12 DEF ClaimInv, OneClaimTimer
<1>13. QED
  BY <1>5, <1>6, <1>7, <1>8, <1>9, <1>10, <1>11, <1>12 DEF ClaimNext

LEMMA QueueKept == QueueInv /\ QueueNext => QueueInv'
<1> SUFFICES ASSUME QueueInv, NEW c \in QueueCases, ResolveCase(c) \/ CaseAnswered(c)
             PROVE  QueueInv'
  BY DEF QueueNext
<1> USE DEF QueueInv, OneDecisionAtATime
<1>1. CASE ResolveCase(c)
  <2>1. /\ queue.busy # c
        /\ queue' = [queue EXCEPT !.busy = c, !.sent[c] = @ + 1,
              !.between = @ \cup {d \in QueueCases \ {c} : queue.sent[d] > 0}]
    BY <1>1 DEF ResolveCase
  <2>2. /\ queue' = [busy |-> queue'.busy, sent |-> [d \in QueueCases |-> queue'.sent[d]], between |-> queue'.between]
        /\ queue'.busy = c /\ queue'.sent[c] = queue.sent[c] + 1
        /\ \A d \in QueueCases : d # c => queue'.sent[d] = queue.sent[d]
        /\ queue'.between = queue.between \cup {d \in QueueCases \ {c} : queue.sent[d] > 0}
    <3>1. PICK more : more = queue.between \cup {d \in QueueCases \ {c} : queue.sent[d] > 0}
      OBVIOUS
    <3>2. queue' = [queue EXCEPT !.busy = c, !.sent[c] = queue.sent[c] + 1, !.between = more]
      BY <2>1, <3>1
    <3>3. queue' = [busy |-> c, sent |-> [queue.sent EXCEPT ![c] = queue.sent[c] + 1], between |-> more]
      BY <3>2
    <3>4. queue.sent = [d \in QueueCases |-> queue.sent[d]] /\ queue.sent[c] \in Nat
      OBVIOUS
    <3>5. PICK n : n = queue.sent[c] + 1
      OBVIOUS
    <3>6. queue'.sent = [queue.sent EXCEPT ![c] = n]
      BY <3>3, <3>5
    <3>7. QED
      BY <3>1, <3>3, <3>4, <3>5, <3>6
  <2>3. ASSUME NEW d \in QueueCases
        PROVE  /\ queue'.sent[d] \in Nat
               /\ queue'.sent[d] > 0 /\ queue'.busy # d => d \in queue'.between
               /\ queue'.sent[d] > 1 => d \in queue'.between
    BY <2>1, <2>2
  <2>4. QED
    BY <2>2, <2>3
<1>2. CASE CaseAnswered(c)
  <2>1. /\ queue.sent[c] > 0
        /\ queue' = [queue EXCEPT !.busy = Nobody, !.sent[c] = @ - 1,
              !.between = {d \in @ \cup (QueueCases \ {c}) : queue.sent[d] > IF d = c THEN 1 ELSE 0}]
    BY <1>2 DEF CaseAnswered
  <2>2. /\ queue' = [busy |-> queue'.busy, sent |-> [d \in QueueCases |-> queue'.sent[d]], between |-> queue'.between]
        /\ queue'.sent[c] = queue.sent[c] - 1
        /\ \A d \in QueueCases : d # c => queue'.sent[d] = queue.sent[d]
        /\ queue'.between = {d \in queue.between \cup (QueueCases \ {c}) : queue.sent[d] > IF d = c THEN 1 ELSE 0}
    <3>1. PICK more : more = {d \in queue.between \cup (QueueCases \ {c}) : queue.sent[d] > IF d = c THEN 1 ELSE 0}
      OBVIOUS
    <3>2. queue' = [queue EXCEPT !.busy = Nobody, !.sent[c] = queue.sent[c] - 1, !.between = more]
      BY <2>1, <3>1
    <3>3. queue' = [busy |-> Nobody, sent |-> [queue.sent EXCEPT ![c] = queue.sent[c] - 1], between |-> more]
      BY <3>2
    <3>4. queue.sent = [d \in QueueCases |-> queue.sent[d]] /\ queue.sent[c] \in Nat
      OBVIOUS
    <3>5. PICK n : n = queue.sent[c] - 1
      OBVIOUS
    <3>6. queue'.sent = [queue.sent EXCEPT ![c] = n]
      BY <3>3, <3>5
    <3>7. QED
      BY <3>1, <3>3, <3>4, <3>5, <3>6
  <2>3. ASSUME NEW d \in QueueCases
        PROVE  /\ queue'.sent[d] \in Nat
               /\ queue'.sent[d] > 0 => d \in queue'.between
    <3>1. CASE d = c
      BY <2>1, <2>2, <3>1
    <3>2. CASE d # c
      BY <2>1, <2>2, <3>2
    <3>3. QED
      BY <3>1, <3>2
  <2>4. QED
    BY <2>2, <2>3
<1>3. QED
  BY <1>1, <1>2

LEMMA EditsKept == EditsInv /\ EditsNext => EditsInv'
<1> SUFFICES ASSUME EditsInv, EditsNext
             PROVE  EditsInv'
  OBVIOUS
<1> USE DEF EditsInv
<1>1. CASE ApplyPreset
  <2>1. PICK beyond, bounded, differ :
           /\ edits' = Marked([edits EXCEPT !.differ = differ, !.editedSince = TRUE,
                                  !.beyond = beyond, !.bounded = bounded])
           /\ differ = edits.differ \cup {edits.current} /\ bounded = edits.bounded \ {edits.current}
    BY <1>1 DEF ApplyPreset
  <2>2. PICK moved : moved = [edits EXCEPT !.differ = differ, !.editedSince = TRUE,
                                !.beyond = beyond, !.bounded = bounded]
    OBVIOUS
  <2>3. edits' = [moved EXCEPT !.dirty = TRUE]
    BY <2>1, <2>2 DEF Marked
  <2>4. /\ edits'.differ = differ /\ edits'.bounded = bounded /\ edits'.dirty
        /\ edits'.current = edits.current /\ edits'.save = edits.save
        /\ edits'.reload = edits.reload /\ edits'.excused = edits.excused
        /\ edits' = [f \in {"current", "differ", "dirty", "beyond", "bounded", "save", "editedSince",
                            "reload", "excused", "clicks"} |-> edits'[f]]
    BY <2>2, <2>3
  <2>5. differ \ bounded \subseteq (edits.differ \ edits.bounded) \cup {edits.current}
    BY <2>1
  <2>6. ~edits.reload
    BY <1>1 DEF ApplyPreset
  <2>7. QED
    BY <2>4, <2>5, <2>6
<1>2. ASSUME NEW s \in Shops, ChooseChannel(s)
      PROVE  EditsInv'
  BY <1>2 DEF ChooseChannel
<1>3. CASE Save
  BY <1>3 DEF Save
<1>4. CASE SaveAnswered
  <2> DEFINE asPosted == {edits.save} \ edits.beyond
             clamped  == {edits.save} \cap edits.beyond
  <2>1. CASE edits' = [edits EXCEPT !.save = Blank, !.dirty = FALSE,
                       !.differ = IF edits.editedSince THEN @ ELSE @ \ asPosted,
                       !.bounded = IF edits.editedSince THEN @ ELSE @ \cup clamped,
                       !.excused = @ \/ edits.editedSince]
    <3>1. CASE edits.editedSince
      BY <2>1, <3>1
    <3>2. CASE ~edits.editedSince
      <4>1. PICK differ, bounded : /\ differ = edits.differ \ asPosted
                                   /\ bounded = edits.bounded \cup clamped
        OBVIOUS
      <4>2. differ \ bounded \subseteq (edits.differ \ edits.bounded) \ {edits.save}
        BY <4>1
      <4> HIDE DEF asPosted, clamped
      <4>3. edits' = [edits EXCEPT !.save = Blank, !.dirty = FALSE, !.differ = differ,
                         !.bounded = bounded, !.excused = @ \/ edits.editedSince]
        BY <2>1, <3>2, <4>1
      <4>4. edits.excused \/ edits.save = edits.current
        BY <1>4 DEF SaveAnswered
      <4>5. QED
        BY <3>2, <4>2, <4>3, <4>4
    <3>3. QED
      BY <3>1, <3>2
  <2>2. CASE edits' = [edits EXCEPT !.save = Blank]
    BY <2>2
  <2>3. QED
    BY <1>4, <2>1, <2>2 DEF SaveAnswered
<1>5. CASE ReloadAll
  BY <1>5 DEF ReloadAll
<1>6. CASE Reloaded
  BY <1>6 DEF Reloaded
<1>7. QED
  BY <1>1, <1>2, <1>3, <1>4, <1>5, <1>6 DEF EditsNext

LEMMA PanelKept == PanelInv /\ PanelNext => PanelInv'
<1> SUFFICES ASSUME PanelInv, PanelNext
             PROVE  PanelInv'
  OBVIOUS
<1> USE DEF PanelInv, Asking
<1>1. ASSUME NEW o \in PageOrders, Answered(o)
      PROVE  PanelInv'
  <2>1. panel.loads[o] > 0 /\ panel.loads[o] \in Nat
    BY <1>1 DEF Answered
  <2>2. PICK n : n = panel.loads[o] - 1
    OBVIOUS
  <2>3. PICK loads : loads = [panel.loads EXCEPT ![o] = n]
    OBVIOUS
  <2>4. /\ loads = [p \in PageOrders |-> loads[p]] /\ loads[o] = n /\ n \in Nat
        /\ \A p \in PageOrders : p # o => loads[p] = panel.loads[p]
    BY <2>1, <2>2, <2>3
  <2>5. CASE panel' = [panel EXCEPT !.loads = loads, !.data = o]
    <3>1. /\ panel'.loads = loads /\ panel'.data = o
          /\ panel'.order = panel.order /\ panel'.paid = panel.paid
          /\ panel'.loadedFor = panel.loadedFor /\ panel'.overtaken = panel.overtaken
      BY <2>5
    <3>2. panel' = [f \in {"order", "paid", "loadedFor", "data", "loads", "overtaken"} |-> panel'[f]]
      BY <2>5
    <3>3. QED
      BY <2>1, <2>2, <2>4, <3>1, <3>2
  <2>6. CASE panel' = [panel EXCEPT !.loads = loads, !.overtaken = TRUE]
    <3>1. /\ panel'.loads = loads /\ panel'.overtaken
          /\ panel'.order = panel.order /\ panel'.paid = panel.paid
          /\ panel'.loadedFor = panel.loadedFor
      BY <2>6
    <3>2. panel' = [f \in {"order", "paid", "loadedFor", "data", "loads", "overtaken"} |-> panel'[f]]
      BY <2>6
    <3>3. QED
      BY <2>4, <3>1, <3>2
  <2>7. QED
    BY <1>1, <2>2, <2>3, <2>5, <2>6 DEF Answered
<1>2. ASSUME NEW o \in PageOrders, NEW paid \in BOOLEAN, Emit(o, paid)
      PROVE  PanelInv'
  <2>1. CASE ~paid \/ panel.loadedFor = o
    <3>1. panel' = [panel EXCEPT !.order = o, !.paid = paid]
      BY <1>2, <2>1 DEF Emit
    <3>2. QED
      BY <2>1, <3>1
  <2>2. CASE ~(~paid \/ panel.loadedFor = o)
    <3>1. PICK n, over : n = panel.loads[o] + 1 /\ over = (panel.overtaken \/ Asking)
      OBVIOUS
    <3>2. PICK loads : loads = [panel.loads EXCEPT ![o] = n]
      OBVIOUS
    <3>3. /\ loads = [p \in PageOrders |-> loads[p]] /\ loads[o] = n
          /\ n \in Nat /\ n = panel.loads[o] + 1
          /\ \A p \in PageOrders : p # o => loads[p] = panel.loads[p]
      BY <3>1, <3>2
    <3>4. panel' = [panel EXCEPT !.order = o, !.paid = paid, !.loadedFor = o, !.loads = loads,
                                 !.overtaken = over]
      BY <1>2, <2>2, <3>1, <3>2 DEF Emit
    <3>5. /\ panel'.order = o /\ panel'.paid = paid /\ panel'.loadedFor = o
          /\ panel'.loads = loads /\ panel'.overtaken = over
          /\ panel' = [f \in {"order", "paid", "loadedFor", "data", "loads", "overtaken"} |-> panel'[f]]
      BY <3>4
    <3>6. ASSUME ~over
          PROVE  /\ \A p \in PageOrders : loads[p] > 0 => p = o /\ loads[p] = 1
                 /\ loads[o] > 0
      <4>1. \A p \in PageOrders : panel.loads[p] \in Nat /\ ~(panel.loads[p] > 0)
        BY <3>1, <3>6
      <4>2. \A p \in PageOrders : panel.loads[p] = 0
        BY <4>1
      <4>3. loads[o] = 1 /\ \A p \in PageOrders : p # o => loads[p] = 0
        BY <3>3, <4>2
      <4>4. QED
        BY <4>3
    <3>7. QED
      BY <3>3, <3>5, <3>6
  <2>3. QED
    BY <2>1, <2>2
<1>3. QED
  BY <1>1, <1>2 DEF PanelNext

ScreensInv == ClaimInv /\ QueueInv /\ EditsInv /\ PanelInv

LEMMA ScreensInvInit == Init => ScreensInv
<1> SUFFICES ASSUME Init
             PROVE  ScreensInv
  OBVIOUS
<1>1. ClaimInv
  BY DEF Init, ClaimInit, ClaimInv, OneClaimTimer
<1>2. QueueInv
  BY DEF Init, QueueInit, QueueInv, OneDecisionAtATime
<1>3. EditsInv
  <2>1. PICK s : s = CHOOSE t \in Shops : TRUE
    OBVIOUS
  <2>2. edits = [current |-> s, differ |-> {}, dirty |-> FALSE, beyond |-> {}, bounded |-> {},
                 save |-> Blank, editedSince |-> FALSE, reload |-> FALSE, excused |-> FALSE, clicks |-> 0]
    BY <2>1 DEF Init, EditsInit
  <2>3. QED
    BY <2>2 DEF EditsInv
<1>4. PanelInv
  <2>1. PICK none : none = [o \in PageOrders |-> 0]
    OBVIOUS
  <2>2. panel = [order |-> NoOrder, paid |-> FALSE, loadedFor |-> NoOrder, data |-> NoOrder,
                 loads |-> none, overtaken |-> FALSE]
    BY <2>1 DEF Init, PanelInit
  <2>3. /\ panel = [f \in {"order", "paid", "loadedFor", "data", "loads", "overtaken"} |-> panel[f]]
        /\ panel.loads = none /\ panel.data = panel.loadedFor /\ ~panel.paid
    BY <2>2
  <2>4. none = [o \in PageOrders |-> none[o]] /\ \A o \in PageOrders : none[o] = 0
    BY <2>1
  <2>5. QED
    BY <2>3, <2>4 DEF PanelInv
<1>5. QED
  BY <1>1, <1>2, <1>3, <1>4 DEF ScreensInv

LEMMA ScreensInvStep == ScreensInv /\ [Next]_vars => ScreensInv'
<1> SUFFICES ASSUME ScreensInv, [Next]_vars
             PROVE  ScreensInv'
  OBVIOUS
<1>1. ClaimNext \/ UNCHANGED claim
  BY DEF Next, vars, screenVars
<1>2. QueueNext \/ UNCHANGED queue
  BY DEF Next, vars, screenVars
<1>3. EditsNext \/ UNCHANGED edits
  BY DEF Next, vars, screenVars
<1>4. PanelNext \/ UNCHANGED panel
  BY DEF Next, vars, Elsewhere
<1>5. ClaimInv'
  BY <1>1, ClaimKept DEF ScreensInv, ClaimInv, OneClaimTimer
<1>6. QueueInv'
  BY <1>2, QueueKept DEF ScreensInv, QueueInv, OneDecisionAtATime
<1>7. EditsInv'
  BY <1>3, EditsKept DEF ScreensInv, EditsInv
<1>8. PanelInv'
  BY <1>4, PanelKept DEF ScreensInv, PanelInv, Asking
<1>9. QED
  BY <1>5, <1>6, <1>7, <1>8 DEF ScreensInv

(* One interval polls at a time, no decision is sent twice, what is not    *)
(* saved is marked, and an assessment is shown with its order, up to what  *)
(* each part excepts (of the marks: values that a save brought within      *)
(* bounds): for any number of requests in flight and whatever    *)
(* order their answers come in (fraud-prevention.component.ts,             *)
(* order-fraud-panel.component.ts).                                        *)
THEOREM ScreensAreTrue == Spec => []ScreensKeepTrack
<1>1. ScreensInv => ScreensKeepTrack
  BY DEF ScreensInv, ScreensKeepTrack, ClaimInv, QueueInv, EditsInv, PanelInv, UnsavedIsMarked, ShownWhereItBelongs
<1>2. QED
  BY <1>1, ScreensInvInit, ScreensInvStep, PTL DEF Spec

-----------------------------------------------------------------------------
(* The words on the screen.                                                *)

TextFields == {"current", "shown", "dirty", "loads", "saves", "resets", "overtaken", "saved", "clicks"}

TextsShape(t) ==
    /\ t = [f \in TextFields |-> t[f]]
    /\ t.loads = [s \in Shops |-> t.loads[s]]
    /\ \A s \in Shops : t.loads[s] \in Nat
    /\ t.current \in Shops

\* At most one load is under way, for the chosen channel; without one the
\* words shown are the chosen channel's.
Tracked(t) ==
    /\ TextsShape(t)
    /\ t.overtaken
       \/ /\ \A s \in Shops : t.loads[s] > 0 => s = t.current /\ t.loads[s] = 1
          /\ Loading(t) \/ t.shown \in {Blank, t.current}

(* A load that starts while another is under way is the exception; one     *)
(* that starts alone is for the channel that is chosen.                    *)
LEMMA LoadTracked ==
  ASSUME NEW t, TextsShape(t)
  PROVE  Tracked(LoadTemplates(t))
<1>1. PICK here, n, over : here = t.current /\ n = t.loads[here] + 1 /\ over = (t.overtaken \/ Loading(t))
  OBVIOUS
<1>2. PICK loads : loads = [t.loads EXCEPT ![here] = n]
  OBVIOUS
<1>3. PICK u : u = LoadTemplates(t)
  OBVIOUS
<1>4. u = [t EXCEPT !.dirty = FALSE, !.loads = loads, !.overtaken = over]
  BY <1>1, <1>2, <1>3 DEF LoadTemplates
<1>5. /\ u = [f \in TextFields |-> u[f]] /\ u.loads = loads /\ u.overtaken = over
      /\ u.current = here /\ u.shown = t.shown
  BY <1>1, <1>4 DEF TextsShape, TextFields
<1>6. here \in Shops /\ n \in Nat /\ n > 0
  BY <1>1 DEF TextsShape
<1>7. /\ loads = [s \in Shops |-> loads[s]] /\ loads[here] = n
      /\ \A s \in Shops : s # here => loads[s] = t.loads[s]
  BY <1>2, <1>6 DEF TextsShape
<1>8. \A s \in Shops : loads[s] \in Nat
  BY <1>6, <1>7 DEF TextsShape
<1>9. TextsShape(u)
  BY <1>5, <1>6, <1>7, <1>8 DEF TextsShape
<1>10. ASSUME ~Loading(t)
       PROVE  /\ \A s \in Shops : u.loads[s] > 0 => s = u.current /\ u.loads[s] = 1
              /\ Loading(u)
  <2>1. \A s \in Shops : t.loads[s] \in Nat /\ ~(t.loads[s] > 0)
    BY <1>10 DEF Loading, TextsShape
  <2>2. \A s \in Shops : t.loads[s] = 0
    BY <2>1
  <2>3. n = 1
    BY <1>1, <1>6, <2>2
  <2>4. Loading(u)
    BY <1>5, <1>6, <1>7 DEF Loading
  <2>5. QED
    BY <1>5, <1>7, <2>2, <2>3, <2>4
<1>11. CASE Loading(t)
  <2>1. u.overtaken
    BY <1>1, <1>5, <1>11
  <2>2. QED
    BY <1>3, <1>9, <2>1 DEF Tracked
<1>12. CASE ~Loading(t)
  BY <1>3, <1>9, <1>10, <1>12 DEF Tracked
<1>13. QED
  BY <1>11, <1>12

\* What is not tracked may change.
LEMMA StillTracked ==
  ASSUME NEW t, Tracked(t), NEW u, u = [f \in TextFields |-> u[f]],
         u.current = t.current, u.shown = t.shown, u.loads = t.loads, u.overtaken = t.overtaken
  PROVE  Tracked(u)
BY DEF Tracked, TextsShape, Loading

LEMMA TextsKept == Tracked(texts) /\ TextsNext => Tracked(texts')
<1> SUFFICES ASSUME Tracked(texts), TextsNext
             PROVE  Tracked(texts')
  OBVIOUS
<1>0. TextsShape(texts)
  BY DEF Tracked
<1>1. ASSUME NEW s \in Shops, OnChannelChange(s)
      PROVE  Tracked(texts')
  <2>1. PICK t : t = [texts EXCEPT !.current = s]
    OBVIOUS
  <2>2. TextsShape(t)
    BY <1>0, <2>1 DEF TextsShape, TextFields
  <2>3. QED
    BY <1>1, <2>1, <2>2, LoadTracked DEF OnChannelChange
<1>2. CASE Go
  BY <1>0, <1>2, LoadTracked DEF Go
<1>3. ASSUME NEW s \in Shops, TemplatesAnswered(s)
      PROVE  Tracked(texts')
  <2>1. PICK n : n = texts.loads[s] - 1
    OBVIOUS
  <2>2. texts.loads[s] > 0 /\ texts.loads[s] \in Nat /\ n \in Nat
    BY <1>0, <1>3, <2>1 DEF TemplatesAnswered, TextsShape
  <2>3. PICK loads : loads = [texts.loads EXCEPT ![s] = n]
    OBVIOUS
  <2>4. /\ loads = [r \in Shops |-> loads[r]] /\ loads[s] = n
        /\ \A r \in Shops : loads[r] \in Nat
        /\ \A r \in Shops : r # s => loads[r] = texts.loads[r]
    BY <1>0, <2>2, <2>3 DEF TextsShape
  <2>5. CASE texts' = [texts EXCEPT !.loads = loads, !.shown = s]
    <3>1. /\ texts' = [f \in TextFields |-> texts'[f]] /\ texts'.loads = loads /\ texts'.shown = s
          /\ texts'.current = texts.current /\ texts'.overtaken = texts.overtaken
      BY <1>0, <2>5 DEF TextsShape, TextFields
    <3>2. TextsShape(texts')
      BY <1>0, <2>4, <3>1 DEF TextsShape
    <3>3. CASE texts.overtaken
      BY <3>1, <3>2, <3>3 DEF Tracked
    <3>4. CASE ~texts.overtaken
      <4>1. \A r \in Shops : texts.loads[r] > 0 => r = texts.current /\ texts.loads[r] = 1
        BY <3>4 DEF Tracked
      <4>2. s = texts.current
        BY <2>2, <4>1
      <4>3. \A r \in Shops : texts'.loads[r] > 0 => r = texts'.current /\ texts'.loads[r] = 1
        BY <2>1, <2>2, <2>4, <3>1, <4>1
      <4>4. QED
        BY <3>1, <3>2, <4>2, <4>3 DEF Tracked
    <3>5. QED
      BY <3>3, <3>4
  <2>6. CASE texts' = [texts EXCEPT !.loads = loads, !.overtaken = TRUE]
    <3>1. /\ texts' = [f \in TextFields |-> texts'[f]] /\ texts'.loads = loads
          /\ texts'.current = texts.current /\ texts'.overtaken = TRUE
      BY <1>0, <2>6 DEF TextsShape, TextFields
    <3>2. TextsShape(texts')
      BY <1>0, <2>4, <3>1 DEF TextsShape
    <3>3. QED
      BY <3>1, <3>2 DEF Tracked
  <2>7. QED
    BY <1>3, <2>1, <2>3, <2>5, <2>6 DEF TemplatesAnswered
<1>4. CASE OnEditorInput \/ SaveTemplate \/ ResetKinds
  <2>1. /\ texts' = [f \in TextFields |-> texts'[f]]
        /\ texts'.current = texts.current /\ texts'.shown = texts.shown
        /\ texts'.loads = texts.loads /\ texts'.overtaken = texts.overtaken
    BY <1>0, <1>4 DEF OnEditorInput, SaveTemplate, ResetKinds, TextsShape, TextFields
  <2>2. QED
    BY <2>1, StillTracked
<1>5. CASE SaveTemplateAnswered
  <2>1. PICK t : t = [texts EXCEPT !.saves = @ - 1]
    OBVIOUS
  <2>2. /\ t = [f \in TextFields |-> t[f]]
        /\ t.current = texts.current /\ t.shown = texts.shown
        /\ t.loads = texts.loads /\ t.overtaken = texts.overtaken
    BY <1>0, <2>1 DEF TextsShape, TextFields
  <2>3. Tracked(t) /\ Tracked(LoadTemplates(t))
    BY <2>2, StillTracked, LoadTracked DEF Tracked
  <2>4. texts' \in {t, LoadTemplates(t)}
    BY <1>5, <2>1 DEF SaveTemplateAnswered
  <2>5. QED
    BY <2>3, <2>4
<1>6. CASE ResetAnswered
  <2>1. PICK t : t = [texts EXCEPT !.resets = @ - 1]
    OBVIOUS
  <2>2. /\ t = [f \in TextFields |-> t[f]]
        /\ t.current = texts.current /\ t.shown = texts.shown
        /\ t.loads = texts.loads /\ t.overtaken = texts.overtaken
    BY <1>0, <2>1 DEF TextsShape, TextFields
  <2>3. Tracked(t) /\ Tracked(LoadTemplates(t))
    BY <2>2, StillTracked, LoadTracked DEF Tracked
  <2>4. texts' \in {t, LoadTemplates(t)}
    BY <1>6, <2>1 DEF ResetAnswered
  <2>5. QED
    BY <2>3, <2>4
<1>7. QED
  BY <1>1, <1>2, <1>3, <1>4, <1>5, <1>6 DEF TextsNext

LEMMA TextsInit1 == Init => Tracked(texts)
<1> SUFFICES ASSUME Init
             PROVE  Tracked(texts)
  OBVIOUS
<1>1. PICK s : s = CHOOSE t \in Shops : TRUE
  OBVIOUS
<1>2. s \in Shops
  BY <1>1, ScreenAssumption
<1>3. PICK none : none = [t \in Shops |-> 0]
  OBVIOUS
<1>4. none = [t \in Shops |-> none[t]] /\ \A t \in Shops : none[t] = 0
  BY <1>3
<1>5. texts = [current |-> s, shown |-> Blank, dirty |-> FALSE,
               loads |-> none, saves |-> 0, resets |-> 0,
               overtaken |-> FALSE, saved |-> Blank, clicks |-> 0]
  BY <1>1, <1>3 DEF Init, TextsInit
<1>6. /\ texts = [f \in TextFields |-> texts[f]]
      /\ texts.current = s /\ texts.shown = Blank /\ texts.loads = none
  BY <1>5 DEF TextFields
<1>7. QED
  BY <1>2, <1>4, <1>6 DEF Tracked, TextsShape

(* Words of one channel are posted under another one only while they load, *)
(* or after loads that overtook each other or failed: with any number of   *)
(* channels and of loads, saves and resets in flight                       *)
(* (saveTemplate, fraud-prevention.component.ts).                          *)
THEOREM WordsArePosted == Spec => WordsStayInChannel
<1>1. Tracked(texts) /\ [Next]_vars => Tracked(texts)'
  <2> SUFFICES ASSUME Tracked(texts), [Next]_vars
               PROVE  Tracked(texts)'
    OBVIOUS
  <2>1. TextsNext \/ UNCHANGED texts
    BY DEF Next, vars, screenVars
  <2>2. Tracked(texts')
    BY <2>1, TextsKept
  <2>3. QED
    BY <2>2 DEF Tracked, TextsShape, Loading
<1>2. Tracked(texts) /\ [Next]_vars =>
         [SaveTemplate /\ ~Loading(texts) /\ ~texts.overtaken => texts'.saved = texts.current]_texts
  <2> SUFFICES ASSUME Tracked(texts), SaveTemplate, ~Loading(texts), ~texts.overtaken
               PROVE  texts'.saved = texts.current
    OBVIOUS
  <2>1. texts.shown = texts.current
    BY DEF Tracked, SaveTemplate
  <2>2. texts'.saved = texts.shown
    BY DEF Tracked, TextsShape, TextFields, SaveTemplate
  <2>3. QED
    BY <2>1, <2>2
<1>3. QED
  BY <1>1, <1>2, TextsInit1, PTL DEF Spec, WordsStayInChannel

-----------------------------------------------------------------------------
(* The messages.                                                           *)

\* Words of the moment count for everyone who has decided.
MessagesShape ==
    /\ hands = [a \in Actors |-> [at |-> hands[a].at, kind |-> hands[a].kind, since |-> hands[a].since]]
    /\ mails = [a \in Actors |->
          [team |-> [at |-> mails[a].team.at, words |-> mails[a].team.words],
           customer |-> [at |-> mails[a].customer.at, words |-> mails[a].customer.words]]]

HeardInv(a) ==
    /\ hands[a].since = {} \/ {0, words.row} \subseteq hands[a].since
    /\ hands[a].at \in {"idle", "deciding"} => mails[a].customer.at = "none"
    /\ hands[a].at \in {"concluding", "telling", "told", "announcing", "waiting", "mailing"} =>
          hands[a].since # {} /\ (a = "guard" \/ hands[a].kind \in review.written)

MessagesInv == MessagesShape /\ ToldWhatHappened /\ \A a \in Actors : HeardInv(a)

LEMMA MessagesInvInit == Init => MessagesInv
<1> SUFFICES ASSUME Init
             PROVE  MessagesInv
  OBVIOUS
<1>1. /\ hands = [a \in Actors |-> [at |-> "idle", kind |-> "none", since |-> {}]]
      /\ mails = [a \in Actors |-> [team |-> NoMail, customer |-> NoMail]]
  BY DEF Init, MessagesInit
<1>2. MessagesShape
  BY <1>1 DEF MessagesShape, NoMail
<1>3. \A a \in Actors : /\ hands[a].at = "idle" /\ hands[a].since = {}
                        /\ mails[a].customer.at = "none"
  BY <1>1 DEF NoMail
<1>4. QED
  BY <1>2, <1>3 DEF MessagesInv, ToldWhatHappened, HeardInv

\* What is known of each actor: where it is, and what the customer hears.
Heard(a) ==
    /\ mails[a].customer.at # "none" =>
          /\ IF a = "guard" THEN hands[a].kind \in {"review", "block"}
             ELSE hands[a].kind \in review.written
          /\ mails[a].customer.words \in hands[a].since
    /\ HeardInv(a)

LEMMA MessagesInvIs == MessagesInv <=> MessagesShape /\ \A a \in Actors : Heard(a)
BY DEF MessagesInv, ToldWhatHappened, Heard

\* An actor that does not move, while what was written stays written.
LEMMA HeardStays ==
  ASSUME NEW a, Heard(a), hands'[a] = hands[a], mails'[a].customer = mails[a].customer,
         review.written \subseteq review'.written, words'.row = words.row
  PROVE  Heard(a)'
BY DEF Heard, HeardInv

\* One actor's hands move, and perhaps its mails.
HandsMove(a, at, kind, since) ==
    hands' = [hands EXCEPT ![a] = [at |-> at, kind |-> kind, since |-> since]]

MailMoves(a, mail) ==
    /\ mails' = [mails EXCEPT ![a] = mail]
    /\ mail = [team |-> [at |-> mail.team.at, words |-> mail.team.words],
               customer |-> [at |-> mail.customer.at, words |-> mail.customer.words]]

\* What it then has to show: what Heard says of it.
Fits(a, at, kind, since, mail) ==
    /\ since = {} \/ {0, words.row} \subseteq since
    /\ at \in {"idle", "deciding"} => mail.customer.at = "none"
    /\ at \in {"concluding", "telling", "told", "announcing", "waiting", "mailing"} =>
          since # {} /\ (a = "guard" \/ kind \in review'.written)
    /\ mail.customer.at # "none" =>
          /\ IF a = "guard" THEN kind \in {"review", "block"} ELSE kind \in review'.written
          /\ mail.customer.words \in since

LEMMA OneHandMoves ==
  ASSUME MessagesInv, NEW a \in Actors, NEW at, NEW kind, NEW since, NEW mail,
         HandsMove(a, at, kind, since), MailMoves(a, mail), Fits(a, at, kind, since, mail),
         review.written \subseteq review'.written, words' = words
  PROVE  MessagesInv'
<1>1. /\ hands'[a].at = at /\ hands'[a].kind = kind /\ hands'[a].since = since /\ mails'[a] = mail
      /\ \A b \in Actors : b # a => hands'[b] = hands[b] /\ mails'[b] = mails[b]
  BY DEF HandsMove, MailMoves, MessagesInv, MessagesShape
<1>2. MessagesShape'
  BY DEF HandsMove, MailMoves, MessagesInv, MessagesShape
<1>3. Heard(a)'
  BY <1>1 DEF Fits, Heard, HeardInv
<1>4. \A b \in Actors : b # a => Heard(b)'
  BY <1>1, HeardStays, MessagesInvIs
<1>5. QED
  BY <1>2, <1>3, <1>4 DEF MessagesInv, ToldWhatHappened, Heard

Underneath == {"concluding", "telling", "told", "announcing", "waiting", "mailing"}

\* It goes on to another place, and nothing else happens.
LEMMA OnlyGoes ==
  ASSUME MessagesInv, NEW a \in Actors, NEW at, Goes(a, at), UNCHANGED <<mails, review, words>>,
         hands[a].at \in Underneath, at \in Underneath \cup {"done"}
  PROVE  MessagesInv'
<1>1. PICK kind, since, mail : kind = hands[a].kind /\ since = hands[a].since /\ mail = mails[a]
  OBVIOUS
<1>2. HandsMove(a, at, kind, since)
  <2>1. [hands[a] EXCEPT !.at = at] = [at |-> at, kind |-> kind, since |-> since]
    BY <1>1 DEF MessagesInv, MessagesShape
  <2>2. hands' = [hands EXCEPT ![a] = [hands[a] EXCEPT !.at = at]]
    BY DEF Goes
  <2>3. QED
    BY <2>1, <2>2 DEF HandsMove
<1>3. MailMoves(a, mail)
  BY <1>1 DEF MailMoves, MessagesInv, MessagesShape
<1>4. Heard(a)
  BY MessagesInvIs
<1>5. at \notin {"idle", "deciding"}
  BY DEF Underneath
<1>6. Fits(a, at, kind, since, mail)
  BY <1>1, <1>4, <1>5 DEF Fits, Heard, HeardInv, Underneath
<1>7. review.written \subseteq review'.written /\ words' = words
  OBVIOUS
<1>8. QED
  BY <1>2, <1>3, <1>6, <1>7, OneHandMoves

\* A mail gets another place: what it says has been said already.
LEMMA OnlyMails ==
  ASSUME MessagesInv, NEW a \in Actors, NEW to \in {"team", "customer"},
         mails[a][to].at = "sending", mails' = [mails EXCEPT ![a][to].at = "over"],
         UNCHANGED <<hands, review, words>>
  PROVE  MessagesInv'
<1>1. PICK mail, kind, since, at :
         mail = [mails[a] EXCEPT ![to].at = "over"] /\ kind = hands[a].kind
         /\ since = hands[a].since /\ at = hands[a].at
  OBVIOUS
<1>2. HandsMove(a, at, kind, since)
  BY <1>1 DEF HandsMove, MessagesInv, MessagesShape
<1>3. mails[a] = [team |-> [at |-> mails[a].team.at, words |-> mails[a].team.words],
                  customer |-> [at |-> mails[a].customer.at, words |-> mails[a].customer.words]]
  BY DEF MessagesInv, MessagesShape
<1>4. /\ mail = [team |-> [at |-> mail.team.at, words |-> mail.team.words],
                 customer |-> [at |-> mail.customer.at, words |-> mail.customer.words]]
      /\ mail.customer.words = mails[a].customer.words
      /\ (mail.customer.at # "none") <=> (mails[a].customer.at # "none")
  <2>1. CASE to = "team"
    BY <1>1, <1>3, <2>1
  <2>2. CASE to = "customer"
    BY <1>1, <1>3, <2>2
  <2>3. QED
    BY <2>1, <2>2
<1>5. MailMoves(a, mail)
  <2>1. mails' = [mails EXCEPT ![a] = mail]
    BY <1>1
  <2>2. QED
    BY <1>4, <2>1 DEF MailMoves
<1>6. Heard(a)
  BY MessagesInvIs
<1>7. Fits(a, at, kind, since, mail)
  BY <1>1, <1>4, <1>6 DEF Fits, Heard, HeardInv
<1>8. review.written \subseteq review'.written /\ words' = words
  OBVIOUS
<1>9. QED
  BY <1>2, <1>5, <1>7, <1>8, OneHandMoves

\* Where each actor's words stand, after a rewrite as before.
LEMMA RewriteKeeps ==
  ASSUME MessagesInv, Rewrite
  PROVE  MessagesInv'
<1>1. PICK row : /\ words' = [row |-> row, changes |-> words.changes + 1]
                 /\ hands' = [a \in Actors |-> IF hands[a].since = {} THEN hands[a]
                                               ELSE [hands[a] EXCEPT !.since = @ \cup {row}]]
  BY DEF Rewrite
<1>2. mails' = mails /\ review' = review /\ words'.row = row
  BY <1>1 DEF Rewrite
<1>3. ASSUME NEW a \in Actors
      PROVE  /\ hands'[a] = [at |-> hands'[a].at, kind |-> hands'[a].kind, since |-> hands'[a].since]
             /\ hands'[a].at = hands[a].at /\ hands'[a].kind = hands[a].kind
             /\ hands'[a].since = IF hands[a].since = {} THEN {} ELSE hands[a].since \cup {row}
  <2>1. hands[a] = [at |-> hands[a].at, kind |-> hands[a].kind, since |-> hands[a].since]
    BY DEF MessagesInv, MessagesShape
  <2>2. CASE hands[a].since = {}
    BY <1>1, <2>1, <2>2
  <2>3. CASE hands[a].since # {}
    <3>1. PICK since : since = hands[a].since \cup {row}
      OBVIOUS
    <3>2. hands'[a] = [hands[a] EXCEPT !.since = since]
      BY <1>1, <2>3, <3>1
    <3>3. QED
      BY <2>1, <2>3, <3>1, <3>2
  <2>4. QED
    BY <2>2, <2>3
<1>4. MessagesShape'
  <2>1. hands' = [a \in Actors |-> hands'[a]]
    BY <1>1
  <2>2. hands' = [a \in Actors |-> [at |-> hands'[a].at, kind |-> hands'[a].kind, since |-> hands'[a].since]]
    BY <1>3, <2>1
  <2>3. QED
    BY <1>2, <2>2 DEF MessagesInv, MessagesShape
<1>5. ASSUME NEW a \in Actors
      PROVE  Heard(a)'
  <2>1. Heard(a)
    BY MessagesInvIs
  <2>2. hands'[a].since = {} \/ {0, row} \subseteq hands'[a].since
    BY <1>3, <2>1 DEF Heard, HeardInv
  <2>3. hands[a].since \subseteq hands'[a].since
    BY <1>3
  <2>4. QED
    BY <1>2, <1>3, <2>1, <2>2, <2>3 DEF Heard, HeardInv
<1>6. QED
  BY <1>4, <1>5 DEF MessagesInv, ToldWhatHappened, Heard

LEMMA PlaceKeeps ==
  ASSUME MessagesInv, PlaceOrder
  PROVE  MessagesInv'
<1>1. PICK action \in {"allow", "flag", "shadow", "review", "block"} :
          /\ hands' = [hands EXCEPT !["guard"].kind = action,
                 !["guard"].at = IF action \in {"allow", "flag"} THEN "done" ELSE "announcing",
                 !["guard"].since = {0, words.row}]
          /\ review' = IF action \in {"review", "block"} THEN [review EXCEPT !.status = "pending"] ELSE review
  BY DEF PlaceOrder
<1>2. hands["guard"].at = "idle" /\ UNCHANGED <<words, mails>>
  BY DEF PlaceOrder
<1>3. PICK at, since, mail : /\ at = IF action \in {"allow", "flag"} THEN "done" ELSE "announcing"
                             /\ since = {0, words.row} /\ mail = mails["guard"]
  OBVIOUS
<1>4. "guard" \in Actors
  BY DEF Actors
<1>a. HandsMove("guard", at, action, since)
  <2>1. hands' = [hands EXCEPT !["guard"] =
                     [hands["guard"] EXCEPT !.kind = action, !.at = at, !.since = since]]
    BY <1>1, <1>3
  <2>2. PICK hand : hand = hands["guard"]
    OBVIOUS
  <2>3. hand = [at |-> hand.at, kind |-> hand.kind, since |-> hand.since]
    BY <1>4, <2>2 DEF MessagesInv, MessagesShape
  <2>4. PICK told, gone : told = [hand EXCEPT !.kind = action] /\ gone = [told EXCEPT !.at = at]
    OBVIOUS
  <2>5. told = [at |-> hand.at, kind |-> action, since |-> hand.since]
    BY <2>3, <2>4
  <2>6. gone = [at |-> at, kind |-> action, since |-> hand.since]
    BY <2>4, <2>5
  <2>7. [gone EXCEPT !.since = since] = [at |-> at, kind |-> action, since |-> since]
    BY <2>6
  <2>8. hands' = [hands EXCEPT !["guard"] = [gone EXCEPT !.since = since]]
    BY <2>1, <2>2, <2>4
  <2>9. QED
    BY <2>7, <2>8 DEF HandsMove
<1>5. MailMoves("guard", mail)
  BY <1>2, <1>3, <1>4 DEF MailMoves, MessagesInv, MessagesShape
<1>6. mail.customer.at = "none"
  BY <1>2, <1>3, <1>4 DEF MessagesInv, HeardInv
<1>7. review.written \subseteq review'.written /\ words' = words
  BY <1>1, <1>2 DEF MessagesInv
<1>8. Fits("guard", at, action, since, mail)
  BY <1>3, <1>6 DEF Fits
<1>9. QED
  BY <1>a, <1>4, <1>5, <1>7, <1>8, OneHandMoves

\* A decision that ends before it was written.
LEMMA GivenUp ==
  ASSUME MessagesInv, NEW a \in Actors, hands[a].at = "deciding", Goes(a, "done"),
         UNCHANGED <<review, words, mails>>
  PROVE  MessagesInv'
<1>1. PICK hand, kind, since, mail :
         hand = hands[a] /\ kind = hands[a].kind /\ since = hands[a].since /\ mail = mails[a]
  OBVIOUS
<1>2. HandsMove(a, "done", kind, since)
  <2>1. [hand EXCEPT !.at = "done"] = [at |-> "done", kind |-> kind, since |-> since]
    BY <1>1 DEF MessagesInv, MessagesShape
  <2>2. QED
    BY <1>1, <2>1 DEF Goes, HandsMove
<1>3. MailMoves(a, mail)
  BY <1>1 DEF MailMoves, MessagesInv, MessagesShape
<1>4. Fits(a, "done", kind, since, mail)
  BY <1>1 DEF Fits, MessagesInv, HeardInv
<1>5. review.written \subseteq review'.written /\ words' = words
  OBVIOUS
<1>6. QED
  BY <1>2, <1>3, <1>4, <1>5, OneHandMoves

(* A decision that somebody else has taken is told to nobody.              *)
LEMMA LookKeeps ==
  ASSUME MessagesInv, NEW a \in Deciders, Look(a)
  PROVE  MessagesInv'
<1>1. PICK kind, at : /\ hands' = [hands EXCEPT ![a].kind = kind, ![a].at = at]
                      /\ at \in {"deciding", "done"}
  BY DEF Look
<1>2. a \in Actors /\ hands[a].at = "idle" /\ UNCHANGED <<review, words, mails>>
  BY DEF Look, Actors
<1>3. PICK hand, since, mail : hand = hands[a] /\ since = hands[a].since /\ mail = mails[a]
  OBVIOUS
<1>4. HandsMove(a, at, kind, since)
  <2>1. hand = [at |-> hand.at, kind |-> hand.kind, since |-> since]
    BY <1>2, <1>3 DEF MessagesInv, MessagesShape
  <2>2. PICK told : told = [hand EXCEPT !.kind = kind]
    OBVIOUS
  <2>3. told = [at |-> hand.at, kind |-> kind, since |-> since]
    BY <2>1, <2>2
  <2>4. [told EXCEPT !.at = at] = [at |-> at, kind |-> kind, since |-> since]
    BY <2>3
  <2>5. hands' = [hands EXCEPT ![a] = [told EXCEPT !.at = at]]
    BY <1>1, <1>2, <1>3, <2>2
  <2>6. QED
    BY <2>4, <2>5 DEF HandsMove
<1>5. MailMoves(a, mail)
  BY <1>2, <1>3 DEF MailMoves, MessagesInv, MessagesShape
<1>6. Fits(a, at, kind, since, mail)
  BY <1>1, <1>2, <1>3 DEF Fits, MessagesInv, HeardInv
<1>7. review.written \subseteq review'.written /\ words' = words
  BY <1>2
<1>8. QED
  BY <1>2, <1>4, <1>5, <1>6, <1>7, OneHandMoves

LEMMA DecideKeeps ==
  ASSUME MessagesInv, NEW a \in Deciders, Decide(a)
  PROVE  MessagesInv'
<1>1. /\ a \in Actors /\ hands[a].at = "deciding" /\ UNCHANGED <<words, mails>>
      /\ review' = [status |-> hands[a].kind, written |-> review.written \cup {hands[a].kind}]
      /\ hands' = [hands EXCEPT ![a].at = "concluding", ![a].since = {0, words.row}]
  BY DEF Decide, Actors
<1>2. PICK hand, kind, since, mail : /\ hand = hands[a] /\ kind = hands[a].kind
                                     /\ since = {0, words.row} /\ mail = mails[a]
  OBVIOUS
<1>3. HandsMove(a, "concluding", kind, since)
  <2>1. hand = [at |-> hand.at, kind |-> kind, since |-> hand.since]
    BY <1>1, <1>2 DEF MessagesInv, MessagesShape
  <2>2. PICK gone : gone = [hand EXCEPT !.at = "concluding"]
    OBVIOUS
  <2>3. gone = [at |-> "concluding", kind |-> kind, since |-> hand.since]
    BY <2>1, <2>2
  <2>4. [gone EXCEPT !.since = since] = [at |-> "concluding", kind |-> kind, since |-> since]
    BY <2>3
  <2>5. hands' = [hands EXCEPT ![a] = [gone EXCEPT !.since = since]]
    BY <1>1, <1>2, <2>2
  <2>6. QED
    BY <2>4, <2>5 DEF HandsMove
<1>4. MailMoves(a, mail)
  BY <1>1, <1>2 DEF MailMoves, MessagesInv, MessagesShape
<1>5. review'.written = review.written \cup {kind}
  BY <1>1, <1>2
<1>6. Fits(a, "concluding", kind, since, mail)
  BY <1>1, <1>2, <1>5 DEF Fits, MessagesInv, HeardInv
<1>7. review.written \subseteq review'.written /\ words' = words
  BY <1>1, <1>5
<1>8. QED
  BY <1>1, <1>3, <1>4, <1>6, <1>7, OneHandMoves

(* The customer is told in words of the moment.                            *)
LEMMA TellKeeps ==
  ASSUME MessagesInv, NEW a \in Deciders, hands[a].at = "telling",
         UNCHANGED <<review, words>>, NEW text \in Texts,
         mails' = [mails EXCEPT ![a].customer = Message(text)], Goes(a, "told")
  PROVE  MessagesInv'
<1>1. a \in Actors
  BY DEF Actors
<1>2. PICK hand, kind, since, mail, message :
         /\ hand = hands[a] /\ kind = hands[a].kind /\ since = hands[a].since
         /\ message = Message(text) /\ mail = [mails[a] EXCEPT !.customer = message]
  OBVIOUS
<1>3. HandsMove(a, "told", kind, since)
  <2>1. [hand EXCEPT !.at = "told"] = [at |-> "told", kind |-> kind, since |-> since]
    BY <1>1, <1>2 DEF MessagesInv, MessagesShape
  <2>2. QED
    BY <1>2, <2>1 DEF Goes, HandsMove
<1>4. message = [at |-> message.at, words |-> message.words] /\ message.words = text
  BY <1>2 DEF Message
<1>5. /\ mail.team = mails[a].team /\ mail.customer = message
      /\ mail = [team |-> [at |-> mail.team.at, words |-> mail.team.words],
                 customer |-> [at |-> mail.customer.at, words |-> mail.customer.words]]
  BY <1>1, <1>2, <1>4 DEF MessagesInv, MessagesShape
<1>6. MailMoves(a, mail)
  <2>1. mails' = [mails EXCEPT ![a] = mail]
    BY <1>2
  <2>2. QED
    BY <1>5, <2>1 DEF MailMoves
<1>7. since # {} /\ {0, words.row} \subseteq since /\ (a = "guard" \/ kind \in review.written)
  BY <1>1, <1>2 DEF MessagesInv, HeardInv
<1>8. a # "guard"
  BY MessagesAssumption DEF Deciders
<1>9. Fits(a, "told", kind, since, mail)
  BY <1>4, <1>5, <1>7, <1>8 DEF Fits, Texts
<1>10. review.written \subseteq review'.written /\ words' = words
  OBVIOUS
<1>11. QED
  BY <1>1, <1>3, <1>6, <1>9, <1>10, OneHandMoves

(* The customer hears of a hold, of a review or a block only.              *)
LEMMA HoldMailKeeps ==
  ASSUME MessagesInv, MailOnHold
  PROVE  MessagesInv'
<1>1. "guard" \in Actors /\ hands["guard"].at = "mailing" /\ UNCHANGED <<review, words>>
      /\ Goes("guard", "done")
  BY DEF MailOnHold, Actors
<1>2. PICK team, message :
         /\ mails' = [mails EXCEPT !["guard"].team.at = team, !["guard"].customer = message]
         /\ \/ message = mails["guard"].customer
            \/ /\ \E text \in Texts : message = Message(text)
               /\ hands["guard"].kind \in {"review", "block"}
  <2>1. PICK wanted \in BOOLEAN, told \in BOOLEAN, text \in Texts :
           /\ told => hands["guard"].kind \in {"review", "block"}
           /\ mails' = [mails EXCEPT
                  !["guard"].team.at = IF wanted THEN "sending" ELSE @,
                  !["guard"].customer = IF told /\ shop.email THEN Message(text) ELSE @]
    <3>1. PICK wanted \in BOOLEAN, policy \in {"never", "block", "always"}, text \in Texts :
            LET kind == hands["guard"].kind
                told == \/ policy = "always" /\ kind \in {"review", "block"}
                        \/ policy = "block" /\ kind = "block"
            IN mails' = [mails EXCEPT
                   !["guard"].team.at = IF wanted THEN "sending" ELSE @,
                   !["guard"].customer = IF told /\ shop.email THEN Message(text) ELSE @]
      BY DEF MailOnHold
    <3>2. PICK told \in BOOLEAN :
            told <=> \/ policy = "always" /\ hands["guard"].kind \in {"review", "block"}
                     \/ policy = "block" /\ hands["guard"].kind = "block"
      BY Zenon
    <3>3. mails' = [mails EXCEPT
               !["guard"].team.at = IF wanted THEN "sending" ELSE @,
               !["guard"].customer = IF told /\ shop.email THEN Message(text) ELSE @]
      BY <3>1, <3>2
    <3>4. told => hands["guard"].kind \in {"review", "block"}
      BY <3>2
    <3>5. QED
      BY <3>3, <3>4
  <2>2. PICK team : team = IF wanted THEN "sending" ELSE mails["guard"].team.at
    OBVIOUS
  <2>3. PICK message :
           message = IF told /\ shop.email THEN Message(text) ELSE mails["guard"].customer
    OBVIOUS
  <2>4. mails' = [mails EXCEPT !["guard"].team.at = team, !["guard"].customer = message]
    BY <2>1, <2>2, <2>3
  <2>5. \/ message = mails["guard"].customer
        \/ /\ \E said \in Texts : message = Message(said)
           /\ hands["guard"].kind \in {"review", "block"}
    BY <2>1, <2>3
  <2>6. QED
    BY <2>4, <2>5, Zenon
<1>3. PICK hand, kind, since, old, mail :
         /\ hand = hands["guard"] /\ kind = hands["guard"].kind /\ since = hands["guard"].since
         /\ old = mails["guard"]
         /\ mail = [old EXCEPT !.team.at = team, !.customer = message]
  OBVIOUS
<1>4. HandsMove("guard", "done", kind, since)
  <2>1. [hand EXCEPT !.at = "done"] = [at |-> "done", kind |-> kind, since |-> since]
    BY <1>1, <1>3 DEF MessagesInv, MessagesShape
  <2>2. QED
    BY <1>1, <1>3, <2>1 DEF Goes, HandsMove
<1>5. old = [team |-> [at |-> old.team.at, words |-> old.team.words],
             customer |-> [at |-> old.customer.at, words |-> old.customer.words]]
  BY <1>1, <1>3 DEF MessagesInv, MessagesShape
<1>6. message = [at |-> message.at, words |-> message.words]
  <2>1. CASE message = mails["guard"].customer
    BY <1>3, <1>5, <2>1
  <2>2. CASE \E text \in Texts : message = Message(text)
    BY <2>2 DEF Message
  <2>3. QED
    BY <1>2, <2>1, <2>2
<1>7. mail = [team |-> [at |-> team, words |-> old.team.words], customer |-> message]
  <2>1. PICK first : first = [old EXCEPT !.team.at = team]
    OBVIOUS
  <2>2. first = [team |-> [at |-> team, words |-> old.team.words], customer |-> old.customer]
    BY <1>5, <2>1
  <2>3. mail = [first EXCEPT !.customer = message]
    BY <1>3, <2>1
  <2>4. QED
    BY <2>2, <2>3
<1>8. MailMoves("guard", mail)
  <2>1. mails' = [mails EXCEPT !["guard"] = mail]
    BY <1>2, <1>3
  <2>2. mail = [team |-> [at |-> mail.team.at, words |-> mail.team.words],
                customer |-> [at |-> mail.customer.at, words |-> mail.customer.words]]
    BY <1>6, <1>7
  <2>3. QED
    BY <2>1, <2>2 DEF MailMoves
<1>9. Heard("guard")
  BY <1>1, MessagesInvIs
<1>10. since # {} /\ {0, words.row} \subseteq since
  BY <1>1, <1>3, <1>9 DEF Heard, HeardInv
<1>11. message.at # "none" => kind \in {"review", "block"} /\ message.words \in since
  <2>1. CASE message = mails["guard"].customer
    BY <1>3, <1>9, <2>1 DEF Heard
  <2>2. CASE /\ \E text \in Texts : message = Message(text)
             /\ hands["guard"].kind \in {"review", "block"}
    BY <1>3, <1>10, <2>2 DEF Message, Texts
  <2>3. QED
    BY <1>2, <2>1, <2>2
<1>12. Fits("guard", "done", kind, since, mail)
  BY <1>7, <1>10, <1>11 DEF Fits
<1>13. review.written \subseteq review'.written /\ words' = words
  BY <1>1
<1>14. QED
  BY <1>1, <1>4, <1>8, <1>12, <1>13, OneHandMoves

LEMMA ServesKeeps ==
  ASSUME MessagesInv, NEW a \in Actors, Serves(a)
  PROVE  MessagesInv'
<1>1. CASE Announce(a)
  BY <1>1, OnlyGoes DEF Announce, Underneath
<1>2. CASE AllSettled(a)
  <2>1. PICK at \in {"mailing", "done"} : Goes(a, at)
    BY <1>2 DEF AllSettled
  <2>2. QED
    BY <1>2, <2>1, OnlyGoes DEF AllSettled, Underneath
<1>3. CASE a = "guard" /\ MailOnHold
  BY <1>3, HoldMailKeeps
<1>4. CASE a \in Deciders /\ Decide(a)
  BY <1>4, DecideKeeps
<1>5. CASE Conclude(a)
  <2>1. PICK at \in {"telling", "announcing", "done"} : Goes(a, at)
    BY <1>5 DEF Conclude
  <2>2. QED
    BY <1>5, <2>1, OnlyGoes DEF Conclude, Underneath
<1>6. CASE a \in Deciders /\ Tell(a)
  <2>1. CASE \E text \in Texts : mails' = [mails EXCEPT ![a].customer = Message(text)] /\ Goes(a, "told")
    BY <1>6, <2>1, TellKeeps DEF Tell
  <2>2. CASE Goes(a, "announcing") /\ UNCHANGED mails
    BY <1>6, <2>2, OnlyGoes DEF Tell, Underneath
  <2>3. QED
    BY <1>6, <2>1, <2>2 DEF Tell
<1>7. CASE Told(a)
  BY <1>7, OnlyGoes DEF Told, Underneath
<1>8. CASE Throws(a)
  <2>1. hands[a].at \in {"deciding", "concluding", "announcing"} /\ Goes(a, "done")
        /\ UNCHANGED <<review, words, mails>>
    BY <1>8 DEF Throws
  <2>2. CASE hands[a].at \in {"concluding", "announcing"}
    BY <2>1, <2>2, OnlyGoes DEF Underneath
  <2>3. CASE hands[a].at = "deciding"
    BY <2>1, <2>3, GivenUp
  <2>4. QED
    BY <2>1, <2>2, <2>3
<1>9. ASSUME NEW to \in {"team", "customer"}, Deadline(a, to)
      PROVE  MessagesInv'
  BY <1>9, OnlyMails DEF Deadline
<1>10. ASSUME NEW h \in Hooks, HookSettles(a, h)
       PROVE  MessagesInv'
  BY <1>10 DEF HookSettles, MessagesInv, MessagesShape, ToldWhatHappened, HeardInv
<1>11. QED
  BY <1>1, <1>2, <1>3, <1>4, <1>5, <1>6, <1>7, <1>8, <1>9, <1>10 DEF Serves

LEMMA MessagesInvStep == MessagesInv /\ [Next]_vars => MessagesInv'
<1> SUFFICES ASSUME MessagesInv, [Next]_vars
             PROVE  MessagesInv'
  OBVIOUS
<1>1. CASE UNCHANGED messageVars
  BY <1>1 DEF messageVars, MessagesInv, MessagesShape, ToldWhatHappened, HeardInv
<1>2. CASE MessagesNext
  <2>1. ASSUME NEW a \in Actors, NEW to \in {"team", "customer"}, MailAnswered(a, to)
        PROVE  MessagesInv'
    BY <2>1, OnlyMails DEF MailAnswered
  <2>2. QED
    BY <1>2, <2>1, PlaceKeeps, RewriteKeeps, LookKeeps, ServesKeeps DEF MessagesNext
<1>3. QED
  BY <1>1, <1>2 DEF Next, Elsewhere, vars

(* A customer hears of a hold or a decision only if there was one, in      *)
(* words that the channel had since or in the default ones: with any       *)
(* number of administrators and webhooks, whoever throws, is late or       *)
(* stays silent ("Render + send the customer message for a gating          *)
(* outcome", fraud-prevention.service.ts:1953).                            *)
THEOREM CustomersHearTheTruth == Spec => []ToldWhatHappened
<1>1. MessagesInv => ToldWhatHappened
  BY DEF MessagesInv
<1>2. QED
  BY <1>1, MessagesInvInit, MessagesInvStep, PTL DEF Spec

=============================================================================
