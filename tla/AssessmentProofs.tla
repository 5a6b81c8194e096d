-------------------------- MODULE AssessmentProofs --------------------------
(***************************************************************************)
(* Proofs about the assessment, for any addresses, lookups and counts that *)
(* overlap, limits and lifetimes.                                          *)
(***************************************************************************)
EXTENDS Assessment, FiniteSetTheorems, TLAPS

(* The inductive invariant behind RateBounded: what was sent since any     *)
(* request, with the tokens that are left, fits in a full bucket and what  *)
(* it gained up to the last refill.                                        *)
BucketInv ==
    /\ clock \in Nat
    /\ bucket \in [tokens : Int, lastRefill : Int]
    /\ bucket.tokens <= Capacity /\ bucket.lastRefill <= clock
    /\ sent \in Seq(Int)
    /\ \A i \in DOMAIN sent :
          Len(sent) - i + 1 + bucket.tokens <= Capacity + (bucket.lastRefill - sent[i])

RateInv == BucketInv /\ RateBounded

(* The inductive invariant behind OnlyWhatWasTold: whatever is kept was    *)
(* told, and not before it says.                                           *)
Told(subject, answer, since) ==
    \E t \in told : t.subject = subject /\ t.answer = answer /\ t.at >= since

AskInv ==
    \A a \in Askers :
        /\ ask[a] = [at |-> ask[a].at, subject |-> ask[a].subject, answer |-> ask[a].answer]
        /\ ask[a].at \in {"selecting", "asking", "waiting", "storing"} => ask[a].subject \in Ips
        /\ ask[a].at \in {"remembering", "resolving"} => ask[a].subject \in Domains \ Ips
        /\ ask[a].at = "storing" => Told(ask[a].subject, ask[a].answer, clock)

KeptInv ==
    /\ clock \in Nat
    /\ ask = [a \in Askers |-> ask[a]]
    /\ \A t \in told : t.at \in Int /\ t.at <= clock
    /\ \A row \in intelRows :
          /\ row.checkedAt \in Int /\ row.ip \in Ips
          /\ Told(row.ip, row.answer, row.checkedAt)
    /\ mxCache \in Seq([domain : Domains \ Ips, answer : {"yes", "no"}, at : Int])
    /\ \A i \in DOMAIN mxCache : Told(mxCache[i].domain, mxCache[i].answer, mxCache[i].at)

ToldInv == AskInv /\ KeptInv

-----------------------------------------------------------------------------
(* The inductive invariant behind BurstCaught: until time moves on, what   *)
(* was counted for an order takes in everything of its burst.              *)
Rows == [at : Nat, ip : UNION {HostsOf[o] : o \in Orders}, email : UNION {MailboxesOf[o] : o \in Orders}, value : {1}]

AtLeast(n, set) == n \in Nat /\ n >= Cardinality(set)

Caught(o, ev) ==
    /\ ev.asked \in 1..4 => AtLeast(ev.hour, Burst(o, Hour))
    /\ ev.asked \in 2..4 => AtLeast(ev.day, Burst(o, Day))
    /\ ev.asked = 4 => AtLeast(ev.identities, {placed[i].email : i \in Burst(o, Day)})

BurstInv ==
    /\ now \in Nat /\ placed \in Seq(Rows) /\ PlacedOrders \subseteq Orders
    /\ \A i \in PlacedOrders : placed[i].at <= now
    /\ counted = [o \in Orders |-> counted[o]]
    /\ \A o \in Orders :
          /\ counted[o] = [f \in DOMAIN Uncounted |-> counted[o][f]]
          /\ counted[o].asked \in 0..5
          /\ o \notin PlacedOrders => counted[o].asked = 0
    /\ \A o \in PlacedOrders : now = placed[o].at => Caught(o, counted[o])

(* The one behind FailuresCounted: the guard's failures come after its     *)
(* table, and an answer that it is not there comes before, or from a       *)
(* question that failed.                                                   *)
FailureInv ==
    /\ now \in Nat /\ guardTable \in Nat \cup {Never} /\ IsFiniteSet(failures)
    /\ \A f \in failures : f.kind \in {"payment", "guard"} /\ (f.kind = "guard" => guardTable # Never)
    /\ guardMemo \in [exists : BOOLEAN, checkedAt : Nat \cup {Never}]
    /\ guardMemo.checkedAt <= now
    /\ ~guardMemo.exists /\ guardMemo.checkedAt # Never =>
          \/ guardTable = Never \/ guardTable >= guardMemo.checkedAt
          \/ probeFailed >= guardMemo.checkedAt
    /\ probeFailed \in Nat \cup {Never}

-----------------------------------------------------------------------------
(* Only the stories about the network touch what the lookups keep.         *)
LEMMA NetworkOrNothing ==
  ASSUME [Next]_vars
  PROVE  IntelNext(Ips) \/ IntelNext(Domains) \/ UNCHANGED intelVars
BY DEF Next, vars, ListsStory, CountsStory, NetworkStory

-----------------------------------------------------------------------------
(* The bucket of tokens.                                                   *)

LEMMA InitRateInv == Init => RateInv
<1> SUFFICES ASSUME Init PROVE RateInv
  OBVIOUS
<1>1. IntelInit
  BY DEF Init
<1>2. QED
  BY <1>1, IntelAssumption DEF IntelInit, RateInv, BucketInv, RateBounded

(* A refill gives no more than the time that has gone by.                  *)
LEMMA RefillBounded ==
  ASSUME BucketInv
  PROVE  \E t \in Int :
            /\ Refilled = [tokens |-> t, lastRefill |-> clock]
            /\ t <= Capacity
            /\ t <= bucket.tokens + (clock - bucket.lastRefill)
BY IntelAssumption DEF BucketInv, Refilled

\* What a stretch gains by a refill to t tokens and one more request.
LEMMA OneRequestMore ==
  ASSUME NEW n \in Int, NEW i \in Int, NEW b \in Int, NEW l \in Int, NEW x \in Int,
         NEW t \in Int, NEW c \in Int,
         n - i + 1 + b <= Capacity + (l - x),
         t <= b + (c - l)
  PROVE  (n + 1) - i + 1 + (t - 1) <= Capacity + (c - x)
BY IntelAssumption

LEMMA RefillOnly ==
  ASSUME NEW n \in Int, NEW i \in Int, NEW b \in Int, NEW l \in Int, NEW x \in Int,
         NEW t \in Int, NEW c \in Int,
         n - i + 1 + b <= Capacity + (l - x),
         t <= b + (c - l)
  PROVE  n - i + 1 + t <= Capacity + (c - x)
BY IntelAssumption

\* A stretch that ends with it, when a token was there to take.
LEMMA StretchFits ==
  ASSUME NEW m \in Int, NEW i \in Int, NEW x \in Int, NEW left \in Int, NEW c \in Int,
         m - i + 1 + left <= Capacity + (c - x),
         left >= 0
  PROVE  m - i + 1 <= Capacity + (c - x)
BY IntelAssumption

(* A request takes a token; together with the refill it keeps the bucket's *)
(* promise for every stretch that ends with it.                            *)
LEMMA SendKeepsRate ==
  ASSUME RateInv, Refilled.tokens >= 1,
         bucket' = [Refilled EXCEPT !.tokens = @ - 1],
         sent' = Append(sent, clock),
         clock' = clock
  PROVE  RateInv'
<1> DEFINE n == Len(sent)
<1>0. PICK t \in Int : /\ Refilled = [tokens |-> t, lastRefill |-> clock]
                       /\ t <= Capacity
                       /\ t <= bucket.tokens + (clock - bucket.lastRefill)
  BY RefillBounded DEF RateInv
<1>1. bucket' = [tokens |-> t - 1, lastRefill |-> clock] /\ t >= 1
  BY <1>0
<1> USE DEF RateInv, BucketInv
<1>2. /\ sent' \in Seq(Int) /\ Len(sent') = n + 1 /\ n \in Nat
      /\ DOMAIN sent' = 1..(n + 1) /\ DOMAIN sent = 1..n
      /\ sent'[n + 1] = clock
      /\ \A i \in 1..n : sent'[i] = sent[i] /\ sent[i] \in Int
  OBVIOUS
<1>3. /\ Capacity \in Int /\ clock \in Int
      /\ bucket.tokens \in Int /\ bucket.lastRefill \in Int
      /\ bucket'.tokens = t - 1 /\ bucket'.lastRefill = clock
  BY <1>1, IntelAssumption
<1>4. \A i \in 1..n : n - i + 1 + bucket.tokens <= Capacity + (bucket.lastRefill - sent[i])
  BY <1>2
<1>5. ASSUME NEW i \in DOMAIN sent'
      PROVE  Len(sent') - i + 1 + bucket'.tokens <= Capacity + (bucket'.lastRefill - sent'[i])
  <2>1. CASE i = n + 1
    BY <1>0, <1>2, <1>3, <2>1
  <2>2. CASE i \in 1..n
    <3>1. sent'[i] = sent[i] /\ sent[i] \in Int /\ i \in Int
      BY <1>2, <2>2
    <3>2. n - i + 1 + bucket.tokens <= Capacity + (bucket.lastRefill - sent[i])
      BY <1>4, <2>2
    <3>3. n \in Int /\ Len(sent') = n + 1
      BY <1>2
    <3>4. (n + 1) - i + 1 + (t - 1) <= Capacity + (clock - sent[i])
      BY <1>0, <1>3, <3>1, <3>2, <3>3, OneRequestMore
    <3> HIDE DEF RateInv, BucketInv, n
    <3>5. /\ bucket'.lastRefill - sent'[i] = clock - sent[i]
          /\ Len(sent') - i + 1 + bucket'.tokens = (n + 1) - i + 1 + (t - 1)
      BY <1>3, <3>1, <3>3
    <3>6. QED
      BY <3>4, <3>5
  <2>3. QED
    BY <1>2, <2>1, <2>2, SMTT(40)
<1>6. ASSUME NEW i \in DOMAIN sent', NEW j \in DOMAIN sent', i <= j
      PROVE  j - i + 1 <= Capacity + (sent'[j] - sent'[i])
  <2>1. CASE j \in 1..n
    <3>1. i \in DOMAIN sent /\ j \in DOMAIN sent
      BY <1>2, <1>6, <2>1
    <3>2. QED
      BY <1>2, <1>6, <2>1, <3>1 DEF RateBounded
  <2>2. CASE j = n + 1
    <3>1. Len(sent') - i + 1 + bucket'.tokens <= Capacity + (clock - sent'[i])
      BY <1>3, <1>5
    <3>2. /\ i \in Int /\ sent'[i] \in Int /\ Len(sent') \in Int
          /\ sent'[j] = clock /\ j = Len(sent')
      BY <1>2, <2>2
    <3>3. bucket'.tokens \in Int /\ bucket'.tokens >= 0
      BY <1>1, <1>3
    <3>4. Len(sent') - i + 1 <= Capacity + (clock - sent'[i])
      BY <1>3, <3>1, <3>2, <3>3, StretchFits
    <3> HIDE DEF RateInv, BucketInv, n
    <3>5. j - i + 1 = Len(sent') - i + 1 /\ sent'[j] - sent'[i] = clock - sent'[i]
      BY <3>2
    <3>6. QED
      BY <3>4, <3>5
  <2>3. j \in 1..n \/ j = n + 1
    <3>1. j \in 1..(n + 1) /\ n \in Nat
      BY <1>2
    <3> HIDE DEF RateInv, BucketInv, n
    <3>2. QED
      BY <3>1
  <2>4. QED
    BY <2>1, <2>2, <2>3
<1>7. bucket' \in [tokens : Int, lastRefill : Int] /\ bucket'.tokens <= Capacity
  BY <1>0, <1>1, <1>3
<1>8. BucketInv'
  BY <1>2, <1>3, <1>5, <1>7, SMTT(40)
<1>9. RateBounded'
  BY <1>6 DEF RateBounded
<1>10. QED
  BY <1>8, <1>9

(* A refusal fills the bucket up and takes nothing.                        *)
LEMMA RefillKeepsRate ==
  ASSUME RateInv,
         bucket' = Refilled,
         sent' = sent,
         clock' = clock
  PROVE  RateInv'
<1> DEFINE n == Len(sent)
<1>0. PICK t \in Int : /\ Refilled = [tokens |-> t, lastRefill |-> clock]
                       /\ t <= Capacity
                       /\ t <= bucket.tokens + (clock - bucket.lastRefill)
  BY RefillBounded DEF RateInv
<1>1. bucket' = [tokens |-> t, lastRefill |-> clock]
  BY <1>0
<1>2. /\ sent \in Seq(Int) /\ n \in Int /\ clock \in Nat /\ RateBounded
      /\ bucket.tokens \in Int /\ bucket.lastRefill \in Int
      /\ \A i \in DOMAIN sent :
            /\ i \in Int /\ sent[i] \in Int
            /\ n - i + 1 + bucket.tokens <= Capacity + (bucket.lastRefill - sent[i])
  BY DEF RateInv, BucketInv
<1>3. ASSUME NEW i \in DOMAIN sent
      PROVE  n - i + 1 + bucket'.tokens <= Capacity + (bucket'.lastRefill - sent[i])
  <2>1. n - i + 1 + t <= Capacity + (clock - sent[i])
    <3>1. i \in Int /\ sent[i] \in Int
      BY <1>2
    <3>2. n - i + 1 + bucket.tokens <= Capacity + (bucket.lastRefill - sent[i])
      BY <1>2
    <3>3. n \in Int /\ clock \in Int /\ bucket.tokens \in Int /\ bucket.lastRefill \in Int
      BY <1>2
    <3>4. QED
      BY <1>0, <3>1, <3>2, <3>3, RefillOnly
  <2>2. bucket'.tokens = t /\ bucket'.lastRefill = clock
    BY <1>1
  <2>3. QED
    BY <2>1, <2>2
<1>4. BucketInv'
  BY <1>0, <1>1, <1>2, <1>3 DEF BucketInv
<1>5. QED
  BY <1>2, <1>4 DEF RateInv, RateBounded

LEMMA RateStep ==
  ASSUME RateInv, NEW subjects, IntelNext(subjects)
  PROVE  RateInv'
<1>1. CASE UNCHANGED <<bucket, sent>> /\ (clock' = clock \/ clock' = clock + 1)
  <2>1. clock' \in Nat /\ clock' >= clock
    BY <1>1 DEF RateInv, BucketInv
  <2>2. QED
    BY <1>1, <2>1 DEF RateInv, BucketInv, RateBounded
<1>2. ASSUME NEW a \in Askers, Send(a)
      PROVE  RateInv'
  <2>1. clock' = clock
    BY <1>2 DEF Send
  <2>2. \/ UNCHANGED <<bucket, sent>>
        \/ bucket' = Refilled /\ sent' = sent
        \/ /\ Refilled.tokens >= 1
           /\ bucket' = [Refilled EXCEPT !.tokens = @ - 1]
           /\ sent' = Append(sent, clock)
    BY <1>2 DEF Send
  <2>3. QED
    BY <1>1, <2>1, <2>2, RefillKeepsRate, SendKeepsRate
<1>3. CASE ~\E a \in Askers : Send(a)
  BY <1>1, <1>3 DEF IntelNext, TimePasses, StartLookup, SelectIntel, GiveUp, StoreIntel, RecallMx,
                    MxFails, Respond, CutOff, ResolveMx, NoSuchDomain
<1>4. QED
  BY <1>2, <1>3

(* The bucket keeps its promise: of any stretch of time no more requests   *)
(* go to ip-api than a full bucket and what it gained meanwhile, however   *)
(* many assessments look up at once (takeToken, ip-intel.ts:27).          *)
THEOREM BucketHolds == Spec => []RateBounded
<1>1. RateInv /\ [Next]_vars => RateInv'
  <2>1. RateInv /\ UNCHANGED intelVars => RateInv'
    BY DEF RateInv, BucketInv, RateBounded, intelVars
  <2>2. QED
    BY <2>1, RateStep, NetworkOrNothing
<1>2. RateInv => RateBounded
  BY DEF RateInv
<1>3. QED
  BY <1>1, <1>2, InitRateInv, PTL DEF Spec

-----------------------------------------------------------------------------
(* What is answered was told.                                              *)

ToldIn(T, s, w, n) == \E t \in T : t.subject = s /\ t.answer = w /\ t.at >= n

\* What is known stays known.
StaysKnown == \A s, w : \A n \in Int : ToldIn(told, s, w, n) => ToldIn(told', s, w, n)

\* An answer of this step, if it is one, was told in time.
Backed(s, w) ==
    w # Unknown =>
      \E t \in told' : /\ t.subject = s /\ t.answer = w
                       /\ clock - t.at < (IF t.subject \in Ips THEN IntelTtl ELSE MxTtl)

Supported ==
    \A a \in Askers :
        ask'[a].at = "answered" /\ ask'[a] # ask[a] => Backed(ask'[a].subject, ask'[a].answer)

\* What an assessment is asking from this step on.
Becomes(a, place, subject, answer) ==
    ask' = [ask EXCEPT ![a] = [at |-> place, subject |-> subject, answer |-> answer]]

Ends(a, place, answer) == ask' = [ask EXCEPT ![a].at = place, ![a].answer = answer]

LEMMA InitToldInv == Init => ToldInv
<1> SUFFICES ASSUME Init PROVE ToldInv
  OBVIOUS
<1>1. IntelInit
  BY DEF Init
<1>2. AskInv
  BY <1>1 DEF IntelInit, AskInv, Quiet, Unknown
<1>3. KeptInv
  BY <1>1 DEF IntelInit, KeptInv
<1>4. QED
  BY <1>2, <1>3 DEF ToldInv

LEMMA TellingKeeps ==
  ASSUME KeptInv, NEW s, NEW w, Tell(s, w)
  PROVE  /\ StaysKnown
         /\ ToldIn(told', s, w, clock)
         /\ \A t \in told' : t.at \in Int /\ t.at <= clock
<1> DEFINE new == [subject |-> s, answer |-> w, at |-> clock]
<1>1. new \in told' /\ new.subject = s /\ new.answer = w /\ new.at = clock /\ clock \in Int
  BY DEF Tell, KeptInv
<1>2. \A t \in told : t.at \in Int /\ t.at <= clock
  BY DEF KeptInv
<1>3. \A t \in told' : t = new \/ t \in told
  BY DEF Tell
<1>4. \A t \in told : t \in told' \/ (t.subject = s /\ t.answer = w)
  BY DEF Tell
<1> HIDE DEF new
<1>5. StaysKnown
  <2> SUFFICES ASSUME NEW x, NEW y, NEW n \in Int, NEW t \in told,
                      t.subject = x, t.answer = y, t.at >= n
               PROVE  ToldIn(told', x, y, n)
    BY DEF StaysKnown, ToldIn
  <2>1. CASE t \in told'
    BY <2>1 DEF ToldIn
  <2>2. CASE t.subject = s /\ t.answer = w
    <3>1. clock >= n
      BY <1>1, <1>2
    <3>2. QED
      BY <1>1, <2>2, <3>1 DEF ToldIn
  <2>3. QED
    BY <1>4, <2>1, <2>2
<1>6. ToldIn(told', s, w, clock)
  BY <1>1 DEF ToldIn
<1>7. QED
  BY <1>1, <1>2, <1>3, <1>5, <1>6

LEMMA UntoldKeeps ==
  ASSUME told' = told
  PROVE  StaysKnown
BY DEF StaysKnown

(* One lookup moves on: it still asks about what it may, and what it       *)
(* answers, if it does, is backed.                                         *)
LEMMA OneAsks ==
  ASSUME AskInv, KeptInv, StaysKnown, clock' = clock,
         NEW a \in Askers, NEW at, NEW subject, NEW answer,
         Becomes(a, at, subject, answer),
         at \in {"selecting", "asking", "waiting", "storing"} => subject \in Ips,
         at \in {"remembering", "resolving"} => subject \in Domains \ Ips,
         at = "storing" => ToldIn(told', subject, answer, clock),
         at = "answered" => Backed(subject, answer)
  PROVE  /\ AskInv'
         /\ ask' = [b \in Askers |-> ask'[b]]
         /\ Supported
<1> DEFINE q == [at |-> at, subject |-> subject, answer |-> answer]
<1>1. /\ ask' = [b \in Askers |-> ask'[b]]
      /\ ask'[a] = q
      /\ \A b \in Askers : b # a => ask'[b] = ask[b]
  BY DEF KeptInv, Becomes
<1>2. q.at = at /\ q.subject = subject /\ q.answer = answer
  OBVIOUS
<1>3. clock \in Int
  BY DEF KeptInv
<1>4. \A b \in Askers : b # a => (ask[b].at = "storing" => ToldIn(told', ask[b].subject, ask[b].answer, clock))
  <2> SUFFICES ASSUME NEW b \in Askers, b # a, ask[b].at = "storing"
               PROVE  ToldIn(told', ask[b].subject, ask[b].answer, clock)
    OBVIOUS
  <2>1. Told(ask[b].subject, ask[b].answer, clock)
    BY DEF AskInv
  <2>2. ToldIn(told, ask[b].subject, ask[b].answer, clock)
    BY <2>1 DEF Told, ToldIn
  <2>3. QED
    BY <1>3, <2>2 DEF StaysKnown
<1>5. q = [at |-> q.at, subject |-> q.subject, answer |-> q.answer]
  OBVIOUS
<1> HIDE DEF q
<1>6. ASSUME NEW b \in Askers
      PROVE  /\ ask'[b] = [at |-> ask'[b].at, subject |-> ask'[b].subject, answer |-> ask'[b].answer]
             /\ ask'[b].at \in {"selecting", "asking", "waiting", "storing"} => ask'[b].subject \in Ips
             /\ ask'[b].at \in {"remembering", "resolving"} => ask'[b].subject \in Domains \ Ips
             /\ ask'[b].at = "storing" => ToldIn(told', ask'[b].subject, ask'[b].answer, clock')
  <2>1. CASE b = a
    BY <1>1, <1>2, <1>5, <2>1
  <2>2. CASE b # a
    BY <1>1, <1>4, <2>2 DEF AskInv
  <2>3. QED
    BY <2>1, <2>2
<1>7. AskInv'
  BY <1>6 DEF AskInv, Told, ToldIn
<1>8. Supported
  BY <1>1, <1>2 DEF Supported
<1>9. QED
  BY <1>1, <1>7, <1>8

(* What a lookup asks about stays as it is while it moves on.              *)
LEMMA MoveIs ==
  ASSUME AskInv, NEW a \in Askers, NEW place, Move(a, place)
  PROVE  Becomes(a, place, ask[a].subject, ask[a].answer)
<1>1. PICK p, s, w : ask[a] = [at |-> p, subject |-> s, answer |-> w]
  BY DEF AskInv
<1>2. [ask[a] EXCEPT !.at = place] = [at |-> place, subject |-> s, answer |-> w]
  BY <1>1
<1>3. ask[a].subject = s /\ ask[a].answer = w
  BY <1>1
<1>4. QED
  BY <1>2, <1>3 DEF Move, Becomes

LEMMA EndsAs ==
  ASSUME AskInv, NEW a \in Askers, NEW place, NEW answer,
         ask = [b \in Askers |-> ask[b]],
         Ends(a, place, answer)
  PROVE  Becomes(a, place, ask[a].subject, answer)
<1>1. PICK p, s, w : ask[a] = [at |-> p, subject |-> s, answer |-> w]
  BY DEF AskInv
<1>2. ask[a].subject = s
  BY <1>1
<1> DEFINE moved == [ask EXCEPT ![a].at = place]
<1>3. ask' = [moved EXCEPT ![a].answer = answer]
  BY DEF Ends
<1>4. [ask[a] EXCEPT !.at = place] = [at |-> place, subject |-> s, answer |-> w]
  BY <1>1
<1>5. moved = [ask EXCEPT ![a] = [at |-> place, subject |-> s, answer |-> w]]
  BY <1>4
<1> HIDE DEF moved
<1>6. moved[a] = [at |-> place, subject |-> s, answer |-> w]
  BY <1>5
<1>7. [moved[a] EXCEPT !.answer = answer] = [at |-> place, subject |-> s, answer |-> answer]
  BY <1>6
<1>8. ask' = [moved EXCEPT ![a] = [at |-> place, subject |-> s, answer |-> answer]]
  BY <1>3, <1>7
<1>9. QED
  BY <1>2, <1>5, <1>8 DEF Becomes

LEMMA ReplyIs ==
  ASSUME AskInv, NEW a \in Askers, NEW answer,
         ask = [b \in Askers |-> ask[b]], Reply(a, answer)
  PROVE  Becomes(a, "answered", ask[a].subject, answer)
<1>1. Ends(a, "answered", answer)
  BY DEF Reply, Ends
<1>2. QED
  BY <1>1, EndsAs

LEMMA EntryOf ==
  ASSUME NEW S, NEW q \in Seq(S), NEW i \in DOMAIN q
  PROVE  q[i] \in S
OBVIOUS

LEMMA EntryTimes ==
  ASSUME KeptInv, NEW i \in DOMAIN mxCache
  PROVE  mxCache[i].at \in Int
<1>1. mxCache \in Seq([domain : Domains \ Ips, answer : {"yes", "no"}, at : Int])
  BY DEF KeptInv
<1>2. mxCache[i] \in [domain : Domains \ Ips, answer : {"yes", "no"}, at : Int]
  BY <1>1, EntryOf
<1>3. QED
  BY <1>2

LEMMA KeptStays ==
  ASSUME KeptInv, StaysKnown, clock' = clock,
         ask' = [b \in Askers |-> ask'[b]],
         \A t \in told' : t.at \in Int /\ t.at <= clock,
         UNCHANGED <<intelRows, mxCache>>
  PROVE  KeptInv'
<1>1. /\ \A row \in intelRows : row.checkedAt \in Int /\ row.ip \in Ips
      /\ \A row \in intelRows : ToldIn(told, row.ip, row.answer, row.checkedAt)
  BY DEF KeptInv, Told, ToldIn
<1>2. \A row \in intelRows : ToldIn(told', row.ip, row.answer, row.checkedAt)
  BY <1>1 DEF StaysKnown
<1>3. \A i \in DOMAIN mxCache : mxCache[i].at \in Int
  BY EntryTimes
<1>4. \A i \in DOMAIN mxCache : ToldIn(told, mxCache[i].domain, mxCache[i].answer, mxCache[i].at)
  BY DEF KeptInv, Told, ToldIn
<1>5. \A i \in DOMAIN mxCache : ToldIn(told', mxCache[i].domain, mxCache[i].answer, mxCache[i].at)
  BY <1>3, <1>4 DEF StaysKnown
<1>6. mxCache \in Seq([domain : Domains \ Ips, answer : {"yes", "no"}, at : Int]) /\ clock \in Nat
  BY DEF KeptInv
<1>7. QED
  BY <1>1, <1>2, <1>5, <1>6 DEF KeptInv, Told, ToldIn

(* A lookup that moves on and is told nothing.                             *)
LEMMA MovingOn ==
  ASSUME ToldInv, UNCHANGED <<clock, told, intelRows, mxCache>>,
         NEW a \in Askers, NEW at, NEW subject, NEW answer,
         Becomes(a, at, subject, answer),
         at \in {"selecting", "asking", "waiting"} => subject \in Ips,
         at \in {"remembering", "resolving"} => subject \in Domains \ Ips,
         at # "storing",
         at = "answered" => Backed(subject, answer)
  PROVE  ToldInv' /\ Supported
<1>1. StaysKnown
  BY UntoldKeeps
<1>2. /\ AskInv'
      /\ ask' = [b \in Askers |-> ask'[b]]
      /\ Supported
  BY <1>1, OneAsks DEF ToldInv
<1>3. \A t \in told' : t.at \in Int /\ t.at <= clock
  BY DEF ToldInv, KeptInv
<1>4. KeptInv'
  BY <1>1, <1>2, <1>3, KeptStays DEF ToldInv
<1>5. QED
  BY <1>2, <1>4 DEF ToldInv

(* "I do not know" needs no backing.                                       *)
LEMMA NothingSaid ==
  ASSUME ToldInv, UNCHANGED <<clock, told, intelRows, mxCache>>,
         NEW a \in Askers, Reply(a, Unknown)
  PROVE  ToldInv' /\ Supported
<1>1. Becomes(a, "answered", ask[a].subject, Unknown)
  BY ReplyIs DEF ToldInv, KeptInv
<1>2. \A s : Backed(s, Unknown)
  BY DEF Backed
<1> DEFINE s == ask[a].subject
<1>3. Becomes(a, "answered", s, Unknown)
  BY <1>1
<1> HIDE DEF s
<1>4. Backed(s, Unknown)
  BY <1>2
<1>5. QED
  BY <1>3, <1>4, MovingOn

LEMMA WalksOn ==
  ASSUME ToldInv, UNCHANGED <<clock, told, intelRows, mxCache>>,
         NEW a \in Askers, NEW place, Move(a, place),
         place \in {"asking", "waiting"} => ask[a].subject \in Ips,
         place = "resolving" => ask[a].subject \in Domains \ Ips,
         place \in {"asking", "waiting", "hung", "resolving"}
  PROVE  ToldInv' /\ Supported
<1>1. Becomes(a, place, ask[a].subject, ask[a].answer)
  BY MoveIs DEF ToldInv
<1>2. QED
  BY <1>1, MovingOn

LEMMA TimeKeepsTold ==
  ASSUME ToldInv, TimePasses
  PROVE  ToldInv' /\ Supported
<1>1. UNCHANGED <<ask, told, intelRows, mxCache>> /\ clock' = clock + 1
  BY DEF TimePasses
<1>2. \A b \in Askers : ask[b].at # "storing"
  BY DEF TimePasses
<1>3. AskInv'
  BY <1>1, <1>2 DEF ToldInv, AskInv
<1>4. KeptInv'
  <2>1. \A t \in told' : t.at \in Int /\ t.at <= clock'
    BY <1>1 DEF ToldInv, KeptInv
  <2>2. clock' \in Nat
    BY <1>1 DEF ToldInv, KeptInv
  <2>3. QED
    BY <1>1, <2>1, <2>2 DEF ToldInv, KeptInv, Told
<1>5. Supported
  BY <1>1 DEF Supported
<1>6. QED
  BY <1>3, <1>4, <1>5 DEF ToldInv

LEMMA StartKeepsTold ==
  ASSUME ToldInv, NEW a \in Askers, NEW subject \in Ips \cup Domains, StartLookup(a, subject)
  PROVE  ToldInv' /\ Supported
<1> DEFINE place == IF subject \in Ips THEN "selecting" ELSE "remembering"
<1>0. ASSUME NEW p
      PROVE  [Quiet EXCEPT !.at = p, !.subject = subject]
                = [at |-> p, subject |-> subject, answer |-> Unknown]
  <2> DEFINE started == [Quiet EXCEPT !.at = p]
  <2>1. started = [at |-> p, subject |-> Unknown, answer |-> Unknown]
    BY DEF Quiet
  <2> HIDE DEF started
  <2>2. [started EXCEPT !.subject = subject] = [at |-> p, subject |-> subject, answer |-> Unknown]
    BY <2>1
  <2>3. QED
    BY <2>2 DEF started
<1>1. Becomes(a, place, subject, Unknown)
  BY <1>0 DEF StartLookup, Becomes
<1>2. UNCHANGED <<clock, told, intelRows, mxCache>>
  BY DEF StartLookup
<1>3. /\ place \in {"selecting", "asking", "waiting"} => subject \in Ips
      /\ place \in {"remembering", "resolving"} => subject \in Domains \ Ips
      /\ place # "storing" /\ place # "answered"
  OBVIOUS
<1> HIDE DEF place
<1>4. QED
  BY <1>1, <1>2, <1>3, MovingOn

LEMMA SelectKeepsTold ==
  ASSUME ToldInv, NEW a \in Askers, SelectIntel(a)
  PROVE  ToldInv' /\ Supported
<1> DEFINE s == ask[a].subject
<1>1. UNCHANGED <<clock, told, intelRows, mxCache>>
  BY DEF SelectIntel
<1>2. s \in Ips
  BY DEF SelectIntel, ToldInv, AskInv
<1>3. CASE Move(a, "asking")
  BY <1>1, <1>2, <1>3, WalksOn
<1>4. ASSUME NEW row \in FreshRows(s), Reply(a, row.answer)
      PROVE  ToldInv' /\ Supported
  <2>1. row \in intelRows /\ row.ip = s /\ row.checkedAt > clock - IntelTtl
    BY DEF FreshRows
  <2>2. row.checkedAt \in Int /\ Told(row.ip, row.answer, row.checkedAt)
    BY <2>1 DEF ToldInv, KeptInv
  <2>3. PICK t \in told : t.subject = s /\ t.answer = row.answer /\ t.at >= row.checkedAt
    BY <2>1, <2>2 DEF Told
  <2>4. t.at \in Int /\ clock \in Int
    BY DEF ToldInv, KeptInv
  <2>5. clock - t.at < IntelTtl
    BY <2>1, <2>2, <2>3, <2>4, IntelAssumption
  <2>6. Backed(s, row.answer)
    BY <1>1, <1>2, <2>3, <2>5 DEF Backed
  <2>7. Becomes(a, "answered", s, row.answer)
    BY <1>4, ReplyIs DEF ToldInv, KeptInv
  <2> HIDE DEF s
  <2>8. QED
    BY <1>1, <2>6, <2>7, MovingOn
<1>5. Move(a, "asking") \/ \E row \in FreshRows(s) : Reply(a, row.answer)
  BY DEF SelectIntel
<1>6. QED
  BY <1>3, <1>4, <1>5

LEMMA SendKeepsTold ==
  ASSUME ToldInv, NEW a \in Askers, Send(a)
  PROVE  ToldInv' /\ Supported
<1>1. UNCHANGED <<clock, told, intelRows, mxCache>>
  BY DEF Send
<1>2. ask[a].subject \in Ips
  BY DEF Send, ToldInv, AskInv
<1>3. Reply(a, Unknown) \/ Move(a, "waiting")
  BY DEF Send
<1>4. QED
  BY <1>1, <1>2, <1>3, NothingSaid, WalksOn

(* What ip-api says is told before it is stored.                           *)
LEMMA RespondKeepsTold ==
  ASSUME ToldInv, NEW a \in Askers, Respond(a)
  PROVE  ToldInv' /\ Supported
<1> DEFINE s == ask[a].subject
<1>1. UNCHANGED <<clock, intelRows, mxCache>>
  BY DEF Respond
<1>2. s \in Ips
  BY DEF Respond, ToldInv, AskInv
<1>3. CASE Reply(a, Unknown) /\ UNCHANGED told
  BY <1>1, <1>3, NothingSaid
<1>4. ASSUME NEW verdict, Tell(s, verdict),
             Ends(a, "storing", verdict)
      PROVE  ToldInv' /\ Supported
  <2>1. /\ StaysKnown
        /\ ToldIn(told', s, verdict, clock)
        /\ \A t \in told' : t.at \in Int /\ t.at <= clock
    BY <1>4, TellingKeeps DEF ToldInv
  <2>0. AskInv /\ KeptInv /\ ask = [b \in Askers |-> ask[b]]
    BY DEF ToldInv, KeptInv
  <2>2. Becomes(a, "storing", s, verdict)
    BY <1>4, <2>0, EndsAs
  <2> HIDE DEF s
  <2>3. /\ AskInv'
        /\ ask' = [b \in Askers |-> ask'[b]]
        /\ Supported
    BY <1>1, <1>2, <2>0, <2>1, <2>2, OneAsks
  <2>4. KeptInv'
    BY <1>1, <2>1, <2>3, KeptStays DEF ToldInv
  <2>5. QED
    BY <2>3, <2>4 DEF ToldInv
<1>5. \/ Reply(a, Unknown) /\ UNCHANGED told
      \/ \E verdict : Tell(s, verdict) /\ Ends(a, "storing", verdict)
  BY DEF Respond, Ends
<1>6. QED
  BY <1>3, <1>4, <1>5

(* What is told is stored with the time of telling.                        *)
LEMMA StoreKeepsTold ==
  ASSUME ToldInv, NEW a \in Askers, StoreIntel(a)
  PROVE  ToldInv' /\ Supported
<1> DEFINE s == ask[a].subject
           w == ask[a].answer
<1>1. UNCHANGED <<clock, mxCache, told>>
  BY DEF StoreIntel
<1>2. s \in Ips /\ Told(s, w, clock)
  BY DEF StoreIntel, ToldInv, AskInv
<1>3. clock \in Int /\ \A t \in told : t.at \in Int /\ t.at <= clock
  BY DEF ToldInv, KeptInv
<1>4. PICK t \in told : t.subject = s /\ t.answer = w /\ t.at >= clock
  BY <1>2 DEF Told
<1>5. clock - t.at < IntelTtl
  BY <1>3, <1>4, IntelAssumption
<1>6. Backed(s, w)
  BY <1>1, <1>2, <1>4, <1>5 DEF Backed
<1>7. Becomes(a, "answered", s, w)
  BY ReplyIs DEF StoreIntel, ToldInv, KeptInv
<1>8. \A row \in intelRows' : \/ row \in intelRows
                              \/ row = [ip |-> s, answer |-> w, checkedAt |-> clock]
  BY DEF StoreIntel
<1>9. StaysKnown
  BY <1>1, UntoldKeeps
<1>10. AskInv /\ KeptInv
  BY DEF ToldInv
<1> HIDE DEF s, w
<1>11. AskInv' /\ ask' = [b \in Askers |-> ask'[b]] /\ Supported
  BY <1>1, <1>6, <1>7, <1>9, <1>10, OneAsks
<1>12. ASSUME NEW row \in intelRows'
       PROVE  row.checkedAt \in Int /\ row.ip \in Ips /\ Told(row.ip, row.answer, row.checkedAt)
  <2>1. CASE row \in intelRows
    BY <1>10, <2>1 DEF KeptInv
  <2>2. CASE row = [ip |-> s, answer |-> w, checkedAt |-> clock]
    <3>1. row.ip = s /\ row.answer = w /\ row.checkedAt = clock
      BY <2>2
    <3>2. QED
      BY <1>2, <1>3, <3>1
  <2>3. QED
    BY <1>8, <2>1, <2>2
<1>13. \A row \in intelRows' : (Told(row.ip, row.answer, row.checkedAt))'
  BY <1>1, <1>12 DEF Told
<1>14. KeptInv'
  BY <1>1, <1>3, <1>10, <1>11, <1>12, <1>13 DEF KeptInv, Told
<1>15. QED
  BY <1>11, <1>14 DEF ToldInv

LEMMA RecallKeepsTold ==
  ASSUME ToldInv, NEW a \in Askers, RecallMx(a)
  PROVE  ToldInv' /\ Supported
<1> DEFINE s == ask[a].subject
<1>1. UNCHANGED <<clock, told, intelRows, mxCache>>
  BY DEF RecallMx
<1>2. s \in Domains \ Ips
  BY DEF RecallMx, ToldInv, AskInv
<1>3. CASE Move(a, "resolving")
  BY <1>1, <1>2, <1>3, WalksOn
<1>4. ASSUME NEW i \in Recalled(s), Reply(a, mxCache[i].answer)
      PROVE  ToldInv' /\ Supported
  <2> DEFINE w == mxCache[i].answer
  <2>1. i \in DOMAIN mxCache /\ mxCache[i].domain = s /\ clock - mxCache[i].at < MxTtl
    BY DEF Recalled
  <2>2. Told(s, w, mxCache[i].at)
    BY <2>1 DEF ToldInv, KeptInv
  <2>3. PICK t \in told : t.subject = s /\ t.answer = w /\ t.at >= mxCache[i].at
    BY <2>2 DEF Told
  <2>4. mxCache[i].at \in Int
    BY <2>1, EntryTimes DEF ToldInv
  <2>5. t.at \in Int /\ clock \in Int
    BY DEF ToldInv, KeptInv
  <2>6. clock - t.at < MxTtl
    BY <2>1, <2>3, <2>4, <2>5, IntelAssumption
  <2>7. Backed(s, w)
    BY <1>1, <1>2, <2>3, <2>6 DEF Backed
  <2>8. Becomes(a, "answered", s, w)
    BY <1>4, ReplyIs DEF ToldInv, KeptInv
  <2> HIDE DEF s, w
  <2>9. QED
    BY <1>1, <2>7, <2>8, MovingOn
<1>5. Move(a, "resolving") \/ \E i \in Recalled(s) : Reply(a, mxCache[i].answer)
  BY DEF RecallMx
<1>6. QED
  BY <1>3, <1>4, <1>5

(* What is remembered of a domain is what was told now, or was remembered. *)
LEMMA RememberedWell ==
  ASSUME KeptInv, NEW s \in Domains \ Ips, NEW w \in {"yes", "no"}
  PROVE  /\ Remembering(s, w) \in Seq([domain : Domains \ Ips, answer : {"yes", "no"}, at : Int])
         /\ \A i \in DOMAIN Remembering(s, w) :
               \/ Remembering(s, w)[i] = [domain |-> s, answer |-> w, at |-> clock]
               \/ \E j \in DOMAIN mxCache : Remembering(s, w)[i] = mxCache[j]
<1> DEFINE entry == [domain |-> s, answer |-> w, at |-> clock]
           Entry == [domain : Domains \ Ips, answer : {"yes", "no"}, at : Int]
           in == \E i \in DOMAIN mxCache : mxCache[i].domain = s
           place == [i \in DOMAIN mxCache |-> IF mxCache[i].domain = s THEN entry ELSE mxCache[i]]
<1>1. mxCache \in Seq(Entry) /\ entry \in Entry
  BY DEF KeptInv
<1>2. Remembering(s, w) = IF in THEN place ELSE Append(mxCache, entry)
  BY DEF Remembering
<1>3. \A i \in DOMAIN place : place[i] = entry \/ place[i] = mxCache[i]
  OBVIOUS
<1>4. DOMAIN place = DOMAIN mxCache
  OBVIOUS
<1> HIDE DEF entry, Entry, in, place
<1>5. \A i \in DOMAIN place : place[i] \in Entry
  BY <1>1, <1>3, <1>4, EntryOf
<1>6. place \in Seq(Entry)
  <2>1. Len(mxCache) \in Nat /\ DOMAIN mxCache = 1..Len(mxCache)
    BY <1>1
  <2>2. place = [i \in 1..Len(mxCache) |-> place[i]]
    BY <1>4, <2>1 DEF place
  <2>3. QED
    BY <1>4, <1>5, <2>1, <2>2
<1>7. Append(mxCache, entry) \in Seq(Entry)
  BY <1>1
<1>8. \A i \in DOMAIN Append(mxCache, entry) :
         \/ Append(mxCache, entry)[i] = entry
         \/ i \in DOMAIN mxCache /\ Append(mxCache, entry)[i] = mxCache[i]
  BY <1>1
<1>9. QED
  BY <1>2, <1>3, <1>4, <1>6, <1>7, <1>8 DEF entry, Entry

(* What a name server says of a domain is told before it is remembered.    *)
LEMMA ServersKeepTold ==
  ASSUME ToldInv, NEW a \in Askers, ask[a].at = "resolving",
         NEW w \in {"yes", "no"}, Tell(ask[a].subject, w), Reply(a, w),
         UNCHANGED <<clock, intelRows>>,
         \/ mxCache' = Remembering(ask[a].subject, w)
         \/ /\ Len(Remembering(ask[a].subject, w)) > MxCapacity
            /\ mxCache' = Tail(Remembering(ask[a].subject, w))
  PROVE  ToldInv' /\ Supported
<1> DEFINE s == ask[a].subject
           entry == [domain |-> s, answer |-> w, at |-> clock]
           Entry == [domain : Domains \ Ips, answer : {"yes", "no"}, at : Int]
           m == Remembering(s, w)
<1>1. s \in Domains \ Ips
  BY DEF ToldInv, AskInv
<1>2. AskInv /\ KeptInv /\ clock \in Int /\ clock' = clock /\ intelRows' = intelRows
  BY DEF ToldInv, KeptInv
<1>3. /\ StaysKnown
      /\ ToldIn(told', s, w, clock)
      /\ \A t \in told' : t.at \in Int /\ t.at <= clock
  BY <1>2, TellingKeeps
<1>4. Backed(s, w)
  <2>1. PICK t \in told' : t.subject = s /\ t.answer = w /\ t.at >= clock
    BY <1>3 DEF ToldIn
  <2>2. t.at \in Int /\ t.at <= clock
    BY <1>3, <2>1
  <2>3. clock - t.at < MxTtl
    BY <1>2, <2>1, <2>2, IntelAssumption
  <2>4. QED
    BY <1>1, <2>1, <2>3 DEF Backed
<1>5. Becomes(a, "answered", s, w)
  BY <1>2, ReplyIs DEF KeptInv
<1>6. /\ m \in Seq(Entry)
      /\ \A i \in DOMAIN m : m[i] = entry \/ \E j \in DOMAIN mxCache : m[i] = mxCache[j]
  BY <1>1, <1>2, RememberedWell
<1>7. mxCache' = m \/ (Len(m) > MxCapacity /\ mxCache' = Tail(m))
  OBVIOUS
<1>8. entry.domain = s /\ entry.answer = w /\ entry.at = clock
  OBVIOUS
<1> HIDE DEF s, entry, Entry, m
<1>9. AskInv' /\ ask' = [b \in Askers |-> ask'[b]] /\ Supported
  BY <1>2, <1>3, <1>4, <1>5, OneAsks
<1>10. /\ mxCache' \in Seq(Entry)
       /\ \A i \in DOMAIN mxCache' : \E k \in DOMAIN m : mxCache'[i] = m[k]
  <2>1. CASE mxCache' = m
    BY <1>6, <2>1
  <2>2. CASE Len(m) > MxCapacity /\ mxCache' = Tail(m)
    <3>1. m # <<>>
      BY <1>6, <2>2, IntelAssumption
    <3>2. /\ Tail(m) \in Seq(Entry)
          /\ \A i \in DOMAIN Tail(m) : i + 1 \in DOMAIN m /\ Tail(m)[i] = m[i + 1]
      BY <1>6, <3>1
    <3>3. QED
      BY <2>2, <3>2
  <2>3. QED
    BY <1>7, <2>1, <2>2
<1>11. \A j \in DOMAIN mxCache :
          mxCache[j].at \in Int /\ ToldIn(told, mxCache[j].domain, mxCache[j].answer, mxCache[j].at)
  BY <1>2, EntryTimes DEF KeptInv, Told, ToldIn
<1>12. \A j \in DOMAIN mxCache : ToldIn(told', mxCache[j].domain, mxCache[j].answer, mxCache[j].at)
  BY <1>3, <1>11 DEF StaysKnown
<1>13. \A k \in DOMAIN m : ToldIn(told', m[k].domain, m[k].answer, m[k].at)
  BY <1>3, <1>6, <1>8, <1>12
<1>14. \A i \in DOMAIN mxCache' : ToldIn(told', mxCache'[i].domain, mxCache'[i].answer, mxCache'[i].at)
  BY <1>10, <1>13
<1>15. \A row \in intelRows' : /\ row.checkedAt \in Int /\ row.ip \in Ips
                               /\ ToldIn(told', row.ip, row.answer, row.checkedAt)
  <2>1. \A row \in intelRows : /\ row.checkedAt \in Int /\ row.ip \in Ips
                               /\ ToldIn(told, row.ip, row.answer, row.checkedAt)
    BY <1>2 DEF KeptInv, Told, ToldIn
  <2>2. QED
    BY <1>2, <1>3, <2>1 DEF StaysKnown
<1>16. KeptInv'
  BY <1>2, <1>3, <1>9, <1>10, <1>14, <1>15 DEF KeptInv, Told, ToldIn, Entry
<1>17. QED
  BY <1>9, <1>16 DEF ToldInv

LEMMA ToldStep ==
  ASSUME ToldInv, NEW subjects, subjects \subseteq Ips \cup Domains, IntelNext(subjects)
  PROVE  ToldInv' /\ Supported
<1>1. CASE TimePasses
  BY <1>1, TimeKeepsTold
<1>2. ASSUME NEW a \in Askers, NEW subject \in subjects, StartLookup(a, subject)
      PROVE  ToldInv' /\ Supported
  BY <1>2, StartKeepsTold
<1>3. ASSUME NEW a \in Askers, SelectIntel(a) PROVE ToldInv' /\ Supported
  BY <1>3, SelectKeepsTold
<1>4. ASSUME NEW a \in Askers, Send(a) PROVE ToldInv' /\ Supported
  BY <1>4, SendKeepsTold
<1>5. ASSUME NEW a \in Askers, GiveUp(a) PROVE ToldInv' /\ Supported
  BY <1>5, NothingSaid DEF GiveUp
<1>6. ASSUME NEW a \in Askers, StoreIntel(a) PROVE ToldInv' /\ Supported
  BY <1>6, StoreKeepsTold
<1>7. ASSUME NEW a \in Askers, RecallMx(a) PROVE ToldInv' /\ Supported
  BY <1>7, RecallKeepsTold
<1>8. ASSUME NEW a \in Askers, MxFails(a) PROVE ToldInv' /\ Supported
  BY <1>8, NothingSaid DEF MxFails
<1>9. ASSUME NEW a \in Askers, Respond(a) PROVE ToldInv' /\ Supported
  BY <1>9, RespondKeepsTold
<1>10. ASSUME NEW a \in Askers, CutOff(a) PROVE ToldInv' /\ Supported
  BY <1>10, WalksOn DEF CutOff
<1>11. ASSUME NEW a \in Askers, ResolveMx(a) PROVE ToldInv' /\ Supported
  <2>1. PICK w \in {"yes", "no"} :
           /\ Tell(ask[a].subject, w)
           /\ Reply(a, w)
           /\ mxCache' = IF Len(Remembering(ask[a].subject, w)) > MxCapacity
                         THEN Tail(Remembering(ask[a].subject, w))
                         ELSE Remembering(ask[a].subject, w)
    BY <1>11 DEF ResolveMx
  <2>2. ask[a].at = "resolving" /\ UNCHANGED <<clock, intelRows>>
    BY <1>11 DEF ResolveMx
  <2>3. QED
    BY <2>1, <2>2, ServersKeepTold
<1>12. ASSUME NEW a \in Askers, NoSuchDomain(a) PROVE ToldInv' /\ Supported
  BY <1>12, ServersKeepTold DEF NoSuchDomain
<1>13. QED
  BY <1>1, <1>2, <1>3, <1>4, <1>5, <1>6, <1>7, <1>8, <1>9, <1>10, <1>11, <1>12 DEF IntelNext

(* An assessment is told of an address only what ip-api said of it within  *)
(* 30 days, and of a domain only what a name server said within 24 hours,  *)
(* through the table, the memory and its evictions, and whatever fails on  *)
(* the way (lookupIpIntel, ip-intel.ts:38; domainHasMx, :87).             *)
THEOREM NothingMadeUp == Spec => OnlyWhatWasTold
<1> DEFINE Backing ==
      \A a \in Askers : ask'[a].at = "answered" /\ ask'[a] # ask[a] /\ ask'[a].answer # Unknown =>
          \E t \in told' :
              /\ t.subject = ask'[a].subject /\ t.answer = ask'[a].answer
              /\ clock - t.at < (IF t.subject \in Ips THEN IntelTtl ELSE MxTtl)
<1>1. ToldInv /\ UNCHANGED intelVars => ToldInv' /\ [Backing]_intelVars
  BY DEF ToldInv, AskInv, KeptInv, Told, intelVars
<1>2. Supported => Backing
  BY DEF Supported, Backed
<1> HIDE DEF Backing
<1>3. ToldInv /\ [Next]_vars => ToldInv' /\ [Backing]_intelVars
  BY <1>1, <1>2, ToldStep, NetworkOrNothing
<1>4. QED
  BY <1>3, InitToldInv, PTL DEF Spec, OnlyWhatWasTold, Backing

-----------------------------------------------------------------------------
(* The counts.                                                             *)

(* Only the stories about counts touch what the queries look at.           *)
LEMMA CountsOrNothing ==
  ASSUME [Next]_vars
  PROVE  \/ \E last : \E orders \in {Orders, FewOrders}, kinds \in {{}, {"payment", "guard"}} :
                VelocityNext(orders, kinds, last)
         \/ UNCHANGED velocityVars
<1>1. CASE CountsStory(Orders, {}, BurstTicks)
  BY <1>1 DEF CountsStory
<1>2. CASE CountsStory(FewOrders, {"payment", "guard"}, FailureTicks)
  BY <1>2 DEF CountsStory
<1>3. CASE UNCHANGED velocityVars
  BY <1>3
<1>4. QED
  BY <1>1, <1>2, <1>3 DEF Next, vars, ListsStory, NetworkStory

(* What a host's orders are counted from is a finite part of them, and     *)
(* takes in the burst as long as it is the moment the order was placed.    *)
LEMMA BurstIsWithin ==
  ASSUME BurstInv, NEW o \in PlacedOrders, NEW window, now = placed[o].at
  PROVE  /\ Burst(o, window) \subseteq FromHost(o, window)
         /\ IsFiniteSet(FromHost(o, window))
<1>1. PlacedOrders = 1..Len(placed) /\ Len(placed) \in Nat
  BY DEF BurstInv, PlacedOrders
<1>2. o \in 1..Len(placed)
  BY <1>1
<1>3. FromHost(o, window) \subseteq 1..Len(placed)
  BY <1>1 DEF FromHost, Since, PlacedOrders
<1>4. IsFiniteSet(1..Len(placed))
  BY <1>1, FS_Interval
<1>5. Burst(o, window) \subseteq FromHost(o, window)
  BY <1>1, <1>2 DEF Burst, FromHost, Since, PlacedOrders
<1>6. QED
  BY <1>3, <1>4, <1>5, FS_Subset

LEMMA CountReaches ==
  ASSUME BurstInv, NEW o \in PlacedOrders, NEW window, now = placed[o].at
  PROVE  AtLeast(Cardinality(FromHost(o, window)), Burst(o, window))
<1>1. /\ Burst(o, window) \subseteq FromHost(o, window)
      /\ IsFiniteSet(FromHost(o, window))
  BY BurstIsWithin
<1>2. Cardinality(Burst(o, window)) <= Cardinality(FromHost(o, window))
  BY <1>1, FS_Subset
<1>3. Cardinality(Burst(o, window)) \in Nat /\ Cardinality(FromHost(o, window)) \in Nat
  BY <1>1, FS_Subset, FS_CardinalityType
<1>4. QED
  BY <1>2, <1>3 DEF AtLeast

LEMMA IdentitiesReach ==
  ASSUME BurstInv, NEW o \in PlacedOrders, now = placed[o].at
  PROVE  AtLeast(Cardinality({placed[i].email : i \in FromHost(o, Day)}),
                 {placed[i].email : i \in Burst(o, Day)})
<1> DEFINE all == {placed[i].email : i \in FromHost(o, Day)}
           some == {placed[i].email : i \in Burst(o, Day)}
           EmailAt == [i \in FromHost(o, Day) |-> placed[i].email]
<1>1. Burst(o, Day) \subseteq FromHost(o, Day) /\ IsFiniteSet(FromHost(o, Day))
  BY BurstIsWithin
<1>2. EmailAt \in Surjection(FromHost(o, Day), all)
  BY DEF Surjection
<1>3. IsFiniteSet(all)
  BY <1>1, <1>2, FS_Surjection
<1>4. some \subseteq all
  BY <1>1
<1> HIDE DEF all, some
<1>5. Cardinality(some) <= Cardinality(all) /\ IsFiniteSet(some)
  BY <1>3, <1>4, FS_Subset
<1>6. Cardinality(some) \in Nat /\ Cardinality(all) \in Nat
  BY <1>3, <1>5, FS_CardinalityType
<1>7. AtLeast(Cardinality(all), some)
  BY <1>5, <1>6 DEF AtLeast
<1>8. QED
  BY <1>7 DEF all, some

LEMMA InitBurstInv == Init => BurstInv
<1> SUFFICES ASSUME Init PROVE BurstInv
  OBVIOUS
<1>1. VelocityInit
  BY DEF Init
<1>2. placed = <<>> /\ PlacedOrders = {} /\ now = 0 /\ counted = [o \in Orders |-> Uncounted]
  BY <1>1 DEF VelocityInit, PlacedOrders
<1>3. Uncounted = [f \in DOMAIN Uncounted |-> Uncounted[f]] /\ Uncounted.asked = 0
  BY DEF Uncounted
<1>4. QED
  BY <1>2, <1>3 DEF BurstInv

(* Of the order at hand and those before it nothing changes any more.      *)
LEMMA BurstStays ==
  ASSUME NEW n \in Nat, placed \in Seq(Rows), placed' \in Seq(Rows),
         NEW o \in 1..n, \A i \in 1..n : placed'[i] = placed[i], NEW window
  PROVE  Burst(o, window)' = Burst(o, window)
<1>1. placed'[o] = placed[o] /\ \A i \in 1..o : placed'[i] = placed[i]
  OBVIOUS
<1>2. Client(o)' = Client(o)
  BY <1>1 DEF Client, RowOf
<1>3. QED
  BY <1>1, <1>2 DEF Burst

LEMMA PlaceKeepsBursts ==
  ASSUME BurstInv, NEW o \in Orders, Place(o)
  PROVE  BurstInv'
<1>1. PICK row : placed' = Append(placed, row) /\ row \in Rows /\ row.at = now
  <2>1. PICK ip \in HostsOf[o], email \in MailboxesOf[o] :
          placed' = Append(placed, [at |-> now, ip |-> ip, email |-> email, value |-> 1])
    BY DEF Place
  <2>2. [at |-> now, ip |-> ip, email |-> email, value |-> 1] \in Rows
    BY DEF Rows, BurstInv
  <2>3. QED
    BY <2>1, <2>2
<1>2. PICK n \in Nat : n = Len(placed) /\ o = n + 1 /\ PlacedOrders = 1..n
  BY DEF Place, BurstInv, PlacedOrders
<1>3. /\ placed' \in Seq(Rows) /\ PlacedOrders' = 1..(n + 1) /\ placed'[o] = row
      /\ \A i \in 1..n : placed'[i] = placed[i]
  BY <1>1, <1>2 DEF BurstInv, PlacedOrders
<1>4. UNCHANGED <<now, counted>> /\ counted[o].asked = 0
  <2>1. o \notin PlacedOrders
    BY <1>2
  <2>2. QED
    BY <2>1 DEF Place, BurstInv
<1>5. ASSUME NEW p \in PlacedOrders, now = placed[p].at
      PROVE  Caught(p, counted[p])'
  <2>1. Burst(p, Hour)' = Burst(p, Hour) /\ Burst(p, Day)' = Burst(p, Day)
    BY <1>2, <1>3, <1>5, BurstStays DEF BurstInv
  <2>2. \A i \in Burst(p, Day) : placed'[i].email = placed[i].email
    BY <1>2, <1>3, <1>5 DEF Burst
  <2>3. {placed[i].email : i \in Burst(p, Day)}' = {placed[i].email : i \in Burst(p, Day)}
    BY <2>1, <2>2
  <2>4. Caught(p, counted[p])
    BY <1>5 DEF BurstInv
  <2>5. QED
    BY <1>4, <2>1, <2>3, <2>4 DEF Caught
<1>6. Caught(o, counted[o])'
  BY <1>4 DEF Caught
<1>7. \A p \in PlacedOrders' : now' = placed'[p].at => Caught(p, counted[p])'
  BY <1>2, <1>3, <1>4, <1>5, <1>6
<1>8. \A i \in PlacedOrders' : placed'[i].at <= now'
  BY <1>1, <1>2, <1>3, <1>4 DEF BurstInv
<1>9. PlacedOrders \subseteq PlacedOrders' /\ PlacedOrders' \subseteq Orders
  <2>1. 1..(n + 1) = (1..n) \cup {n + 1}
    OBVIOUS
  <2>2. QED
    BY <1>2, <1>3, <2>1 DEF BurstInv
<1>10. QED
  BY <1>3, <1>4, <1>7, <1>8, <1>9 DEF BurstInv

(* Each query has its place in the row of queries.                         *)
LEMMA AskingWhen ==
  ASSUME BurstInv, NEW o, NEW query, Asking(o, query)
  PROVE  /\ o \in PlacedOrders /\ o \in Orders
         /\ query = "hour" => counted[o].asked = 0
         /\ query = "day" => counted[o].asked = 1
         /\ query = "email" => counted[o].asked = 2
         /\ query = "fanout" => counted[o].asked = 3
         /\ query = "failed" => counted[o].asked = 4
<1>1. o \in PlacedOrders /\ o \in Orders /\ counted[o].asked \in 0..5
  BY DEF Asking, BurstInv
<1>2. Len(Queries) = 5
  BY DEF Queries
<1>3. counted[o].asked \in 0..4 /\ Queries[counted[o].asked + 1] = query
  BY <1>1, <1>2 DEF Asking
<1>4. /\ Queries[0 + 1] = "hour" /\ Queries[1 + 1] = "day" /\ Queries[2 + 1] = "email"
      /\ Queries[3 + 1] = "fanout" /\ Queries[4 + 1] = "failed"
  BY DEF Queries
<1>5. \/ counted[o].asked = 0 \/ counted[o].asked = 1 \/ counted[o].asked = 2
      \/ counted[o].asked = 3 \/ counted[o].asked = 4
  BY <1>3
<1>6. QED
  BY <1>1, <1>3, <1>4, <1>5

LEMMA CountKeepsBursts ==
  ASSUME BurstInv, NEW o \in PlacedOrders, UNCHANGED <<now, placed>>,
         NEW new, counted' = [counted EXCEPT ![o] = new],
         new = [f \in DOMAIN Uncounted |-> new[f]], new.asked \in 0..5,
         now = placed[o].at => Caught(o, new)
  PROVE  BurstInv'
<1>1. o \in Orders
  BY DEF BurstInv
<1>2. counted'[o] = new /\ \A p \in Orders : p # o => counted'[p] = counted[p]
  BY <1>1 DEF BurstInv
<1>3. counted' = [p \in Orders |-> counted'[p]]
  BY DEF BurstInv
<1>4. PlacedOrders' = PlacedOrders
  BY DEF PlacedOrders
<1>5. \A p \in PlacedOrders : now = placed[p].at => Caught(p, counted'[p])
  BY <1>2 DEF BurstInv
<1>6. ASSUME NEW p \in PlacedOrders, Caught(p, counted'[p])
      PROVE  Caught(p, counted[p])'
  <2>1. \A window : Burst(p, window)' = Burst(p, window)
    BY DEF Burst, Client, RowOf
  <2>2. {placed[i].email : i \in Burst(p, Day)}' = {placed[i].email : i \in Burst(p, Day)}
    BY <2>1
  <2>3. QED
    BY <1>6, <2>1, <2>2 DEF Caught
<1>7. \A p \in PlacedOrders' : now' = placed'[p].at => Caught(p, counted[p])'
  BY <1>4, <1>5, <1>6
<1>8. \A p \in Orders :
        /\ counted'[p] = [f \in DOMAIN Uncounted |-> counted'[p][f]]
        /\ counted'[p].asked \in 0..5
        /\ p \notin PlacedOrders => counted'[p].asked = 0
  BY <1>2 DEF BurstInv
<1>9. QED
  BY <1>3, <1>4, <1>7, <1>8 DEF BurstInv

CountFields == {"asked", "hour", "day", "emailOrders", "emailValue", "identities", "failed", "unheard"}

LEMMA CountFieldsAre == DOMAIN Uncounted = CountFields
BY DEF Uncounted, CountFields

(* A query that was answered is counted.                                   *)
MoreAsked(ev, new) == new = [ev EXCEPT !.asked = @ + 1]

LEMMA OneMoreAsked ==
  ASSUME NEW ev, ev = [f \in CountFields |-> ev[f]], NEW new, MoreAsked(ev, new)
  PROVE  /\ new = [f \in CountFields |-> new[f]] /\ new.asked = ev.asked + 1
         /\ \A f \in CountFields : f # "asked" => new[f] = ev[f]
<1>1. PICK n : n = ev.asked + 1
  OBVIOUS
<1>2. new = [ev EXCEPT !.asked = n]
  BY <1>1 DEF MoreAsked
<1>3. new = [f \in CountFields |-> IF f = "asked" THEN n ELSE ev[f]]
  BY <1>2 DEF CountFields
<1>4. "asked" \in CountFields
  BY DEF CountFields
<1>5. QED
  BY <1>1, <1>3, <1>4

LEMMA CountHourKeeps ==
  ASSUME BurstInv, NEW o, CountHour(o)
  PROVE  BurstInv'
<1>1. o \in PlacedOrders /\ o \in Orders /\ counted[o].asked = 0
  BY AskingWhen DEF CountHour
<1>2. PICK old, n, ev, new : 
        /\ old = counted[o] /\ n = Cardinality(FromHost(o, Hour))
        /\ ev = [old EXCEPT !.hour = n] /\ new = [ev EXCEPT !.asked = @ + 1]
  OBVIOUS
<1>3. counted' = [counted EXCEPT ![o] = new] /\ UNCHANGED <<now, placed>>
  BY <1>2 DEF CountHour, Count
<1>4. old = [f \in CountFields |-> old[f]] /\ old.asked = 0
  BY <1>1, <1>2, CountFieldsAre DEF BurstInv
<1>5. ev = [f \in CountFields |-> ev[f]] /\ ev.asked = 0 /\ ev.hour = n
  BY <1>2, <1>4 DEF CountFields
<1>6. new = [f \in CountFields |-> new[f]] /\ new.asked = 1 /\ new.hour = n
  <2>1. MoreAsked(ev, new)
    BY <1>2 DEF MoreAsked
  <2>2. /\ new = [f \in CountFields |-> new[f]] /\ new.asked = ev.asked + 1
        /\ \A f \in CountFields : f # "asked" => new[f] = ev[f]
    BY <1>5, <2>1, OneMoreAsked
  <2>3. QED
    BY <1>5, <2>2 DEF CountFields
<1>7. now = placed[o].at => Caught(o, new)
  BY <1>1, <1>2, <1>6, CountReaches DEF Caught
<1>8. QED
  BY <1>1, <1>3, <1>6, <1>7, CountKeepsBursts, CountFieldsAre

LEMMA CountDayKeeps ==
  ASSUME BurstInv, NEW o, CountDay(o)
  PROVE  BurstInv'
<1>1. o \in PlacedOrders /\ o \in Orders /\ counted[o].asked = 1
  BY AskingWhen DEF CountDay
<1>2. PICK old, n, ev, new :
        /\ old = counted[o] /\ n = Cardinality(FromHost(o, Day))
        /\ ev = [old EXCEPT !.day = n] /\ new = [ev EXCEPT !.asked = @ + 1]
  OBVIOUS
<1>3. counted' = [counted EXCEPT ![o] = new] /\ UNCHANGED <<now, placed>>
  BY <1>2 DEF CountDay, Count
<1>4. old = [f \in CountFields |-> old[f]] /\ old.asked = 1
  BY <1>1, <1>2, CountFieldsAre DEF BurstInv
<1>5. ev = [f \in CountFields |-> ev[f]] /\ ev.asked = 1 /\ ev.hour = old.hour /\ ev.day = n
  BY <1>2, <1>4 DEF CountFields
<1>6. /\ new = [f \in CountFields |-> new[f]] /\ new.asked = 2
      /\ new.hour = old.hour /\ new.day = n
  <2>1. MoreAsked(ev, new)
    BY <1>2 DEF MoreAsked
  <2>2. /\ new = [f \in CountFields |-> new[f]] /\ new.asked = ev.asked + 1
        /\ \A f \in CountFields : f # "asked" => new[f] = ev[f]
    BY <1>5, <2>1, OneMoreAsked
  <2>3. QED
    BY <1>5, <2>2 DEF CountFields
<1>7. ASSUME now = placed[o].at
      PROVE  Caught(o, new)
  <2>1. Caught(o, old)
    BY <1>1, <1>2, <1>7 DEF BurstInv
  <2>2. AtLeast(n, Burst(o, Day))
    BY <1>1, <1>2, <1>7, CountReaches
  <2>3. QED
    BY <1>4, <1>6, <2>1, <2>2 DEF Caught
<1>8. QED
  BY <1>1, <1>3, <1>6, <1>7, CountKeepsBursts, CountFieldsAre

LEMMA CountEmailKeeps ==
  ASSUME BurstInv, NEW o, CountEmail(o)
  PROVE  BurstInv'
<1>1. o \in PlacedOrders /\ o \in Orders /\ counted[o].asked = 2
  BY AskingWhen DEF CountEmail
<1>2. PICK old, n, value, ev, new :
        /\ old = counted[o]
        /\ ev = [old EXCEPT !.emailOrders = n, !.emailValue = value]
        /\ new = [ev EXCEPT !.asked = @ + 1]
        /\ Count(o, ev)
  BY DEF CountEmail
<1>3. counted' = [counted EXCEPT ![o] = new] /\ UNCHANGED <<now, placed>>
  BY <1>2 DEF Count
<1>4. old = [f \in CountFields |-> old[f]] /\ old.asked = 2
  BY <1>1, <1>2, CountFieldsAre DEF BurstInv
<1>5. PICK half : half = [old EXCEPT !.emailOrders = n]
  OBVIOUS
<1>6. half = [f \in CountFields |-> half[f]] /\ half.asked = 2 /\ half.hour = old.hour /\ half.day = old.day
  BY <1>4, <1>5 DEF CountFields
<1>7. ev = [half EXCEPT !.emailValue = value]
  BY <1>2, <1>5
<1>8. ev = [f \in CountFields |-> ev[f]] /\ ev.asked = 2 /\ ev.hour = old.hour /\ ev.day = old.day
  BY <1>6, <1>7 DEF CountFields
<1>9. /\ new = [f \in CountFields |-> new[f]] /\ new.asked = 3
      /\ new.hour = old.hour /\ new.day = old.day
  <2>1. MoreAsked(ev, new)
    BY <1>2 DEF MoreAsked
  <2>2. /\ new = [f \in CountFields |-> new[f]] /\ new.asked = ev.asked + 1
        /\ \A f \in CountFields : f # "asked" => new[f] = ev[f]
    BY <1>8, <2>1, OneMoreAsked
  <2>3. QED
    BY <1>8, <2>2 DEF CountFields
<1>10. ASSUME now = placed[o].at
      PROVE  Caught(o, new)
  <2>1. Caught(o, old)
    BY <1>1, <1>2, <1>10 DEF BurstInv
  <2>2. QED
    BY <1>4, <1>9, <2>1 DEF Caught
<1>11. QED
  BY <1>1, <1>3, <1>9, <1>10, CountKeepsBursts, CountFieldsAre

LEMMA CountIdentitiesKeeps ==
  ASSUME BurstInv, NEW o, CountIdentities(o)
  PROVE  BurstInv'
<1>1. o \in PlacedOrders /\ o \in Orders /\ counted[o].asked = 3
  BY AskingWhen DEF CountIdentities
<1>2. PICK old, n, ev, new :
        /\ old = counted[o] /\ n = Cardinality({placed[i].email : i \in FromHost(o, Day)})
        /\ ev = [old EXCEPT !.identities = n] /\ new = [ev EXCEPT !.asked = @ + 1]
  OBVIOUS
<1>3. counted' = [counted EXCEPT ![o] = new] /\ UNCHANGED <<now, placed>>
  BY <1>2 DEF CountIdentities, Count
<1>4. old = [f \in CountFields |-> old[f]] /\ old.asked = 3
  BY <1>1, <1>2, CountFieldsAre DEF BurstInv
<1>5. /\ ev = [f \in CountFields |-> ev[f]] /\ ev.asked = 3 /\ ev.hour = old.hour
      /\ ev.day = old.day /\ ev.identities = n
  BY <1>2, <1>4 DEF CountFields
<1>6. /\ new = [f \in CountFields |-> new[f]] /\ new.asked = 4 /\ new.hour = old.hour
      /\ new.day = old.day /\ new.identities = n
  <2>1. MoreAsked(ev, new)
    BY <1>2 DEF MoreAsked
  <2>2. /\ new = [f \in CountFields |-> new[f]] /\ new.asked = ev.asked + 1
        /\ \A f \in CountFields : f # "asked" => new[f] = ev[f]
    BY <1>5, <2>1, OneMoreAsked
  <2>3. QED
    BY <1>5, <2>2 DEF CountFields
<1>7. ASSUME now = placed[o].at
      PROVE  Caught(o, new)
  <2>1. Caught(o, old)
    BY <1>1, <1>2, <1>7 DEF BurstInv
  <2>2. AtLeast(n, {placed[i].email : i \in Burst(o, Day)})
    BY <1>1, <1>2, <1>7, IdentitiesReach
  <2>3. QED
    BY <1>4, <1>6, <2>1, <2>2 DEF Caught
<1>8. QED
  BY <1>1, <1>3, <1>6, <1>7, CountKeepsBursts, CountFieldsAre

\* What the last query counts, and leaves in memory.
KindsHeard(heard) == {"payment"} \cup (IF guardMemo'.exists /\ heard THEN {"guard"} ELSE {})

LEMMA CountFailedIs ==
  ASSUME BurstInv, NEW o, CountFailed(o)
  PROVE  /\ o \in PlacedOrders /\ o \in Orders /\ counted[o].asked = 4
         /\ UNCHANGED <<now, placed, failures, guardTable>>
         /\ \E new, probed, heard :
              /\ counted' = [counted EXCEPT ![o] = new]
              /\ new = [f \in CountFields |-> new[f]] /\ new.asked = 5
              /\ new.failed = Cardinality(Failed(o, KindsHeard(heard)))
              /\ new.unheard = ~heard /\ heard \in BOOLEAN /\ probed \in BOOLEAN
              /\ guardMemo' = IF Remembered THEN guardMemo
                              ELSE [exists |-> probed /\ guardTable # Never, checkedAt |-> now]
              /\ probeFailed' = IF Remembered \/ probed THEN probeFailed ELSE now
<1>1. o \in PlacedOrders /\ o \in Orders /\ counted[o].asked = 4
  BY AskingWhen DEF CountFailed
<1>2. PICK probed \in BOOLEAN, heard \in BOOLEAN :
        /\ guardMemo' = IF Remembered THEN guardMemo
                        ELSE [exists |-> probed /\ guardTable # Never, checkedAt |-> now]
        /\ probeFailed' = IF Remembered \/ probed THEN probeFailed ELSE now
        /\ Count(o, [Uncounted EXCEPT
              !.asked = counted[o].asked,
              !.failed = Cardinality(Failed(o, {"payment"} \cup
                            (IF guardMemo'.exists /\ heard THEN {"guard"} ELSE {}))),
              !.unheard = ~heard])
  BY DEF CountFailed
<1>3. PICK n : n = Cardinality(Failed(o, KindsHeard(heard)))
  OBVIOUS
<1>4. PICK asked, third, half, ev, new :
        /\ asked = counted[o].asked
        /\ third = [Uncounted EXCEPT !.asked = asked]
        /\ half = [third EXCEPT !.failed = n] /\ ev = [half EXCEPT !.unheard = ~heard]
        /\ new = [ev EXCEPT !.asked = @ + 1]
  OBVIOUS
<1>5. ev = [Uncounted EXCEPT !.asked = asked, !.failed = n, !.unheard = ~heard]
  BY <1>4
<1>6. Count(o, ev)
  BY <1>2, <1>3, <1>4, <1>5 DEF KindsHeard
<1>7. Uncounted = [f \in CountFields |-> Uncounted[f]]
  BY DEF Uncounted, CountFields
<1>8. third = [f \in CountFields |-> third[f]] /\ third.asked = 4
  BY <1>1, <1>4, <1>7 DEF CountFields
<1>9. half = [f \in CountFields |-> half[f]] /\ half.asked = 4 /\ half.failed = n
  BY <1>4, <1>8 DEF CountFields
<1>10. ev = [f \in CountFields |-> ev[f]] /\ ev.asked = 4 /\ ev.failed = n /\ ev.unheard = ~heard
  BY <1>4, <1>9 DEF CountFields
<1>11. new = [f \in CountFields |-> new[f]] /\ new.asked = 5 /\ new.failed = n /\ new.unheard = ~heard
  <2>1. MoreAsked(ev, new)
    BY <1>4 DEF MoreAsked
  <2>2. /\ new = [f \in CountFields |-> new[f]] /\ new.asked = ev.asked + 1
        /\ \A f \in CountFields : f # "asked" => new[f] = ev[f]
    BY <1>10, <2>1, OneMoreAsked
  <2>3. QED
    BY <1>10, <2>2 DEF CountFields
<1>12. counted' = [counted EXCEPT ![o] = new] /\ UNCHANGED <<now, placed, failures, guardTable>>
  BY <1>4, <1>6 DEF Count
<1>13. QED
  BY <1>1, <1>2, <1>3, <1>11, <1>12

LEMMA BurstStep ==
  ASSUME BurstInv, NEW orders \in SUBSET Orders, NEW kinds, NEW last,
         VelocityNext(orders, kinds, last)
  PROVE  BurstInv'
<1>1. CASE Tick(last)
  <2>1. now' = now + 1 /\ UNCHANGED <<placed, counted>>
    BY <1>1 DEF Tick
  <2>2. PlacedOrders' = PlacedOrders
    BY <2>1 DEF PlacedOrders
  <2>3. \A p \in PlacedOrders : placed[p].at \in Nat /\ placed[p].at <= now
    <3>1. \A p \in PlacedOrders : placed[p] \in Rows
      BY DEF BurstInv, PlacedOrders
    <3>2. \A row \in Rows : row.at \in Nat
      BY DEF Rows
    <3>3. QED
      BY <3>1, <3>2 DEF BurstInv
  <2>4. now' \in Nat /\ \A p \in PlacedOrders' : placed'[p].at <= now' /\ now' # placed'[p].at
    BY <2>1, <2>2, <2>3 DEF BurstInv
  <2>5. QED
    BY <2>1, <2>2, <2>4 DEF BurstInv
<1>2. CASE UNCHANGED <<now, placed, counted>>
  <2>1. PlacedOrders' = PlacedOrders
    BY <1>2 DEF PlacedOrders
  <2>2. \A p \in PlacedOrders : Caught(p, counted[p])' <=> Caught(p, counted[p])
    BY <1>2 DEF Caught, Burst, Client, RowOf
  <2>3. QED
    BY <1>2, <2>1, <2>2 DEF BurstInv
<1>3. CASE InstallGuard \/ \E ip \in FailingHosts, kind \in kinds : FailPayment(ip, kind)
  BY <1>2, <1>3 DEF InstallGuard, FailPayment
<1>4. ASSUME NEW o \in orders, Place(o) PROVE BurstInv'
  BY <1>4, PlaceKeepsBursts
<1>5. ASSUME NEW o, CountFailed(o) PROVE BurstInv'
  <2>1. o \in PlacedOrders /\ UNCHANGED <<now, placed>>
    BY <1>5, CountFailedIs
  <2>2. PICK new :
          /\ counted' = [counted EXCEPT ![o] = new]
          /\ new = [f \in CountFields |-> new[f]] /\ new.asked = 5
    BY <1>5, CountFailedIs
  <2>3. Caught(o, new)
    BY <2>2 DEF Caught
  <2>4. QED
    BY <2>1, <2>2, <2>3, CountKeepsBursts, CountFieldsAre
<1>6. QED
  BY <1>1, <1>3, <1>4, <1>5, CountHourKeeps, CountDayKeeps, CountEmailKeeps, CountIdentitiesKeeps
  DEF VelocityNext

LEMMA BurstsUnchanged ==
  ASSUME BurstInv, UNCHANGED velocityVars
  PROVE  BurstInv'
<1>1. UNCHANGED <<now, placed, counted>> /\ PlacedOrders' = PlacedOrders
  BY DEF velocityVars, PlacedOrders
<1>2. \A p \in PlacedOrders : Caught(p, counted[p])' <=> Caught(p, counted[p])
  BY <1>1 DEF Caught, Burst, Client, RowOf
<1>3. QED
  BY <1>1, <1>2 DEF BurstInv

\* A rule of the counts that applies is among the signals.
LEMMA RaisedWhen ==
  ASSUME NEW cfg, NEW ev, NEW key \in DOMAIN VelocitySignals(cfg, ev), VelocitySignals(cfg, ev)[key]
  PROVE  key \in Signals(cfg, ev)
BY DEF Signals

LEMMA EvidenceIs ==
  ASSUME NEW o
  PROVE  /\ Evidence(o).hour = counted[o].hour /\ Evidence(o).day = counted[o].day
         /\ Evidence(o).identities = counted[o].identities
BY DEF Evidence, Unsuspicious

LEMMA BurstIsSeen ==
  ASSUME BurstInv, NEW o \in PlacedOrders, Finishing(o), now = placed[o].at
  PROVE  ScoredAs(o, Burst(o, Hour), Burst(o, Day))
<1>1. counted[o].asked = 4
  <2>1. Len(Queries) = 5 /\ counted[o].asked \in 0..5
    BY DEF Queries, BurstInv
  <2>2. QED
    BY <2>1 DEF Finishing
<1>2. Caught(o, counted[o])
  BY DEF BurstInv
<1>3. PICK hour, day, some :
        hour = Burst(o, Hour) /\ day = Burst(o, Day) /\ some = {placed[i].email : i \in Burst(o, Day)}
  OBVIOUS
<1>4. /\ AtLeast(counted[o].hour, hour) /\ AtLeast(counted[o].day, day)
      /\ AtLeast(counted[o].identities, some)
  BY <1>1, <1>2, <1>3 DEF Caught
<1>5. hour \subseteq FromHost(o, Hour) /\ day \subseteq FromHost(o, Day)
      /\ IsFiniteSet(FromHost(o, Hour)) /\ IsFiniteSet(FromHost(o, Day))
  BY <1>3, BurstIsWithin
<1>6. /\ Cardinality(hour) \in Nat /\ Cardinality(day) \in Nat
  BY <1>5, FS_Subset, FS_CardinalityType
<1>7. IsFiniteSet(day)
  BY <1>5, FS_Subset
<1>8. Cardinality(some) \in Nat
  <2> DEFINE EmailAt == [i \in day |-> placed[i].email]
  <2>1. EmailAt \in Surjection(day, some)
    BY <1>3 DEF Surjection
  <2>2. QED
    BY <1>7, <2>1, FS_Surjection, FS_CardinalityType
<1>9. Cardinality(hour) >= Limits.maxOrdersPerIpPerHour => "ip_velocity_hour" \in Signals(Limits, Evidence(o))
  <2>1. ASSUME Cardinality(hour) >= Limits.maxOrdersPerIpPerHour
        PROVE  Evidence(o).hour >= Limits.maxOrdersPerIpPerHour
    BY <1>4, <1>6, <2>1, EvidenceIs, VelocityAssumption DEF AtLeast
  <2>2. ASSUME Evidence(o).hour >= Limits.maxOrdersPerIpPerHour
        PROVE  /\ "ip_velocity_hour" \in DOMAIN VelocitySignals(Limits, Evidence(o))
               /\ VelocitySignals(Limits, Evidence(o))["ip_velocity_hour"]
    BY <2>2 DEF VelocitySignals
  <2>3. QED
    BY <2>1, <2>2, RaisedWhen
<1>10. Cardinality(day) >= Limits.maxOrdersPerIpPerDay => "ip_velocity_day" \in Signals(Limits, Evidence(o))
  <2>1. ASSUME Cardinality(day) >= Limits.maxOrdersPerIpPerDay
        PROVE  Evidence(o).day >= Limits.maxOrdersPerIpPerDay
    BY <1>4, <1>6, <2>1, EvidenceIs, VelocityAssumption DEF AtLeast
  <2>2. ASSUME Evidence(o).day >= Limits.maxOrdersPerIpPerDay
        PROVE  /\ "ip_velocity_day" \in DOMAIN VelocitySignals(Limits, Evidence(o))
               /\ VelocitySignals(Limits, Evidence(o))["ip_velocity_day"]
    BY <2>2 DEF VelocitySignals
  <2>3. QED
    BY <2>1, <2>2, RaisedWhen
<1>11. Cardinality(some) >= 3 => "identity_fanout" \in Signals(Limits, Evidence(o))
  <2>1. ASSUME Cardinality(some) >= 3
        PROVE  Evidence(o).identities >= 3
    BY <1>4, <1>8, <2>1, EvidenceIs DEF AtLeast
  <2>2. ASSUME Evidence(o).identities >= 3
        PROVE  /\ "identity_fanout" \in DOMAIN VelocitySignals(Limits, Evidence(o))
               /\ VelocitySignals(Limits, Evidence(o))["identity_fanout"]
    BY <2>2 DEF VelocitySignals
  <2>3. QED
    BY <2>1, <2>2, RaisedWhen
<1>12. QED
  BY <1>3, <1>9, <1>10, <1>11 DEF ScoredAs

(* The order that passes a limit is caught, whoever is assessed at the     *)
(* same time: each counts all that came before it, with itself, of those   *)
(* whose row holds the address in its plain form                           *)
(* (fraud-prevention.service.ts:748-800).                                  *)
THEOREM BurstsAreCaught == Spec => BurstCaught
<1> DEFINE Seen ==
      \A o \in PlacedOrders : Finishing(o) /\ now = placed[o].at =>
          ScoredAs(o, Burst(o, Hour), Burst(o, Day))
<1>1. BurstInv => Seen
  BY BurstIsSeen
<1>2. BurstInv /\ [Next]_vars => BurstInv'
  <2> SUFFICES ASSUME BurstInv, [Next]_vars PROVE BurstInv'
    OBVIOUS
  <2>1. FewOrders \in SUBSET Orders /\ Orders \in SUBSET Orders
    BY AssessmentAssumption
  <2>2. CASE UNCHANGED velocityVars
    BY <2>2, BurstsUnchanged
  <2>3. ASSUME NEW last, NEW orders \in {Orders, FewOrders}, NEW kinds \in {{}, {"payment", "guard"}},
               VelocityNext(orders, kinds, last)
        PROVE  BurstInv'
    BY <2>1, <2>3, BurstStep
  <2>4. QED
    BY <2>2, <2>3, CountsOrNothing
<1> HIDE DEF Seen
<1>3. BurstInv => [Seen]_velocityVars
  BY <1>1
<1>4. QED
  BY <1>2, <1>3, InitBurstInv, PTL DEF Spec, BurstCaught, Seen

-----------------------------------------------------------------------------
(* The failed payments.                                                    *)

LEMMA InitFailureInv == Init => FailureInv
<1> SUFFICES ASSUME Init PROVE FailureInv
  OBVIOUS
<1>1. VelocityInit
  BY DEF Init
<1>2. QED
  BY <1>1, FS_EmptySet DEF VelocityInit, FailureInv, Never

\* What is remembered after the last query is as good as asked.
LEMMA CountFailedKeeps ==
  ASSUME FailureInv, NEW o, CountFailed(o)
  PROVE  FailureInv' /\ UNCHANGED <<now, failures, guardTable>>
<1>1. UNCHANGED <<now, failures, guardTable>>
  BY DEF CountFailed, Count
<1>2. PICK probed \in BOOLEAN :
        /\ guardMemo' = IF Remembered THEN guardMemo
                        ELSE [exists |-> probed /\ guardTable # Never, checkedAt |-> now]
        /\ probeFailed' = IF Remembered \/ probed THEN probeFailed ELSE now
  BY DEF CountFailed
<1>3. now \in Nat /\ guardTable \in Nat \cup {Never} /\ probeFailed \in Nat \cup {Never}
  BY DEF FailureInv
<1>4. CASE Remembered
  <2>1. UNCHANGED <<guardMemo, probeFailed>>
    BY <1>2, <1>4
  <2>2. QED
    BY <1>1, <2>1 DEF FailureInv
<1>5. CASE ~Remembered
  <2>1. PICK exists \in BOOLEAN : /\ guardMemo' = [exists |-> exists, checkedAt |-> now]
                                  /\ ~exists => ~probed \/ guardTable = Never
    BY <1>2, <1>5
  <2>2. probeFailed' = IF probed THEN probeFailed ELSE now
    BY <1>2, <1>5
  <2>3. /\ guardMemo' \in [exists : BOOLEAN, checkedAt : Nat \cup {Never}]
        /\ guardMemo'.checkedAt = now /\ (~guardMemo'.exists => ~probed \/ guardTable = Never)
    BY <1>3, <2>1
  <2>4. probeFailed' \in Nat \cup {Never} /\ (~probed => probeFailed' >= now)
    BY <1>3, <2>2
  <2>5. QED
    BY <1>1, <1>3, <2>3, <2>4 DEF FailureInv
<1>6. QED
  BY <1>1, <1>4, <1>5

LEMMA FailureStep ==
  ASSUME FailureInv, NEW orders, NEW kinds \in {{}, {"payment", "guard"}}, NEW last,
         VelocityNext(orders, kinds, last)
  PROVE  FailureInv'
<1>1. CASE UNCHANGED <<guardTable, failures, guardMemo, probeFailed>> /\ now' \in {now, now + 1}
  <2>1. now' \in Nat /\ guardMemo.checkedAt <= now'
    <3>1. guardMemo.checkedAt \in Int /\ now \in Nat /\ guardMemo.checkedAt <= now
      BY DEF FailureInv, Never
    <3>2. QED
      BY <1>1, <3>1
  <2>2. QED
    BY <1>1, <2>1 DEF FailureInv
<1>2. CASE Tick(last)
  BY <1>1, <1>2 DEF Tick
<1>3. CASE InstallGuard
  <2>1. guardTable' = now /\ UNCHANGED <<now, failures, guardMemo, probeFailed>>
    BY <1>3 DEF InstallGuard
  <2>2. now # Never
    BY DEF FailureInv, Never
  <2>3. QED
    BY <2>1, <2>2 DEF FailureInv
<1>4. ASSUME NEW ip \in FailingHosts, NEW kind \in kinds, FailPayment(ip, kind)
      PROVE  FailureInv'
  <2>1. PICK f : failures' = failures \cup {f} /\ f.kind = kind
    <3>1. PICK n \in 1..MaxFailures :
            failures' = failures \cup {[ip |-> ip, kind |-> kind, n |-> n, at |-> now]}
      BY <1>4 DEF FailPayment
    <3>2. [ip |-> ip, kind |-> kind, n |-> n, at |-> now].kind = kind
      OBVIOUS
    <3>3. QED
      BY <3>1, <3>2
  <2>2. kind \in {"payment", "guard"} /\ (kind = "guard" => guardTable # Never)
    BY <1>4 DEF FailPayment
  <2>3. IsFiniteSet(failures')
    BY <2>1, FS_AddElement DEF FailureInv
  <2>4. UNCHANGED <<now, guardTable, guardMemo, probeFailed>>
    BY <1>4 DEF FailPayment
  <2>5. QED
    BY <2>1, <2>2, <2>3, <2>4 DEF FailureInv
<1>5. ASSUME NEW o, \/ Place(o) \/ CountHour(o) \/ CountDay(o) \/ CountEmail(o) \/ CountIdentities(o)
      PROVE  FailureInv'
  BY <1>1, <1>5 DEF Place, CountHour, CountDay, CountEmail, CountIdentities, Count
<1>6. QED
  BY <1>2, <1>3, <1>4, <1>5, CountFailedKeeps DEF VelocityNext

\* What an assessment that ends has to count at least.
Recent(o) ==
    {f \in failures : /\ f.ip = Client(o)
                      /\ f.at > now - Hour
                      /\ f.kind = "guard" =>
                            /\ now - guardTable >= GuardMemory
                            /\ now - probeFailed' >= GuardMemory
                            /\ ~counted'[o].unheard}

\* The table is known to be there, if it has been for long and no question failed.
LEMMA TableIsKnown ==
  ASSUME FailureInv, NEW probed \in BOOLEAN,
         guardMemo' = IF Remembered THEN guardMemo
                      ELSE [exists |-> probed /\ guardTable # Never, checkedAt |-> now],
         probeFailed' = IF Remembered \/ probed THEN probeFailed ELSE now,
         guardTable # Never, now - guardTable >= GuardMemory, now - probeFailed' >= GuardMemory
  PROVE  guardMemo'.exists
<1>1. guardTable \in Nat /\ now \in Nat /\ probeFailed \in Nat \cup {Never}
  BY DEF FailureInv
<1>2. CASE Remembered
  <2>1. guardMemo' = guardMemo /\ probeFailed' = probeFailed
    BY <1>2
  <2>2. ASSUME ~guardMemo.exists
        PROVE  FALSE
    <3>1. /\ guardMemo.checkedAt # Never /\ now - guardMemo.checkedAt < GuardMemory
          /\ guardMemo.checkedAt \in Nat
      BY <1>2, <2>2 DEF Remembered, FailureInv
    <3>2. guardTable >= guardMemo.checkedAt \/ probeFailed >= guardMemo.checkedAt
      BY <2>2, <3>1 DEF FailureInv
    <3>3. now - probeFailed >= GuardMemory
      BY <2>1
    <3>4. QED
      BY <1>1, <3>1, <3>2, <3>3, VelocityAssumption DEF Never
  <2>3. QED
    BY <2>1, <2>2
<1>3. CASE ~Remembered
  <2>1. probed
    BY <1>1, <1>3, VelocityAssumption
  <2>2. QED
    BY <1>3, <2>1
<1>4. QED
  BY <1>2, <1>3

LEMMA RecentIsAsked ==
  ASSUME FailureInv, BurstInv, NEW o, CountFailed(o), counted'[o].asked # counted[o].asked
  PROVE  counted'[o].failed >= Cardinality(Recent(o))
<1>1. o \in Orders /\ UNCHANGED <<now, placed, failures, guardTable>>
  BY CountFailedIs
<1>2. PICK new, probed, heard :
        /\ counted' = [counted EXCEPT ![o] = new]
        /\ new.failed = Cardinality(Failed(o, KindsHeard(heard)))
        /\ new.unheard = ~heard /\ heard \in BOOLEAN /\ probed \in BOOLEAN
        /\ guardMemo' = IF Remembered THEN guardMemo
                        ELSE [exists |-> probed /\ guardTable # Never, checkedAt |-> now]
        /\ probeFailed' = IF Remembered \/ probed THEN probeFailed ELSE now
  BY CountFailedIs
<1>3. counted'[o] = new
  BY <1>1, <1>2 DEF BurstInv
<1>4. PICK kinds : kinds = KindsHeard(heard)
  OBVIOUS
<1>5. counted'[o].failed = Cardinality(Failed(o, kinds))
  BY <1>2, <1>3, <1>4
<1>6. ASSUME NEW f \in Recent(o)
      PROVE  f \in Failed(o, kinds)
  <2>1. f \in failures /\ f.ip = Client(o) /\ f.at > now - Hour
        /\ (f.kind = "guard" => /\ now - guardTable >= GuardMemory
                                /\ now - probeFailed' >= GuardMemory
                                /\ ~counted'[o].unheard)
    BY <1>6 DEF Recent
  <2>2. f.kind \in {"payment", "guard"} /\ (f.kind = "guard" => guardTable # Never)
    BY <2>1 DEF FailureInv
  <2>3. ASSUME f.kind = "guard"
        PROVE  guardMemo'.exists /\ heard
    <3>1. heard
      BY <1>2, <1>3, <2>1, <2>3
    <3>2. guardMemo'.exists
      BY <1>2, <2>1, <2>2, <2>3, TableIsKnown
    <3>3. QED
      BY <3>1, <3>2
  <2>4. f.kind \in kinds
    BY <1>4, <2>2, <2>3 DEF KindsHeard
  <2>5. QED
    BY <2>1, <2>4 DEF Failed
<1>7. Recent(o) \subseteq Failed(o, kinds) /\ Failed(o, kinds) \subseteq failures
  BY <1>6 DEF Failed
<1>8. IsFiniteSet(Failed(o, kinds))
  BY <1>7, FS_Subset DEF FailureInv
<1>9. Cardinality(Recent(o)) <= Cardinality(Failed(o, kinds)) /\ IsFiniteSet(Recent(o))
  BY <1>7, <1>8, FS_Subset
<1>10. Cardinality(Recent(o)) \in Nat /\ Cardinality(Failed(o, kinds)) \in Nat
  BY <1>8, <1>9, FS_CardinalityType
<1>11. QED
  BY <1>5, <1>9, <1>10

(* An assessment ends with the query of failures, and with no other.       *)
LEMMA OnlyFailedEnds ==
  ASSUME BurstInv, NEW orders \in SUBSET Orders, NEW kinds, NEW last,
         VelocityNext(orders, kinds, last), NEW o \in PlacedOrders, Finishing(o)
  PROVE  CountFailed(o) /\ counted'[o].asked # counted[o].asked
<1>1. o \in Orders /\ counted[o].asked = 4 /\ counted'[o].asked = 5
  <2>1. Len(Queries) = 5 /\ counted[o].asked \in 0..5 /\ o \in Orders
    BY DEF Queries, BurstInv
  <2>2. QED
    BY <2>1 DEF Finishing
<1>2. ASSUME NEW p \in orders,
             \/ CountHour(p) \/ CountDay(p) \/ CountEmail(p) \/ CountIdentities(p) \/ CountFailed(p)
      PROVE  p = o
  <2>1. PICK new : counted' = [counted EXCEPT ![p] = new]
    BY <1>2 DEF CountHour, CountDay, CountEmail, CountIdentities, CountFailed, Count
  <2>2. QED
    BY <1>1, <2>1 DEF BurstInv
<1>3. ~CountHour(o) /\ ~CountDay(o) /\ ~CountEmail(o) /\ ~CountIdentities(o)
  BY <1>1, AskingWhen DEF CountHour, CountDay, CountEmail, CountIdentities
<1>4. ~UNCHANGED counted
  BY <1>1
<1>5. QED
  BY <1>1, <1>2, <1>3, <1>4 DEF VelocityNext, Tick, InstallGuard, FailPayment, Place

(* No failure of the last hour is missed, wherever it was recorded, but    *)
(* for the guard's if its table is so new that its absence may still be    *)
(* remembered, if a question for the table failed so lately, or if their   *)
(* count failed (fraud-prevention.service.ts:1338-1370).                   *)
THEOREM FailuresAreCounted == Spec => FailuresCounted
<1> DEFINE Missed(o) == counted'[o].failed >= Cardinality(Recent(o))
           AllSeen == \A o \in PlacedOrders : Finishing(o) => Missed(o)
<1>1. ASSUME BurstInv, FailureInv, [Next]_vars
      PROVE  BurstInv' /\ FailureInv' /\ [AllSeen]_velocityVars
  <2>1. FewOrders \in SUBSET Orders /\ Orders \in SUBSET Orders
    BY AssessmentAssumption
  <2>2. CASE UNCHANGED velocityVars
    <3>1. FailureInv'
      BY <1>1, <2>2 DEF FailureInv, velocityVars
    <3>2. QED
      BY <1>1, <2>2, <3>1, BurstsUnchanged
  <2>3. ASSUME NEW last, NEW orders \in {Orders, FewOrders}, NEW kinds \in {{}, {"payment", "guard"}},
               VelocityNext(orders, kinds, last)
        PROVE  BurstInv' /\ FailureInv' /\ AllSeen
    <3>1. BurstInv'
      BY <1>1, <2>1, <2>3, BurstStep
    <3>2. FailureInv'
      BY <1>1, <2>3, FailureStep
    <3>3. AllSeen
      BY <1>1, <2>1, <2>3, OnlyFailedEnds, RecentIsAsked
    <3>4. QED
      BY <3>1, <3>2, <3>3
  <2>4. QED
    BY <1>1, <2>2, <2>3, CountsOrNothing
<1>2. AllSeen <=> \A o \in PlacedOrders : Finishing(o) =>
          counted'[o].failed >= Cardinality(
              {f \in failures : /\ f.ip = Client(o)
                                /\ f.at > now - Hour
                                /\ f.kind = "guard" =>
                                      /\ now - guardTable >= GuardMemory
                                      /\ now - probeFailed' >= GuardMemory
                                      /\ ~counted'[o].unheard})
  BY DEF Recent
<1> HIDE DEF AllSeen
<1>3. QED
  BY <1>1, <1>2, InitBurstInv, InitFailureInv, PTL DEF Spec, FailuresCounted

=============================================================================
