------------------------------ MODULE IpIntel ------------------------------
(***************************************************************************)
(* The two questions an assessment asks of the network: what ip-api knows  *)
(* of an address, from the table of answers, a memory of failures and a    *)
(* bucket of tokens on the way, and whether a domain has mail servers.     *)
(* Both are asked by several assessments at a time; a tick is the time in  *)
(* which the bucket gains a token.                                         *)
(***************************************************************************)
EXTENDS Integers, SequencesExt, FiniteSetsExt

CONSTANTS Askers,      \* assessments under way
          Ips, Domains,
          Capacity,    \* tokens of a full bucket (40)
          NegativeTtl, \* how long a failure is remembered (15 minutes)
          IntelTtl,    \* how long an answer is (30 days)
          MxTtl,       \* how long a domain's is (24 hours)
          MxCapacity,  \* domains remembered (10 000)
          LastMoment   \* bound: the clock

ASSUME IntelAssumption ==
    /\ Capacity \in Nat \ {0} /\ MxCapacity \in Nat \ {0}
    /\ IntelTtl \in Nat \ {0} /\ MxTtl \in Nat \ {0}
    /\ NegativeTtl \in Nat /\ LastMoment \in Nat

VARIABLES clock,     \* the time
          bucket,    \* tokens, and when they were last filled up
          negative,  \* negativeCache: when the lookup of an address failed
          intelRows, \* fraud_ip_intel
          mxCache,   \* mxCache, oldest key first
          ask,       \* what each assessment is asking, and its answer
          sent,      \* when requests went to ip-api
          told       \* what ip-api and the name servers said, and when

intelVars == <<clock, bucket, negative, intelRows, mxCache, ask, sent, told>>

Unknown == "unknown"
LongAgo == -100

Quiet == [at |-> "idle", subject |-> Unknown, answer |-> Unknown]

IntelInit ==
    /\ clock = 0
    /\ bucket = [tokens |-> Capacity, lastRefill |-> 0]
    /\ negative = [ip \in Ips |-> LongAgo]
    /\ intelRows = {}
    /\ mxCache = <<>>
    /\ ask = [a \in Askers |-> Quiet]
    /\ sent = <<>>
    /\ told = {}

-----------------------------------------------------------------------------
\* A statement takes less than a tick.
TimePasses ==
    /\ clock < LastMoment
    /\ \A a \in Askers : ask[a].at # "storing"
    /\ clock' = clock + 1
    /\ UNCHANGED <<bucket, negative, intelRows, mxCache, ask, sent, told>>

Move(a, place) == ask' = [ask EXCEPT ![a].at = place]

Reply(a, answer) == ask' = [ask EXCEPT ![a].at = "answered", ![a].answer = answer]

\* Of what was told twice the last time counts.
Tell(subject, answer) ==
    told' = {t \in told : t.subject # subject \/ t.answer # answer}
               \cup {[subject |-> subject, answer |-> answer, at |-> clock]}

StartLookup(a, subject) ==
    /\ ask[a].at \in {"idle", "answered"}
    /\ ask' = [ask EXCEPT ![a] = [Quiet EXCEPT
                   !.at = IF subject \in Ips THEN "selecting" ELSE "remembering",
                   !.subject = subject]]
    /\ UNCHANGED <<clock, bucket, negative, intelRows, mxCache, sent, told>>

FreshRows(ip) == {row \in intelRows : row.ip = ip /\ row.checkedAt > clock - IntelTtl}

(* The table first.  A query that fails counts as no row.                  *)
SelectIntel(a) ==
    /\ ask[a].at = "selecting"
    /\ \/ \E row \in FreshRows(ask[a].subject) : Reply(a, row.answer)
       \/ Move(a, "asking")
    /\ UNCHANGED <<clock, bucket, negative, intelRows, mxCache, sent, told>>

\* Mutant: the time of the last refill stays.
RefilledTwice ==
    [tokens     |-> LET full == bucket.tokens + (clock - bucket.lastRefill)
                    IN IF full > Capacity THEN Capacity ELSE full,
     lastRefill |-> bucket.lastRefill]

Refilled ==
    [tokens     |-> LET full == bucket.tokens + (clock - bucket.lastRefill)
                    IN IF full > Capacity THEN Capacity ELSE full,
     lastRefill |-> clock]

(* A failure not long ago answers for itself; without a token there is no  *)
(* answer; otherwise the request goes out.                                 *)
Send(a) ==
    /\ ask[a].at = "asking"
    /\ \/ /\ clock - negative[ask[a].subject] < NegativeTtl
          /\ Reply(a, Unknown)
          /\ UNCHANGED <<bucket, sent>>
       \/ /\ clock - negative[ask[a].subject] >= NegativeTtl
          /\ Refilled.tokens < 1
          /\ bucket' = Refilled
          /\ Reply(a, Unknown)
          /\ UNCHANGED sent
       \/ /\ clock - negative[ask[a].subject] >= NegativeTtl
          /\ Refilled.tokens >= 1
          /\ bucket' = [Refilled EXCEPT !.tokens = @ - 1]
          /\ Move(a, "waiting")
          /\ sent' = Append(sent, clock)
    /\ UNCHANGED <<clock, negative, intelRows, mxCache, told>>

(* It answers, with a verdict or that it has none, or with something that  *)
(* is no answer, which alone is not remembered as a failure.               *)
Respond(a) ==
    /\ ask[a].at = "waiting"
    /\ \/ \E verdict \in {"home", "proxy"} :
             /\ Tell(ask[a].subject, verdict)
             /\ ask' = [ask EXCEPT ![a].at = "storing", ![a].answer = verdict]
             /\ UNCHANGED negative
       \/ /\ negative' = [negative EXCEPT ![ask[a].subject] = clock]
          /\ Reply(a, Unknown)
          /\ UNCHANGED told
       \/ /\ Reply(a, Unknown)
          /\ UNCHANGED <<negative, told>>
    /\ UNCHANGED <<clock, bucket, intelRows, mxCache, sent>>

\* Mutant: the handler of "timeout" ends the request and not the promise.
GiveUpSilently(a) ==
    /\ ask[a].at = "waiting"
    /\ negative' = [negative EXCEPT ![ask[a].subject] = clock]
    /\ UNCHANGED <<clock, bucket, intelRows, mxCache, ask, sent, told>>

(* The request fails or nothing comes for a while.                         *)
GiveUp(a) ==
    /\ ask[a].at = "waiting"
    /\ negative' = [negative EXCEPT ![ask[a].subject] = clock]
    /\ Reply(a, Unknown)
    /\ UNCHANGED <<clock, bucket, intelRows, mxCache, sent, told>>

(* The response ends in the middle of its body: neither "end" nor an error *)
(* of the request, and the promise stays open.                             *)
CutOff(a) ==
    /\ ask[a].at = "waiting"
    /\ Move(a, "hung")
    /\ UNCHANGED <<clock, bucket, negative, intelRows, mxCache, sent, told>>

(* INSERT ... ON DUPLICATE KEY UPDATE; that it fails does not matter.      *)
StoreIntel(a) ==
    /\ ask[a].at = "storing"
    /\ \/ intelRows' = {row \in intelRows : row.ip # ask[a].subject}
                          \cup {[ip |-> ask[a].subject, answer |-> ask[a].answer,
                                 checkedAt |-> clock]}
       \/ UNCHANGED intelRows
    /\ Reply(a, ask[a].answer)
    /\ UNCHANGED <<clock, bucket, negative, mxCache, sent, told>>

-----------------------------------------------------------------------------
(* domainHasMx.                                                            *)

Recalled(domain) ==
    {i \in DOMAIN mxCache : mxCache[i].domain = domain /\ clock - mxCache[i].at < MxTtl}

\* mxCache.set: a known domain keeps its place.
Remembering(domain, answer) ==
    LET entry == [domain |-> domain, answer |-> answer, at |-> clock] IN
    IF \E i \in DOMAIN mxCache : mxCache[i].domain = domain
    THEN [i \in DOMAIN mxCache |-> IF mxCache[i].domain = domain THEN entry ELSE mxCache[i]]
    ELSE Append(mxCache, entry)

RecallMx(a) ==
    /\ ask[a].at = "remembering"
    /\ \/ \E i \in Recalled(ask[a].subject) : Reply(a, mxCache[i].answer)
       \/ Recalled(ask[a].subject) = {} /\ Move(a, "resolving")
    /\ UNCHANGED <<clock, bucket, negative, intelRows, mxCache, sent, told>>

\* Mutant: whatever goes wrong, the domain has no servers.
MxFailsAsNone(a) ==
    /\ ask[a].at = "resolving"
    /\ Reply(a, "no")
    /\ UNCHANGED <<clock, bucket, negative, intelRows, mxCache, sent, told>>

(* A timeout or a failing server: nothing is known.                        *)
MxFails(a) ==
    /\ ask[a].at = "resolving"
    /\ Reply(a, Unknown)
    /\ UNCHANGED <<clock, bucket, negative, intelRows, mxCache, sent, told>>

(* Servers, or an empty list of them, for which the domain remembered      *)
(* first gives way when the memory is too full.                            *)
ResolveMx(a) ==
    /\ ask[a].at = "resolving"
    /\ \E answer \in {"yes", "no"} :
          /\ Tell(ask[a].subject, answer)
          /\ Reply(a, answer)
          /\ LET remembered == Remembering(ask[a].subject, answer)
             IN mxCache' = IF Len(remembered) > MxCapacity THEN Tail(remembered) ELSE remembered
    /\ UNCHANGED <<clock, bucket, negative, intelRows, sent>>

(* "No such domain", for which nothing gives way.                          *)
NoSuchDomain(a) ==
    /\ ask[a].at = "resolving"
    /\ Tell(ask[a].subject, "no")
    /\ Reply(a, "no")
    /\ mxCache' = Remembering(ask[a].subject, "no")
    /\ UNCHANGED <<clock, bucket, negative, intelRows, sent>>

\* What the code's own timers and its database bring about.
Answers(a) ==
    SelectIntel(a) \/ Send(a) \/ GiveUp(a) \/ StoreIntel(a) \/ RecallMx(a) \/ MxFails(a)

IntelNext(subjects) ==
    \/ TimePasses
    \/ \E a \in Askers, subject \in subjects : StartLookup(a, subject)
    \/ \E a \in Askers :
          \/ SelectIntel(a) \/ Send(a) \/ GiveUp(a) \/ StoreIntel(a) \/ RecallMx(a) \/ MxFails(a)
          \/ Respond(a) \/ CutOff(a) \/ ResolveMx(a) \/ NoSuchDomain(a)

-----------------------------------------------------------------------------
(* The bucket keeps its promise however lookups, refusals and refills mix: *)
(* of any stretch of time no more requests than a full bucket and what it  *)
(* gained meanwhile.  (In a minute that is two buckets, 80 requests, not   *)
(* the 45 of the comment at ip-intel.ts:42.)                               *)
RateBounded ==
    \A i, j \in DOMAIN sent : i <= j => j - i + 1 <= Capacity + (sent[j] - sent[i])

(* Points are given for what ip-api has said of this very address, within  *)
(* 30 days, and for a domain without mail servers if a name server has     *)
(* said so within 24 hours: failures, limits and timeouts "never add       *)
(* points" (ip-intel.ts:20).                                               *)
OnlyWhatWasTold ==
    [][\A a \in Askers : ask'[a].at = "answered" /\ ask'[a] # ask[a] /\ ask'[a].answer # Unknown =>
          \E t \in told' :
              /\ t.subject = ask'[a].subject /\ t.answer = ask'[a].answer
              /\ clock - t.at < (IF t.subject \in Ips THEN IntelTtl ELSE MxTtl)]_intelVars

(* Every lookup comes back, so that no assessment keeps its slot for good, *)
(* except for a response that is cut off in its body.                      *)
LookupsReturn ==
    \A a \in Askers : []<>(ask[a].at \in {"idle", "answered", "hung"})

=============================================================================
