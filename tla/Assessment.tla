----------------------------- MODULE Assessment -----------------------------
(***************************************************************************)
(* The assessment of an order, put together from what it reads: the lists, *)
(* the counts, the answers of the network and the card checks, which feed  *)
(* one score.  The parts change apart from each other; a behaviour tells   *)
(* one story, about one of them, chosen at the start.                      *)
(***************************************************************************)
EXTENDS IdentityLists, Velocity, IpIntel

CONSTANTS Stories,     \* the stories told
          Payments,    \* what the payments of an order may be
          Resolvers,   \* what the host's resolver may say
          Channel,     \* the order's channel
          Configs,     \* configurations of a channel
          BurstTicks, FailureTicks, \* bounds: the clock while orders come, or failures
          FewOrders,   \* those placed while payments fail
          Typed, TypedIps, \* addresses that administrators list
          Crowd,       \* ranges that are listed after a first one
          MaxDoubts    \* bound: things that speak against an order

ASSUME AssessmentAssumption ==
    /\ MaxDoubts \in Nat /\ Typed \subseteq Emails /\ Crowd \subseteq Ranges
    /\ FewOrders \subseteq Orders

(* The code looks in a fixed number of places of a metadata blob.          *)
IsSequence(s) == s \in Seq(ToSet(s))

ASSUME PaymentsAssumption ==
    \A payments \in Payments :
        /\ IsSequence(payments)
        /\ \A p \in ToSet(payments) :
              /\ IsSequence(p.metadata.avs) /\ p.metadata.avs # <<>>
              /\ IsSequence(p.metadata.authenticated) /\ IsSequence(p.metadata.result)

VARIABLES story,
          known,   \* the configuration, what is known of the order, what was learned
          card     \* its payments, the resolver's word, and what came of them

vars == <<story, listVars, velocityVars, intelVars, known, card>>

NoCard == [payments |-> <<>>, resolver |-> Nothing, lookup |-> FALSE,
           resolved |-> FALSE, checks |-> Nothing]

Init ==
    /\ story \in Stories
    /\ ListsInit /\ VelocityInit /\ IntelInit
    /\ known \in [cfg : Configs, ev : {Unsuspicious}, doubts : {0}]
    /\ story # "scoring" => known.cfg = DefaultConfig
    /\ \/ story # "cards" /\ card = NoCard
       \/ /\ story = "cards"
          /\ card \in [payments : Payments, resolver : Resolvers, lookup : BOOLEAN,
                       resolved : {FALSE}, checks : {Nothing}]

-----------------------------------------------------------------------------
ResolveChecks ==
    /\ ~card.resolved
    /\ card' = [card EXCEPT
          !.resolved = TRUE,
          !.checks = ResolveAvsForOrder(card.payments, card.resolver, card.lookup, Channel)]

\* One more thing that speaks against the order.
Worse(ev) ==
    {[ev EXCEPT !.emailRows = @ + 1], [ev EXCEPT !.domainRows = @ + 1],
     [ev EXCEPT !.disposable = TRUE], [ev EXCEPT !.plus = TRUE], [ev EXCEPT !.gibberish = TRUE],
     [ev EXCEPT !.hour = @ + 3, !.day = @ + 3], [ev EXCEPT !.day = @ + 20],
     [ev EXCEPT !.emailOrders = @ + 9], [ev EXCEPT !.emailValue = @ + 99],
     [ev EXCEPT !.identities = @ + 2], [ev EXCEPT !.failed = @ + 3],
     [ev EXCEPT !.vpn = TRUE], [ev EXCEPT !.hosting = TRUE], [ev EXCEPT !.elsewhere = TRUE],
     [ev EXCEPT !.countriesDiffer = TRUE], [ev EXCEPT !.postcodesDiffer = TRUE],
     [ev EXCEPT !.value = @ + 10], [ev EXCEPT !.value = @ + 50], [ev EXCEPT !.highRisk = TRUE]}
    \cup {[ev EXCEPT !.ipListed = i] : i \in IF ev.ipListed = "no" THEN {"exact", "range"} ELSE {}}
    \cup {[ev EXCEPT !.mx = "no"] : m \in {ev.mx} \cap {"yes"}}
    \cup {[ev EXCEPT !.checks.postalCode = "fail"], [ev EXCEPT !.checks.line1 = "fail"],
          [ev EXCEPT !.checks.authenticated = "false"]}
    \cup {[ev EXCEPT !.checks.riskLevel = level] :
             level \in IF ev.checks.riskLevel = "highest" THEN {} ELSE {"elevated", "highest"}}

Doubt ==
    /\ known.doubts < MaxDoubts
    /\ \E worse \in Worse(known.ev) :
          known' = [known EXCEPT !.ev = worse, !.doubts = @ + 1]

ListsStory(emails, clients, cidrs) ==
    ListsNext(emails, clients, cidrs) /\ UNCHANGED <<velocityVars, intelVars, known, card>>

CountsStory(orders, kinds, last) ==
    VelocityNext(orders, kinds, last) /\ UNCHANGED <<listVars, intelVars, known, card>>

NetworkStory(subjects) ==
    IntelNext(subjects) /\ UNCHANGED <<listVars, velocityVars, known, card>>

Next ==
    /\ \/ story = "lists" /\ ListsStory(Typed, {}, {})
       \/ story = "ranges" /\ rows = {} /\ ListsStory({}, TypedIps, Ranges)
       \/ story = "ranges" /\ Cardinality(rows) \in 1..RangeLimit /\ ListsStory({}, {}, Crowd)
       \/ story = "bursts" /\ CountsStory(Orders, {}, BurstTicks)
       \/ story = "failures" /\ CountsStory(FewOrders, {"payment", "guard"}, FailureTicks)
       \/ story = "addresses" /\ NetworkStory(Ips)
       \/ story = "domains" /\ NetworkStory(Domains)
       \/ story = "scoring" /\ Doubt /\ UNCHANGED <<listVars, velocityVars, intelVars, card>>
       \/ story = "cards" /\ ResolveChecks /\ UNCHANGED <<listVars, velocityVars, intelVars, known>>
    /\ UNCHANGED story

(* Timers fire and statements return; nothing obliges servers to answer.   *)
Fairness ==
    \A a \in Askers : WF_vars(Answers(a) /\ UNCHANGED <<story, listVars, velocityVars, known, card>>)

Spec == Init /\ [][Next]_vars /\ Fairness

-----------------------------------------------------------------------------
\* What the lists say of an order of this identity, with so many orders settled before.
ListEvidence(hits, ranges, e, ip, settled) ==
    [Unsuspicious EXCEPT !.emailRows = Cardinality(hits \cap EmailRows(e)),
                         !.domainRows = Cardinality(hits \cap DomainRows(e)),
                         !.ipListed = IpListed(ip, ranges),
                         !.plus = e.tag # 0,
                         !.settled = settled]

(* "Silently blocklist a case's identity ... so future attempts stop at    *)
(* the door" (fraud-prevention.service.ts:1848): when the request has come *)
(* to its end, whichever statements failed and whoever else was listing    *)
(* the same, an order from that mailbox, under any alias, or from that     *)
(* network address is at least up for review; unless an administrator      *)
(* removed a row since the request began, the identity is on the allow     *)
(* list or three settled orders speak for it; and if the scoring's queries *)
(* of the lists do not fail, whichever of the rows they answer.            *)
StoppedAtTheDoor ==
    \A r \in Rejections : rejection[r].at = "done" /\ ~rejection[r].undone =>
        \A e \in Emails, ip \in Clients, settled \in 0..2 :
            Inbox(e) = Inbox(EmailOf[r]) \/ NormaliseIp(ip) = NormaliseIp(ClientOf[r])
            => \A hits \in Hits(e), allowed \in Fetched("whitelist", ip), ranges \in Fetched("blocklist", ip) :
                  \/ Allowlisted(e, ip, allowed)
                  \/ Level(DefaultConfig, ListEvidence(hits, ranges, e, ip, settled)) \in {"review", "blocked"}

\* A row for a disposable domain takes the place of the heavier built-in rule.
Displaces == known.ev.disposable /\ known.ev.domainRows = 0 /\ known'.ev.domainRows > 0

(* Rules exclude one another (warm and hot, exact and range, country and   *)
(* postcode, elevated and highest), but whatever else is known, one more   *)
(* thing against an order never lowers its score, with the default weights *)
(* and any limits; but for a disposable domain that gets a list row.       *)
WorseNeverHelps ==
    [][~Displaces => Score(known.cfg, known'.ev) >= Score(known.cfg, known.ev)]_known

-----------------------------------------------------------------------------
\* The payments to be asked: those that stand, if any does.
Asked ==
    {p \in ToSet(card.payments) :
        (\E q \in ToSet(card.payments) : Live(q)) => Live(p)}

\* The places where a source tells of postcode and street together.
Places(p) ==
    ToSet(p.metadata.avs) \cup {<<p.charge.postalCode, p.charge.line1>>}

(* "Only an explicit FAIL scores; unavailable/unchecked is silent"         *)
(* (fraud-prevention.service.ts:858).  The verdicts on postcode and street *)
(* are what the resolver says, or what one place says in one payment that  *)
(* stands, if any does; never what is told of a declined attempt next to   *)
(* the settled payment, and never put together from two places.  3-D       *)
(* Secure counts as failed only if one of those payments, or the resolver, *)
(* says that it ran and failed, and the outcome it tells, if any, is not   *)
(* that the attempt was acknowledged, exempted or not possible: such a     *)
(* word counts unless it stands behind another one.                        *)
ChecksWereTold ==
    card.resolved =>
        /\ \/ card.checks \in {Nothing, card.resolver}
           \/ \E p \in Asked : \E place \in Places(p) :
                 /\ card.checks.postalCode = ParseAvsCheck(place[1])
                 /\ card.checks.line1 = ParseAvsCheck(place[2])
        /\ CardSignals(TRUE, card.checks).three_ds_failed =>
              \/ card.resolver.authenticated = "false" /\ card.resolver.result \notin Benign
              \/ \E p \in Asked :
                    \/ /\ \E i \in DOMAIN p.metadata.authenticated :
                             ParseThreeDs(p.metadata.authenticated[i]) = "false"
                       /\ \A i \in DOMAIN p.metadata.result : p.metadata.result[i] \in Benign =>
                             \E j \in 1..(i - 1) : p.metadata.result[j] \notin Benign \cup {Absent}
                    \/ ParseThreeDs(p.charge.authenticated) = "false" /\ p.charge.result \notin Benign

=============================================================================
