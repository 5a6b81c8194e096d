--------------------------- MODULE ScoringProofs ----------------------------
(***************************************************************************)
(* Proofs about the score: the sum of the weights of the rules that raise  *)
(* a signal, for any configuration, limits and evidence; what a listed     *)
(* identity adds to it; and the card checks that feed it.                  *)
(***************************************************************************)
EXTENDS ListsProofs

(* What raises a signal, rule by rule.                                     *)
ByIdentity(cfg, ev, key) ==
    \/ key = "blocklist_email" /\ ev.emailRows > 0
    \/ key = "blocklist_email_domain" /\ ev.domainRows > 0
    \/ key = "blocklist_ip" /\ ev.ipListed = "exact"
    \/ key = "blocklist_ip_range" /\ ev.ipListed = "range"
    \/ /\ key = "disposable_email" /\ cfg.blockDisposableEmails /\ ev.disposable
       /\ ev.domainRows = 0 \/ Weight(cfg, "blocklist_email_domain") = 0
    \/ key = "plus_addressing" /\ ev.plus
    \/ key = "email_no_mx" /\ ev.mx = "no"
    \/ key = "gibberish_email" /\ ev.gibberish

ByVelocity(cfg, ev, key) ==
    \/ key = "ip_velocity_hour" /\ ev.hour >= cfg.maxOrdersPerIpPerHour
    \/ key = "ip_velocity_warm" /\ ev.hour \in Warm(cfg.maxOrdersPerIpPerHour)..(cfg.maxOrdersPerIpPerHour - 1)
    \/ key = "ip_velocity_day" /\ ev.day >= cfg.maxOrdersPerIpPerDay
    \/ key = "email_velocity_day" /\ ev.emailOrders >= cfg.maxOrdersPerEmailPerDay
    \/ key = "email_value_day" /\ ev.emailValue + ev.value > cfg.maxDailyValuePerEmail
    \/ key = "identity_fanout" /\ ev.identities >= 3
    \/ key = "failed_payments" /\ ev.failed >= cfg.maxFailedPaymentsPerIpPerHour

ByAddress(cfg, ev, key) ==
    \/ key = "vpn_proxy" /\ cfg.blockVpnProxy /\ ev.resolved /\ ev.vpn
    \/ key = "hosting_ip" /\ cfg.blockVpnProxy /\ ev.resolved /\ ev.hosting /\ ~ev.vpn
    \/ key = "geo_mismatch" /\ ev.resolved /\ ev.elsewhere
    \/ key = "high_risk_country" /\ cfg.blockHighRiskCountries /\ ev.highRisk

ByShipping(cfg, ev, key) ==
    \/ key = "country_mismatch" /\ ev.countriesDiffer
    \/ key = "postcode_mismatch" /\ ~ev.countriesDiffer /\ ev.postcodesDiffer

ByHistory(cfg, ev, key) ==
    \/ key = "returning_customer_3plus" /\ ev.settled >= 3
    \/ key = "returning_customer_2" /\ ev.settled \in {1, 2}
    \/ key = "new_customer_high_value" /\ ev.settled = 0 /\ ev.value > cfg.requireEmailVerificationAbove
    \/ key = "order_value" /\ ev.value > cfg.maxOrderValue

ByCard(cfg, ev, key) ==
    \/ key = "avs_postcode_fail" /\ ev.checks.postalCode = "fail"
    \/ key = "avs_address_fail" /\ ev.checks.line1 = "fail"
    \/ key = "radar_risk_highest" /\ ev.checks.riskLevel = "highest"
    \/ key = "radar_risk_elevated" /\ ev.checks.riskLevel = "elevated"
    \/ key = "three_ds_failed" /\ cfg.enforce3dSecure /\ ThreeDsFailed(ev.checks)

LEMMA IdentityRaised ==
  ASSUME NEW cfg, NEW ev, NEW key
  PROVE  key \in DOMAIN IdentitySignals(cfg, ev) /\ IdentitySignals(cfg, ev)[key] <=> ByIdentity(cfg, ev, key)
<1> DEFINE group == IdentitySignals(cfg, ev)
<1>1. DOMAIN group =
         {"blocklist_email", "blocklist_email_domain", "blocklist_ip",
          "blocklist_ip_range", "disposable_email", "plus_addressing",
          "email_no_mx", "gibberish_email"}
  BY DEF IdentitySignals
<1>2. group["blocklist_email"] <=> ev.emailRows > 0
  BY DEF IdentitySignals
<1>3. group["blocklist_email_domain"] <=> ev.domainRows > 0
  BY DEF IdentitySignals
<1>4. group["blocklist_ip"] <=> ev.ipListed = "exact"
  BY DEF IdentitySignals
<1>5. group["blocklist_ip_range"] <=> ev.ipListed = "range"
  BY DEF IdentitySignals
<1>6. group["disposable_email"] <=>
        /\ cfg.blockDisposableEmails
        /\ ev.disposable
        /\ ev.domainRows = 0 \/ Weight(cfg, "blocklist_email_domain") = 0
  BY DEF IdentitySignals
<1>7. group["plus_addressing"] <=> ev.plus
  BY DEF IdentitySignals
<1>8. group["email_no_mx"] <=> ev.mx = "no"
  BY DEF IdentitySignals
<1>9. group["gibberish_email"] <=> ev.gibberish
  BY DEF IdentitySignals
<1> HIDE DEF group
<1>10. key \in DOMAIN group /\ group[key] <=> ByIdentity(cfg, ev, key)
  BY <1>1, <1>2, <1>3, <1>4, <1>5, <1>6, <1>7, <1>8, <1>9 DEF ByIdentity
<1>11. QED
  BY <1>10 DEF group

LEMMA VelocityRaised ==
  ASSUME NEW cfg, NEW ev, NEW key
  PROVE  key \in DOMAIN VelocitySignals(cfg, ev) /\ VelocitySignals(cfg, ev)[key] <=> ByVelocity(cfg, ev, key)
<1> DEFINE group == VelocitySignals(cfg, ev)
<1>1. DOMAIN group =
         {"ip_velocity_hour", "ip_velocity_warm", "ip_velocity_day",
          "email_velocity_day", "email_value_day", "identity_fanout",
          "failed_payments"}
  BY DEF VelocitySignals
<1>2. group["ip_velocity_hour"] <=> ev.hour >= cfg.maxOrdersPerIpPerHour
  BY DEF VelocitySignals
<1>3. group["ip_velocity_warm"] <=> ev.hour \in Warm(cfg.maxOrdersPerIpPerHour)..(cfg.maxOrdersPerIpPerHour - 1)
  BY DEF VelocitySignals
<1>4. group["ip_velocity_day"] <=> ev.day >= cfg.maxOrdersPerIpPerDay
  BY DEF VelocitySignals
<1>5. group["email_velocity_day"] <=> ev.emailOrders >= cfg.maxOrdersPerEmailPerDay
  BY DEF VelocitySignals
<1>6. group["email_value_day"] <=> ev.emailValue + ev.value > cfg.maxDailyValuePerEmail
  BY DEF VelocitySignals
<1>7. group["identity_fanout"] <=> ev.identities >= 3
  BY DEF VelocitySignals
<1>8. group["failed_payments"] <=> ev.failed >= cfg.maxFailedPaymentsPerIpPerHour
  BY DEF VelocitySignals
<1> HIDE DEF group
<1>9. key \in DOMAIN group /\ group[key] <=> ByVelocity(cfg, ev, key)
  BY <1>1, <1>2, <1>3, <1>4, <1>5, <1>6, <1>7, <1>8 DEF ByVelocity
<1>10. QED
  BY <1>9 DEF group

LEMMA AddressRaised ==
  ASSUME NEW cfg, NEW ev, NEW key
  PROVE  key \in DOMAIN AddressSignals(cfg, ev) /\ AddressSignals(cfg, ev)[key] <=> ByAddress(cfg, ev, key)
<1> DEFINE group == AddressSignals(cfg, ev)
<1>1. DOMAIN group =
         {"vpn_proxy", "hosting_ip", "geo_mismatch", "high_risk_country"}
  BY DEF AddressSignals
<1>2. group["vpn_proxy"] <=> cfg.blockVpnProxy /\ ev.resolved /\ ev.vpn
  BY DEF AddressSignals
<1>3. group["hosting_ip"] <=> cfg.blockVpnProxy /\ ev.resolved /\ ev.hosting /\ ~ev.vpn
  BY DEF AddressSignals
<1>4. group["geo_mismatch"] <=> ev.resolved /\ ev.elsewhere
  BY DEF AddressSignals
<1>5. group["high_risk_country"] <=> cfg.blockHighRiskCountries /\ ev.highRisk
  BY DEF AddressSignals
<1> HIDE DEF group
<1>6. key \in DOMAIN group /\ group[key] <=> ByAddress(cfg, ev, key)
  BY <1>1, <1>2, <1>3, <1>4, <1>5 DEF ByAddress
<1>7. QED
  BY <1>6 DEF group

LEMMA ShippingRaised ==
  ASSUME NEW cfg, NEW ev, NEW key
  PROVE  key \in DOMAIN ShippingSignals(ev) /\ ShippingSignals(ev)[key] <=> ByShipping(cfg, ev, key)
<1> DEFINE group == ShippingSignals(ev)
<1>1. DOMAIN group =
         {"country_mismatch", "postcode_mismatch"}
  BY DEF ShippingSignals
<1>2. group["country_mismatch"] <=> ev.countriesDiffer
  BY DEF ShippingSignals
<1>3. group["postcode_mismatch"] <=> ~ev.countriesDiffer /\ ev.postcodesDiffer
  BY DEF ShippingSignals
<1> HIDE DEF group
<1>4. key \in DOMAIN group /\ group[key] <=> ByShipping(cfg, ev, key)
  BY <1>1, <1>2, <1>3 DEF ByShipping
<1>5. QED
  BY <1>4 DEF group

LEMMA HistoryRaised ==
  ASSUME NEW cfg, NEW ev, NEW key
  PROVE  key \in DOMAIN HistorySignals(cfg, ev) /\ HistorySignals(cfg, ev)[key] <=> ByHistory(cfg, ev, key)
<1> DEFINE group == HistorySignals(cfg, ev)
<1>1. DOMAIN group =
         {"returning_customer_3plus", "returning_customer_2",
          "new_customer_high_value", "order_value"}
  BY DEF HistorySignals
<1>2. group["returning_customer_3plus"] <=> ev.settled >= 3
  BY DEF HistorySignals
<1>3. group["returning_customer_2"] <=> ev.settled \in {1, 2}
  BY DEF HistorySignals
<1>4. group["new_customer_high_value"] <=> ev.settled = 0 /\ ev.value > cfg.requireEmailVerificationAbove
  BY DEF HistorySignals
<1>5. group["order_value"] <=> ev.value > cfg.maxOrderValue
  BY DEF HistorySignals
<1> HIDE DEF group
<1>6. key \in DOMAIN group /\ group[key] <=> ByHistory(cfg, ev, key)
  BY <1>1, <1>2, <1>3, <1>4, <1>5 DEF ByHistory
<1>7. QED
  BY <1>6 DEF group

LEMMA CardRaised ==
  ASSUME NEW cfg, NEW ev, NEW key
  PROVE  key \in DOMAIN CardSignals(cfg.enforce3dSecure, ev.checks) /\ CardSignals(cfg.enforce3dSecure, ev.checks)[key] <=> ByCard(cfg, ev, key)
<1> DEFINE group == CardSignals(cfg.enforce3dSecure, ev.checks)
<1>1. DOMAIN group =
         {"avs_postcode_fail", "avs_address_fail", "radar_risk_highest",
          "radar_risk_elevated", "three_ds_failed"}
  BY DEF CardSignals
<1>2. group["avs_postcode_fail"] <=> ev.checks.postalCode = "fail"
  BY DEF CardSignals
<1>3. group["avs_address_fail"] <=> ev.checks.line1 = "fail"
  BY DEF CardSignals
<1>4. group["radar_risk_highest"] <=> ev.checks.riskLevel = "highest"
  BY DEF CardSignals
<1>5. group["radar_risk_elevated"] <=> ev.checks.riskLevel = "elevated"
  BY DEF CardSignals
<1>6. group["three_ds_failed"] <=> cfg.enforce3dSecure /\ ThreeDsFailed(ev.checks)
  BY DEF CardSignals
<1> HIDE DEF group
<1>7. key \in DOMAIN group /\ group[key] <=> ByCard(cfg, ev, key)
  BY <1>1, <1>2, <1>3, <1>4, <1>5, <1>6 DEF ByCard
<1>8. QED
  BY <1>7 DEF group

LEMMA Raised ==
  ASSUME NEW cfg, NEW ev, NEW key
  PROVE  key \in Signals(cfg, ev) <=>
            \/ ByIdentity(cfg, ev, key) \/ ByVelocity(cfg, ev, key) \/ ByAddress(cfg, ev, key)
            \/ ByShipping(cfg, ev, key) \/ ByHistory(cfg, ev, key) \/ ByCard(cfg, ev, key)
<1>1. key \in Signals(cfg, ev) <=>
           \/ key \in DOMAIN IdentitySignals(cfg, ev) /\ IdentitySignals(cfg, ev)[key]
           \/ key \in DOMAIN VelocitySignals(cfg, ev) /\ VelocitySignals(cfg, ev)[key]
           \/ key \in DOMAIN AddressSignals(cfg, ev) /\ AddressSignals(cfg, ev)[key]
           \/ key \in DOMAIN ShippingSignals(ev) /\ ShippingSignals(ev)[key]
           \/ key \in DOMAIN HistorySignals(cfg, ev) /\ HistorySignals(cfg, ev)[key]
           \/ /\ key \in DOMAIN CardSignals(cfg.enforce3dSecure, ev.checks)
              /\ CardSignals(cfg.enforce3dSecure, ev.checks)[key]
  BY DEF Signals
<1>2. QED
  BY <1>1, IdentityRaised, VelocityRaised, AddressRaised, ShippingRaised, HistoryRaised, CardRaised

LEMMA KeysAre ==
  SignalKeys =
   {"disposable_email", "vpn_proxy", "hosting_ip", "geo_mismatch",
    "email_no_mx", "identity_fanout", "gibberish_email", "country_mismatch",
    "returning_customer_2", "returning_customer_3plus", "blocklist_email",
    "blocklist_email_domain", "blocklist_ip", "blocklist_ip_range",
    "ip_velocity_hour", "ip_velocity_day", "ip_velocity_warm",
    "email_velocity_day", "email_value_day", "order_value",
    "high_risk_country", "failed_payments", "plus_addressing",
    "new_customer_high_value", "avs_postcode_fail", "avs_address_fail",
    "postcode_mismatch", "radar_risk_elevated", "radar_risk_highest",
    "three_ds_failed"}
BY DEF SignalKeys, DefaultWeights
LEMMA KeysFinite == IsFiniteSet(SignalKeys)
<1> DEFINE row == <<"disposable_email", "vpn_proxy", "hosting_ip",
                   "geo_mismatch", "email_no_mx", "identity_fanout",
                   "gibberish_email", "country_mismatch",
                   "returning_customer_2", "returning_customer_3plus",
                   "blocklist_email", "blocklist_email_domain",
                   "blocklist_ip", "blocklist_ip_range", "ip_velocity_hour",
                   "ip_velocity_day", "ip_velocity_warm",
                   "email_velocity_day", "email_value_day", "order_value",
                   "high_risk_country", "failed_payments", "plus_addressing",
                   "new_customer_high_value", "avs_postcode_fail",
                   "avs_address_fail", "postcode_mismatch",
                   "radar_risk_elevated", "radar_risk_highest",
                   "three_ds_failed">>
<1>1. row \in Seq(SignalKeys)
  BY KeysAre
<1>2. \A key \in SignalKeys : \E n \in 1..Len(row) : row[n] = key
  BY KeysAre
<1>3. QED
  BY <1>1, <1>2 DEF IsFiniteSet

-----------------------------------------------------------------------------
(* What each rule adds to the score.                                       *)
Gain(cfg, ev) ==
    [key \in SignalKeys |-> IF key \in Signals(cfg, ev) THEN Times(ev, key) * Weight(cfg, key) ELSE 0]

Returning == {"returning_customer_2", "returning_customer_3plus"}

Weighted(cfg) == \A key \in SignalKeys : Weight(cfg, key) \in Int

LEMMA TimesIs ==
  ASSUME NEW ev, ev.emailRows \in Nat, ev.domainRows \in Nat, NEW key
  PROVE  Times(ev, key) \in Nat
BY DEF Times

LEMMA SignalsAreKeys == ASSUME NEW cfg, NEW ev PROVE Signals(cfg, ev) \subseteq SignalKeys
<1> SUFFICES ASSUME NEW key \in Signals(cfg, ev) PROVE key \in SignalKeys
  OBVIOUS
<1> QED
  BY Raised, KeysAre DEF ByIdentity, ByVelocity, ByAddress, ByShipping, ByHistory, ByCard

LEMMA ScoreIs ==
  ASSUME NEW cfg, Weighted(cfg), NEW ev, ev.emailRows \in Nat, ev.domainRows \in Nat
  PROVE  /\ Score(cfg, ev) = Clamp(0, SumOver(Gain(cfg, ev), SignalKeys), 100)
         /\ \A key \in SignalKeys : Gain(cfg, ev)[key] \in Int
         /\ SumOver(Gain(cfg, ev), SignalKeys) \in Int
<1> DEFINE S == Signals(cfg, ev)
           f == [key \in S |-> Times(ev, key) * Weight(cfg, key)]
           g == Gain(cfg, ev)
<1>1. S \subseteq SignalKeys /\ IsFiniteSet(SignalKeys) /\ IsFiniteSet(S)
  BY SignalsAreKeys, KeysFinite, FS_Subset
<1>2. \A key \in SignalKeys : Times(ev, key) * Weight(cfg, key) \in Int
  BY TimesIs DEF Weighted
<1>3. /\ \A key \in SignalKeys : g[key] \in Int
      /\ \A key \in S : f[key] = g[key] /\ f[key] \in Int
      /\ \A key \in SignalKeys \ S : g[key] = 0
  BY <1>1, <1>2 DEF Gain
<1>4. Score(cfg, ev) = Clamp(0, SumOver(f, S), 100)
  BY DEF Score, SumFunction, SumOver
<1> HIDE DEF f, g, S
<1>5. SumOver(f, S) = SumOver(g, S)
  BY <1>1, <1>3, SumOfEqual
<1>6. SumOver(g, S) = SumOver(g, SignalKeys)
  BY <1>1, <1>3, SumOfSupport
<1>7. SumOver(g, SignalKeys) \in Int
  BY <1>1, <1>3, SumIsInteger
<1>8. QED
  BY <1>3, <1>4, <1>5, <1>6, <1>7 DEF g

LEMMA ClampGrows ==
  ASSUME NEW m \in Int, NEW n \in Int, m <= n
  PROVE  Clamp(0, m, 100) <= Clamp(0, n, 100)
BY DEF Clamp

-----------------------------------------------------------------------------
LEMMA DefaultWeighted ==
  /\ \A key \in SignalKeys : Weight(DefaultConfig, key) = DefaultWeights[key]
  /\ Weighted(DefaultConfig)
  /\ \A key \in SignalKeys \ Returning : DefaultWeights[key] >= 0
<1>1. \A key \in SignalKeys : Weight(DefaultConfig, key) = DefaultWeights[key]
  BY DEF Weight, DefaultConfig
<1>2. \A key \in SignalKeys : DefaultWeights[key] \in Int
  BY DEF SignalKeys, DefaultWeights
<1>3. \A key \in SignalKeys \ Returning : DefaultWeights[key] >= 0
  BY DEF SignalKeys, DefaultWeights, Returning
<1>4. QED
  BY <1>1, <1>2, <1>3 DEF Weighted

(* A few rows stop an order, settled orders or not.                        *)
LEMMA RowsCount ==
  ASSUME NEW ev, NEW m \in Nat, NEW n \in Nat, NEW listed, NEW plus, NEW settled \in 0..2,
         ev = [Unsuspicious EXCEPT !.emailRows = m, !.domainRows = n, !.ipListed = listed,
                                   !.plus = plus, !.settled = settled],
         m > 0 \/ n >= 3 \/ listed = "exact"
  PROVE  Level(DefaultConfig, ev) \in {"review", "blocked"}
<1> DEFINE g == Gain(DefaultConfig, ev)
           x == "returning_customer_2"
           y == IF m > 0 THEN "blocklist_email"
                ELSE IF n >= 3 THEN "blocklist_email_domain" ELSE "blocklist_ip"
           cfg == DefaultConfig
<1>1. /\ ev.emailRows = m /\ ev.domainRows = n /\ ev.ipListed = listed /\ ev.settled = settled
  BY DEF Unsuspicious
<1>2. x \in SignalKeys /\ y \in SignalKeys /\ x # y /\ "returning_customer_3plus" \in SignalKeys
  BY KeysAre
<1>3. y \in Signals(cfg, ev)
  <2>1. ByIdentity(cfg, ev, y)
    BY <1>1 DEF ByIdentity
  <2>2. QED
    BY <2>1, Raised
<1>4. "returning_customer_3plus" \notin Signals(cfg, ev)
  <2> DEFINE key == "returning_customer_3plus"
  <2>1. ~ByIdentity(cfg, ev, key) /\ ~ByVelocity(cfg, ev, key) /\ ~ByAddress(cfg, ev, key)
        /\ ~ByShipping(cfg, ev, key) /\ ~ByCard(cfg, ev, key)
    BY DEF ByIdentity, ByVelocity, ByAddress, ByShipping, ByCard
  <2>2. ~ByHistory(cfg, ev, key)
    BY <1>1 DEF ByHistory
  <2>3. QED
    BY <2>1, <2>2, Raised
<1>5. g[x] >= -12
  BY <1>2, DefaultWeighted DEF Gain, Times, DefaultWeights
<1>6. g[y] >= 55
  <2>1. g[y] = Times(ev, y) * DefaultWeights[y]
    BY <1>2, <1>3, DefaultWeighted DEF Gain
  <2>2. CASE m > 0
    BY <1>1, <2>1, <2>2 DEF Times, DefaultWeights
  <2>3. CASE ~(m > 0) /\ n >= 3
    BY <1>1, <2>1, <2>3 DEF Times, DefaultWeights
  <2>4. CASE ~(m > 0) /\ ~(n >= 3)
    BY <1>1, <2>1, <2>4 DEF Times, DefaultWeights
  <2>5. QED
    BY <2>2, <2>3, <2>4
<1>7. \A key \in SignalKeys \ {x, y} : g[key] >= 0
  <2> SUFFICES ASSUME NEW key \in SignalKeys, key # x, key # y PROVE g[key] >= 0
    OBVIOUS
  <2>1. CASE key = "returning_customer_3plus"
    BY <1>4, <2>1 DEF Gain
  <2>2. CASE key # "returning_customer_3plus"
    <3>1. Weight(cfg, key) >= 0 /\ Weight(cfg, key) \in Int
      BY <2>2, DefaultWeighted DEF Returning, Weighted
    <3>2. Times(ev, key) \in Nat
      BY <1>1, TimesIs
    <3>3. Times(ev, key) * Weight(cfg, key) >= 0
      BY <3>1, <3>2
    <3>4. QED
      BY <3>3 DEF Gain
  <2>3. QED
    BY <2>1, <2>2
<1>8. /\ Score(cfg, ev) = Clamp(0, SumOver(g, SignalKeys), 100)
      /\ \A key \in SignalKeys : g[key] \in Int
      /\ SumOver(g, SignalKeys) \in Int
  BY <1>1, DefaultWeighted, ScoreIs
<1> HIDE DEF g, x, y
<1>9. g[x] + g[y] <= SumOver(g, SignalKeys)
  BY <1>2, <1>7, <1>8, KeysFinite, SumAtLeast
<1>10. Score(cfg, ev) \in Int /\ Score(cfg, ev) >= 40
  <2>1. g[x] \in Int /\ g[y] \in Int
    BY <1>2, <1>8
  <2>2. SumOver(g, SignalKeys) >= 40
    BY <1>5, <1>6, <1>8, <1>9, <2>1
  <2>3. QED
    BY <1>8, <2>2 DEF Clamp
<1>11. cfg.blockThreshold = 70 /\ cfg.reviewThreshold = 40
  BY DEF DefaultConfig
<1>12. QED
  BY <1>10, <1>11 DEF Level

(* The query answers three rows: one of the address, or three of its       *)
(* domain, if there are any of the address.                                *)
LEMMA HitsTell ==
  ASSUME IsFiniteSet(rows), NEW e, NEW hits \in Hits(e)
  PROVE  /\ Cardinality(hits \cap EmailRows(e)) \in Nat
         /\ Cardinality(hits \cap DomainRows(e)) \in Nat
         /\ EmailRows(e) # {} =>
               \/ Cardinality(hits \cap EmailRows(e)) > 0
               \/ Cardinality(hits \cap DomainRows(e)) >= 3
<1> DEFINE found == EmailRows(e) \cup DomainRows(e)
           n == IF Cardinality(found) > 3 THEN 3 ELSE Cardinality(found)
<1>1. IsFiniteSet(found) /\ Cardinality(found) \in Nat
  <2>1. found \subseteq rows
    BY DEF EmailRows, DomainRows
  <2>2. QED
    BY <2>1, FS_Subset, FS_CardinalityType
<1>2. hits \subseteq found /\ Cardinality(hits) = n
  BY DEF Hits, UpTo, kSubset
<1>3. /\ IsFiniteSet(hits) /\ IsFiniteSet(hits \cap EmailRows(e))
      /\ IsFiniteSet(hits \cap DomainRows(e))
  BY <1>1, <1>2, FS_Subset
<1>4. ASSUME EmailRows(e) # {}, ~(Cardinality(hits \cap EmailRows(e)) > 0)
      PROVE  Cardinality(hits \cap DomainRows(e)) >= 3
  <2>1. hits \cap EmailRows(e) = {}
    <3>1. Cardinality(hits \cap EmailRows(e)) = 0
      BY <1>3, <1>4, FS_CardinalityType
    <3>2. QED
      BY <1>3, <3>1, FS_EmptySet
  <2>2. hits \cap DomainRows(e) = hits /\ hits # found
    BY <1>2, <1>4, <2>1
  <2>3. Cardinality(hits) < Cardinality(found)
    <3>1. Cardinality(hits) <= Cardinality(found) /\ Cardinality(hits) # Cardinality(found)
      <4> HIDE DEF found
      <4>1. QED
        BY <1>1, <1>2, <2>2, FS_Subset
    <3>2. QED
      BY <1>1, <1>3, <3>1, FS_CardinalityType
  <2>4. QED
    BY <1>1, <1>2, <2>2, <2>3
<1>5. QED
  BY <1>3, <1>4, FS_CardinalityType

(* When a request to reject a case and list its identity has come to its   *)
(* end, an order from that mailbox, under any alias, or from that network  *)
(* address is at least up for review, whatever rows the limited queries    *)
(* answer and with up to two settled orders, for any lists.                *)
THEOREM RejectedIdentitiesStop == Spec => []StoppedAtTheDoor
<1>1. ASSUME RejectedAreListed, IsFiniteSet(rows)
      PROVE  StoppedAtTheDoor
  <2> SUFFICES ASSUME NEW r \in Rejections, rejection[r].at = "done", ~rejection[r].undone,
                      NEW e \in Emails, NEW ip \in Clients, NEW settled \in 0..2,
                      Inbox(e) = Inbox(EmailOf[r]) \/ NormaliseIp(ip) = NormaliseIp(ClientOf[r]),
                      NEW hits \in Hits(e), NEW ranges \in Fetched("blocklist", ip)
               PROVE  Level(DefaultConfig, ListEvidence(hits, ranges, e, ip, settled))
                         \in {"review", "blocked"}
    BY DEF StoppedAtTheDoor
  <2>1. EmailRows(e) # {} \/ IpListed(ip, ranges) = "exact"
    BY <1>1 DEF RejectedAreListed
  <2> DEFINE m == Cardinality(hits \cap EmailRows(e))
             n == Cardinality(hits \cap DomainRows(e))
  <2>2. m \in Nat /\ n \in Nat /\ (EmailRows(e) # {} => m > 0 \/ n >= 3)
    BY <1>1, HitsTell
  <2>3. ListEvidence(hits, ranges, e, ip, settled) =
           [Unsuspicious EXCEPT !.emailRows = m, !.domainRows = n, !.ipListed = IpListed(ip, ranges),
                                !.plus = e.tag # 0, !.settled = settled]
    BY DEF ListEvidence
  <2> HIDE DEF m, n
  <2>4. QED
    BY <2>1, <2>2, <2>3, RowsCount
<1>2. QED
  BY <1>1, RejectionsAreListed, FiniteRows, PTL

-----------------------------------------------------------------------------
(* What is known of an order is a record, and its counts are numbers.      *)
IsChecks(c) ==
    c = [postalCode |-> c.postalCode, line1 |-> c.line1, riskLevel |-> c.riskLevel,
         authenticated |-> c.authenticated, result |-> c.result]

IsKnown(ev) ==
    /\ ev = [emailRows |-> ev.emailRows, domainRows |-> ev.domainRows,
             ipListed |-> ev.ipListed, disposable |-> ev.disposable, plus |-> ev.plus,
             hour |-> ev.hour, day |-> ev.day, emailOrders |-> ev.emailOrders,
             emailValue |-> ev.emailValue, identities |-> ev.identities,
             resolved |-> ev.resolved, vpn |-> ev.vpn, hosting |-> ev.hosting,
             elsewhere |-> ev.elsewhere, mx |-> ev.mx, gibberish |-> ev.gibberish,
             countriesDiffer |-> ev.countriesDiffer,
             postcodesDiffer |-> ev.postcodesDiffer, checks |-> ev.checks,
             value |-> ev.value, settled |-> ev.settled, highRisk |-> ev.highRisk,
             failed |-> ev.failed]
    /\ \A count \in {ev.emailRows, ev.domainRows, ev.hour, ev.day, ev.emailOrders,
                    ev.emailValue, ev.identities, ev.value, ev.settled, ev.failed} :
          count \in Nat
    /\ IsChecks(ev.checks)

LEMMA UnsuspiciousIsKnown == IsKnown(Unsuspicious)
BY DEF Unsuspicious, IsKnown, IsChecks, Nothing

(* What is known changes in this field only.                               *)
Fields == DOMAIN Unsuspicious
LEMMA FieldsAre ==
  Fields = {"emailRows", "domainRows", "ipListed", "disposable", "plus", "hour", "day", "emailOrders",
            "emailValue", "identities", "resolved", "vpn", "hosting", "elsewhere", "mx", "gibberish",
            "countriesDiffer", "postcodesDiffer", "checks", "value", "settled", "highRisk", "failed"}
BY DEF Fields, Unsuspicious

Graded(cfg) ==
    /\ \A key \in SignalKeys : Weight(cfg, key) \in Int
    /\ \A key \in SignalKeys \ {"returning_customer_2", "returning_customer_3plus"} : Weight(cfg, key) >= 0
    /\ Weight(cfg, "ip_velocity_warm") <= Weight(cfg, "ip_velocity_hour")
    /\ Weight(cfg, "hosting_ip") <= Weight(cfg, "vpn_proxy")
    /\ Weight(cfg, "postcode_mismatch") <= Weight(cfg, "country_mismatch")
    /\ Weight(cfg, "radar_risk_elevated") <= Weight(cfg, "radar_risk_highest")
    /\ \A limit \in {cfg.maxOrdersPerIpPerHour, cfg.maxOrdersPerIpPerDay, cfg.maxOrdersPerEmailPerDay,
                     cfg.maxDailyValuePerEmail, cfg.maxOrderValue, cfg.requireEmailVerificationAbove,
                     cfg.maxFailedPaymentsPerIpPerHour} : limit \in Int

\* One signal may take the place of a lighter one.
LEMMA HeavierSignals ==
  ASSUME NEW cfg, Graded(cfg), NEW ev, NEW new,
         ev.emailRows \in Nat, ev.domainRows \in Nat, new.emailRows \in Nat, new.domainRows \in Nat,
         ev.emailRows <= new.emailRows, ev.domainRows <= new.domainRows,
         NEW x \in SignalKeys \ {"blocklist_email", "blocklist_email_domain"},
         NEW y \in SignalKeys \ {"blocklist_email", "blocklist_email_domain"}, x # y,
         Weight(cfg, x) <= Weight(cfg, y),
         x \notin Returning, y \notin Returning,
         \A key \in Signals(cfg, ev) :
            \/ key \in Signals(cfg, new)
            \/ key = x /\ y \in Signals(cfg, new) \ Signals(cfg, ev),
         \A key \in Returning : key \in Signals(cfg, new) => key \in Signals(cfg, ev)
  PROVE  Score(cfg, new) >= Score(cfg, ev)
<1> DEFINE f == Gain(cfg, ev)
           g == Gain(cfg, new)
<1>1. /\ Score(cfg, ev) = Clamp(0, SumOver(f, SignalKeys), 100)
      /\ \A key \in SignalKeys : f[key] \in Int
      /\ SumOver(f, SignalKeys) \in Int
  BY ScoreIs DEF Graded, Weighted
<1>2. /\ Score(cfg, new) = Clamp(0, SumOver(g, SignalKeys), 100)
      /\ \A key \in SignalKeys : g[key] \in Int
      /\ SumOver(g, SignalKeys) \in Int
  BY ScoreIs DEF Graded, Weighted
<1>3. ASSUME NEW key \in SignalKeys, key \notin Returning, key \in Signals(cfg, ev) => key \in Signals(cfg, new)
      PROVE  f[key] <= g[key]
  <2>1. Times(ev, key) \in Nat /\ Times(new, key) \in Nat /\ Times(ev, key) <= Times(new, key)
    BY TimesIs DEF Times
  <2>2. Weight(cfg, key) \in Int /\ Weight(cfg, key) >= 0
    BY <1>3 DEF Graded, Returning
  <2>3. /\ Times(ev, key) * Weight(cfg, key) <= Times(new, key) * Weight(cfg, key)
        /\ 0 <= Times(new, key) * Weight(cfg, key)
    BY <2>1, <2>2
  <2>4. QED
    BY <1>3, <2>3 DEF Gain
<1>4. ASSUME NEW key \in SignalKeys, key \in Returning
      PROVE  f[key] <= g[key]
  <2>1. key \in Signals(cfg, ev) <=> key \in Signals(cfg, new)
    BY <1>4
  <2>2. Times(ev, key) = 1 /\ Times(new, key) = 1
    BY <1>4 DEF Returning, Times
  <2>3. Weight(cfg, key) \in Int
    BY DEF Graded
  <2>4. QED
    BY <2>1, <2>2, <2>3 DEF Gain
<1>5. \A key \in SignalKeys \ {x, y} : f[key] <= g[key]
  BY <1>3, <1>4
<1>6. f[x] + f[y] <= g[x] + g[y]
  <2>1. CASE x \in Signals(cfg, ev) /\ x \notin Signals(cfg, new)
    <3>1. f[x] = Weight(cfg, x) /\ f[y] = 0 /\ g[x] = 0 /\ g[y] = Weight(cfg, y)
      BY <2>1 DEF Gain, Times, Graded
    <3>2. QED
      BY <3>1 DEF Graded
  <2>2. CASE ~(x \in Signals(cfg, ev) /\ x \notin Signals(cfg, new))
    <3>1. f[x] <= g[x] /\ f[y] <= g[y]
      BY <1>3, <2>2
    <3>2. QED
      BY <1>1, <1>2, <3>1
  <2>3. QED
    BY <2>1, <2>2
<1> HIDE DEF f, g
<1>7. SumOver(f, SignalKeys) <= SumOver(g, SignalKeys)
  BY <1>1, <1>2, <1>5, <1>6, KeysFinite, SumOfSwap
<1>8. QED
  <2>1. Clamp(0, SumOver(f, SignalKeys), 100) <= Clamp(0, SumOver(g, SignalKeys), 100)
    BY <1>1, <1>2, <1>7, ClampGrows
  <2>2. /\ Clamp(0, SumOver(f, SignalKeys), 100) \in Int
        /\ Clamp(0, SumOver(g, SignalKeys), 100) \in Int
    BY <1>1, <1>2 DEF Clamp
  <2>3. QED
    BY <1>1, <1>2, <2>1, <2>2

OnlyAt(ev, new, changed) == \A f \in Fields \ changed : new[f] = ev[f]

(* A rule that does not look at what changed is raised as before.          *)
LEMMA IdentityStays ==
  ASSUME NEW cfg, NEW ev, NEW new, NEW changed, OnlyAt(ev, new, changed), NEW key,
         changed \cap {"emailRows", "domainRows", "ipListed", "disposable", "plus", "mx", "gibberish"} = {}
  PROVE  ByIdentity(cfg, ev, key) <=> ByIdentity(cfg, new, key)
BY FieldsAre DEF OnlyAt, ByIdentity

LEMMA VelocityStays ==
  ASSUME NEW cfg, NEW ev, NEW new, NEW changed, OnlyAt(ev, new, changed), NEW key,
         changed \cap {"hour", "day", "emailOrders", "emailValue", "value", "identities", "failed"} = {}
  PROVE  ByVelocity(cfg, ev, key) <=> ByVelocity(cfg, new, key)
BY FieldsAre DEF OnlyAt, ByVelocity

LEMMA AddressStays ==
  ASSUME NEW cfg, NEW ev, NEW new, NEW changed, OnlyAt(ev, new, changed), NEW key,
         changed \cap {"resolved", "vpn", "hosting", "elsewhere", "highRisk"} = {}
  PROVE  ByAddress(cfg, ev, key) <=> ByAddress(cfg, new, key)
BY FieldsAre DEF OnlyAt, ByAddress

LEMMA ShippingStays ==
  ASSUME NEW cfg, NEW ev, NEW new, NEW changed, OnlyAt(ev, new, changed), NEW key,
         changed \cap {"countriesDiffer", "postcodesDiffer"} = {}
  PROVE  ByShipping(cfg, ev, key) <=> ByShipping(cfg, new, key)
BY FieldsAre DEF OnlyAt, ByShipping

LEMMA HistoryStays ==
  ASSUME NEW cfg, NEW ev, NEW new, NEW changed, OnlyAt(ev, new, changed), NEW key,
         changed \cap {"settled", "value"} = {}
  PROVE  ByHistory(cfg, ev, key) <=> ByHistory(cfg, new, key)
BY FieldsAre DEF OnlyAt, ByHistory

LEMMA CardStays ==
  ASSUME NEW cfg, NEW ev, NEW new, NEW changed, OnlyAt(ev, new, changed), NEW key,
         changed \cap {"checks"} = {}
  PROVE  ByCard(cfg, ev, key) <=> ByCard(cfg, new, key)
BY FieldsAre DEF OnlyAt, ByCard

LEMMA ReturningStays ==
  ASSUME NEW cfg, NEW ev, NEW new, new.settled = ev.settled, NEW key \in Returning
  PROVE  key \in Signals(cfg, ev) <=> key \in Signals(cfg, new)
<1>1. \A e : ~ByIdentity(cfg, e, key) /\ ~ByVelocity(cfg, e, key) /\ ~ByAddress(cfg, e, key)
             /\ ~ByShipping(cfg, e, key) /\ ~ByCard(cfg, e, key)
  BY DEF Returning, ByIdentity, ByVelocity, ByAddress, ByShipping, ByCard
<1>2. ByHistory(cfg, ev, key) <=> ByHistory(cfg, new, key)
  BY DEF Returning, ByHistory
<1>3. QED
  BY <1>1, <1>2, Raised

(* Signals that exclude one another, the lighter first.                    *)
Exclusive == {<<"ip_velocity_warm", "ip_velocity_hour">>, <<"hosting_ip", "vpn_proxy">>,
              <<"postcode_mismatch", "country_mismatch">>,
              <<"radar_risk_elevated", "radar_risk_highest">>}

\* Nothing is lost, or a lighter signal to a heavier one.
Outweighs(cfg, ev, new) ==
    \E pair \in Exclusive : \A key \in Signals(cfg, ev) :
        \/ key \in Signals(cfg, new)
        \/ key = pair[1] /\ pair[2] \in Signals(cfg, new) \ Signals(cfg, ev)

LEMMA HeavierScore ==
  ASSUME NEW cfg, Graded(cfg), NEW ev, NEW new, IsKnown(ev), IsKnown(new),
         ev.emailRows <= new.emailRows, ev.domainRows <= new.domainRows,
         new.settled = ev.settled, Outweighs(cfg, ev, new)
  PROVE  Score(cfg, new) >= Score(cfg, ev)
<1>1. PICK pair \in Exclusive : \A key \in Signals(cfg, ev) :
        \/ key \in Signals(cfg, new)
        \/ key = pair[1] /\ pair[2] \in Signals(cfg, new) \ Signals(cfg, ev)
  BY DEF Outweighs
<1>2. /\ pair[1] \in SignalKeys \ {"blocklist_email", "blocklist_email_domain"}
      /\ pair[2] \in SignalKeys \ {"blocklist_email", "blocklist_email_domain"}
      /\ pair[1] # pair[2] /\ pair[1] \notin Returning /\ pair[2] \notin Returning
      /\ Weight(cfg, pair[1]) <= Weight(cfg, pair[2])
  BY KeysAre DEF Exclusive, Returning, Graded
<1>3. /\ ev.emailRows \in Nat /\ ev.domainRows \in Nat
      /\ new.emailRows \in Nat /\ new.domainRows \in Nat
  BY DEF IsKnown
<1>4. \A key \in Returning : key \in Signals(cfg, new) => key \in Signals(cfg, ev)
  BY ReturningStays
<1>5. QED
  BY <1>1, <1>2, <1>3, <1>4, HeavierSignals

-----------------------------------------------------------------------------
\* More rows, or another thing against the address or the mailbox.
WorseIdentity(ev) ==
    {[ev EXCEPT !.emailRows = @ + 1], [ev EXCEPT !.domainRows = @ + 1],
     [ev EXCEPT !.disposable = TRUE], [ev EXCEPT !.plus = TRUE], [ev EXCEPT !.gibberish = TRUE]}
    \cup {[ev EXCEPT !.ipListed = i] : i \in IF ev.ipListed = "no" THEN {"exact", "range"} ELSE {}}
    \cup {[ev EXCEPT !.mx = "no"] : m \in {ev.mx} \cap {"yes"}}

WorseVelocity(ev) ==
    {[ev EXCEPT !.hour = @ + 3, !.day = @ + 3], [ev EXCEPT !.day = @ + 20],
     [ev EXCEPT !.emailOrders = @ + 9], [ev EXCEPT !.emailValue = @ + 99],
     [ev EXCEPT !.identities = @ + 2], [ev EXCEPT !.failed = @ + 3]}

WorseAddress(ev) ==
    {[ev EXCEPT !.vpn = TRUE], [ev EXCEPT !.hosting = TRUE], [ev EXCEPT !.elsewhere = TRUE],
     [ev EXCEPT !.highRisk = TRUE]}

WorseShipping(ev) ==
    {[ev EXCEPT !.countriesDiffer = TRUE], [ev EXCEPT !.postcodesDiffer = TRUE]}

WorseOrder(ev) == {[ev EXCEPT !.value = @ + 10], [ev EXCEPT !.value = @ + 50]}

WorseChecks(ev) ==
    {[ev EXCEPT !.checks.postalCode = "fail"], [ev EXCEPT !.checks.line1 = "fail"],
     [ev EXCEPT !.checks.authenticated = "false"]}
    \cup {[ev EXCEPT !.checks.riskLevel = level] :
             level \in IF ev.checks.riskLevel = "highest" THEN {} ELSE {"elevated", "highest"}}

LEMMA WorseIs ==
  ASSUME NEW ev
  PROVE  Worse(ev) = WorseIdentity(ev) \cup WorseVelocity(ev) \cup WorseAddress(ev)
                        \cup WorseShipping(ev) \cup WorseOrder(ev) \cup WorseChecks(ev)
BY DEF Worse, WorseIdentity, WorseVelocity, WorseAddress, WorseShipping, WorseOrder, WorseChecks

\* A list row takes the place of the rule for disposable domains.
Displaced(ev, new) == ev.disposable /\ ev.domainRows = 0 /\ new.domainRows > 0

LEMMA IdentityWorse ==
  ASSUME NEW cfg, NEW ev, IsKnown(ev), NEW new \in WorseIdentity(ev)
  PROVE  /\ IsKnown(new) /\ new.settled = ev.settled
         /\ OnlyAt(ev, new, {"emailRows", "domainRows", "ipListed", "disposable",
                           "plus", "mx", "gibberish"})
         /\ ev.emailRows <= new.emailRows /\ ev.domainRows <= new.domainRows
         /\ ~Displaced(ev, new) =>
               \A key : ByIdentity(cfg, ev, key) => ByIdentity(cfg, new, key)
<1>1. CASE new = [ev EXCEPT !.emailRows = @ + 1]
  <2>1. /\ IsKnown(new) /\ OnlyAt(ev, new, {"emailRows"})
        /\ new.emailRows = ev.emailRows + 1
    BY <1>1, FieldsAre DEF IsKnown, OnlyAt
  <2>2. ~Displaced(ev, new) =>
           \A key : ByIdentity(cfg, ev, key) => ByIdentity(cfg, new, key)
    BY <1>1, <2>1, FieldsAre DEF IsKnown, OnlyAt, ByIdentity, Displaced
  <2>3. QED
    BY <2>1, <2>2, FieldsAre DEF OnlyAt, IsKnown
<1>2. CASE new = [ev EXCEPT !.domainRows = @ + 1]
  <2>1. /\ IsKnown(new) /\ OnlyAt(ev, new, {"domainRows"})
        /\ new.domainRows = ev.domainRows + 1
    BY <1>2, FieldsAre DEF IsKnown, OnlyAt
  <2>2. ~Displaced(ev, new) =>
           \A key : ByIdentity(cfg, ev, key) => ByIdentity(cfg, new, key)
    BY <1>2, <2>1, FieldsAre DEF IsKnown, OnlyAt, ByIdentity, Displaced
  <2>3. QED
    BY <2>1, <2>2, FieldsAre DEF OnlyAt, IsKnown
<1>3. CASE new = [ev EXCEPT !.disposable = TRUE]
  <2>1. /\ IsKnown(new) /\ OnlyAt(ev, new, {"disposable"})
        /\ new.disposable = TRUE
    BY <1>3, FieldsAre DEF IsKnown, OnlyAt
  <2>2. ~Displaced(ev, new) =>
           \A key : ByIdentity(cfg, ev, key) => ByIdentity(cfg, new, key)
    BY <1>3, <2>1, FieldsAre DEF IsKnown, OnlyAt, ByIdentity, Displaced
  <2>3. QED
    BY <2>1, <2>2, FieldsAre DEF OnlyAt, IsKnown
<1>4. CASE new = [ev EXCEPT !.plus = TRUE]
  <2>1. /\ IsKnown(new) /\ OnlyAt(ev, new, {"plus"})
        /\ new.plus = TRUE
    BY <1>4, FieldsAre DEF IsKnown, OnlyAt
  <2>2. ~Displaced(ev, new) =>
           \A key : ByIdentity(cfg, ev, key) => ByIdentity(cfg, new, key)
    BY <1>4, <2>1, FieldsAre DEF IsKnown, OnlyAt, ByIdentity, Displaced
  <2>3. QED
    BY <2>1, <2>2, FieldsAre DEF OnlyAt, IsKnown
<1>5. CASE new = [ev EXCEPT !.gibberish = TRUE]
  <2>1. /\ IsKnown(new) /\ OnlyAt(ev, new, {"gibberish"})
        /\ new.gibberish = TRUE
    BY <1>5, FieldsAre DEF IsKnown, OnlyAt
  <2>2. ~Displaced(ev, new) =>
           \A key : ByIdentity(cfg, ev, key) => ByIdentity(cfg, new, key)
    BY <1>5, <2>1, FieldsAre DEF IsKnown, OnlyAt, ByIdentity, Displaced
  <2>3. QED
    BY <2>1, <2>2, FieldsAre DEF OnlyAt, IsKnown
<1>6. CASE ev.ipListed = "no" /\ \E i : new = [ev EXCEPT !.ipListed = i]
  <2>1. /\ IsKnown(new) /\ OnlyAt(ev, new, {"ipListed"})
        /\ ev.ipListed = "no"
    BY <1>6, FieldsAre DEF IsKnown, OnlyAt
  <2>2. ~Displaced(ev, new) =>
           \A key : ByIdentity(cfg, ev, key) => ByIdentity(cfg, new, key)
    BY <1>6, <2>1, FieldsAre DEF IsKnown, OnlyAt, ByIdentity, Displaced
  <2>3. QED
    BY <2>1, <2>2, FieldsAre DEF OnlyAt, IsKnown
<1>7. CASE new = [ev EXCEPT !.mx = "no"]
  <2>1. /\ IsKnown(new) /\ OnlyAt(ev, new, {"mx"})
        /\ new.mx = "no"
    BY <1>7, FieldsAre DEF IsKnown, OnlyAt
  <2>2. ~Displaced(ev, new) =>
           \A key : ByIdentity(cfg, ev, key) => ByIdentity(cfg, new, key)
    BY <1>7, <2>1, FieldsAre DEF IsKnown, OnlyAt, ByIdentity, Displaced
  <2>3. QED
    BY <2>1, <2>2, FieldsAre DEF OnlyAt, IsKnown
<1>8. QED
  BY <1>1, <1>2, <1>3, <1>4, <1>5, <1>6, <1>7 DEF WorseIdentity

LEMMA VelocityWorse ==
  ASSUME NEW cfg, NEW ev, IsKnown(ev), NEW new \in WorseVelocity(ev), Graded(cfg)
  PROVE  /\ IsKnown(new) /\ new.settled = ev.settled
         /\ OnlyAt(ev, new, {"hour", "day", "emailOrders", "emailValue", "identities", "failed"})
         /\ ev.emailRows <= new.emailRows /\ ev.domainRows <= new.domainRows
         /\ \A key : ByVelocity(cfg, ev, key) =>
               \/ ByVelocity(cfg, new, key)
               \/ /\ key = "ip_velocity_warm" /\ ByVelocity(cfg, new, "ip_velocity_hour")
                  /\ ~ByVelocity(cfg, ev, "ip_velocity_hour")
<1>1. CASE new = [ev EXCEPT !.hour = @ + 3, !.day = @ + 3]
  <2>1. /\ IsKnown(new) /\ OnlyAt(ev, new, {"hour", "day"})
        /\ new.hour = ev.hour + 3 /\ new.day = ev.day + 3
    <3>1. new.hour = ev.hour + 3 /\ new.day = ev.day + 3
      BY <1>1 DEF IsKnown
    <3>2. OnlyAt(ev, new, {"hour", "day"})
      BY <1>1, FieldsAre DEF IsKnown, OnlyAt
    <3>3. IsKnown(new)
      <4> DEFINE later == [ev EXCEPT !.hour = @ + 3]
      <4>1. IsKnown(later) /\ later.day = ev.day
        BY DEF IsKnown
      <4>2. new = [later EXCEPT !.day = @ + 3]
        BY <1>1, <4>1 DEF IsKnown
      <4> HIDE DEF later
      <4>3. QED
        BY <4>1, <4>2 DEF IsKnown
    <3>4. QED
      BY <3>1, <3>2, <3>3
  <2>2. \A key : ByVelocity(cfg, ev, key) =>
                 \/ ByVelocity(cfg, new, key)
                 \/ /\ key = "ip_velocity_warm" /\ ByVelocity(cfg, new, "ip_velocity_hour")
                    /\ ~ByVelocity(cfg, ev, "ip_velocity_hour")
    <3>1. ev.hour \in Int /\ ev.day \in Int
      BY DEF IsKnown
    <3>2. /\ cfg.maxOrdersPerIpPerHour \in Int /\ cfg.maxOrdersPerIpPerDay \in Int
          /\ Warm(cfg.maxOrdersPerIpPerHour) \in Int
      BY DEF Graded, Warm
    <3>3. /\ new.emailOrders = ev.emailOrders /\ new.emailValue = ev.emailValue
          /\ new.value = ev.value /\ new.identities = ev.identities /\ new.failed = ev.failed
      BY <2>1, FieldsAre DEF OnlyAt
    <3>4. QED
      BY <2>1, <3>1, <3>2, <3>3 DEF ByVelocity
  <2>3. QED
    BY <2>1, <2>2, FieldsAre DEF OnlyAt, IsKnown
<1>2. CASE new = [ev EXCEPT !.day = @ + 20]
  <2>1. /\ IsKnown(new) /\ OnlyAt(ev, new, {"day"})
        /\ new.day = ev.day + 20
    BY <1>2, FieldsAre DEF IsKnown, OnlyAt
  <2>2. \A key : ByVelocity(cfg, ev, key) =>
                 \/ ByVelocity(cfg, new, key)
                 \/ /\ key = "ip_velocity_warm" /\ ByVelocity(cfg, new, "ip_velocity_hour")
                    /\ ~ByVelocity(cfg, ev, "ip_velocity_hour")
    BY <1>2, <2>1, FieldsAre DEF IsKnown, OnlyAt, ByVelocity, Graded
  <2>3. QED
    BY <2>1, <2>2, FieldsAre DEF OnlyAt, IsKnown
<1>3. CASE new = [ev EXCEPT !.emailOrders = @ + 9]
  <2>1. /\ IsKnown(new) /\ OnlyAt(ev, new, {"emailOrders"})
        /\ new.emailOrders = ev.emailOrders + 9
    BY <1>3, FieldsAre DEF IsKnown, OnlyAt
  <2>2. \A key : ByVelocity(cfg, ev, key) =>
                 \/ ByVelocity(cfg, new, key)
                 \/ /\ key = "ip_velocity_warm" /\ ByVelocity(cfg, new, "ip_velocity_hour")
                    /\ ~ByVelocity(cfg, ev, "ip_velocity_hour")
    BY <1>3, <2>1, FieldsAre DEF IsKnown, OnlyAt, ByVelocity, Graded
  <2>3. QED
    BY <2>1, <2>2, FieldsAre DEF OnlyAt, IsKnown
<1>4. CASE new = [ev EXCEPT !.emailValue = @ + 99]
  <2>1. /\ IsKnown(new) /\ OnlyAt(ev, new, {"emailValue"})
        /\ new.emailValue = ev.emailValue + 99
    BY <1>4, FieldsAre DEF IsKnown, OnlyAt
  <2>2. \A key : ByVelocity(cfg, ev, key) =>
                 \/ ByVelocity(cfg, new, key)
                 \/ /\ key = "ip_velocity_warm" /\ ByVelocity(cfg, new, "ip_velocity_hour")
                    /\ ~ByVelocity(cfg, ev, "ip_velocity_hour")
    BY <1>4, <2>1, FieldsAre DEF IsKnown, OnlyAt, ByVelocity, Graded
  <2>3. QED
    BY <2>1, <2>2, FieldsAre DEF OnlyAt, IsKnown
<1>5. CASE new = [ev EXCEPT !.identities = @ + 2]
  <2>1. /\ IsKnown(new) /\ OnlyAt(ev, new, {"identities"})
        /\ new.identities = ev.identities + 2
    BY <1>5, FieldsAre DEF IsKnown, OnlyAt
  <2>2. \A key : ByVelocity(cfg, ev, key) =>
                 \/ ByVelocity(cfg, new, key)
                 \/ /\ key = "ip_velocity_warm" /\ ByVelocity(cfg, new, "ip_velocity_hour")
                    /\ ~ByVelocity(cfg, ev, "ip_velocity_hour")
    BY <1>5, <2>1, FieldsAre DEF IsKnown, OnlyAt, ByVelocity, Graded
  <2>3. QED
    BY <2>1, <2>2, FieldsAre DEF OnlyAt, IsKnown
<1>6. CASE new = [ev EXCEPT !.failed = @ + 3]
  <2>1. /\ IsKnown(new) /\ OnlyAt(ev, new, {"failed"})
        /\ new.failed = ev.failed + 3
    BY <1>6, FieldsAre DEF IsKnown, OnlyAt
  <2>2. \A key : ByVelocity(cfg, ev, key) =>
                 \/ ByVelocity(cfg, new, key)
                 \/ /\ key = "ip_velocity_warm" /\ ByVelocity(cfg, new, "ip_velocity_hour")
                    /\ ~ByVelocity(cfg, ev, "ip_velocity_hour")
    BY <1>6, <2>1, FieldsAre DEF IsKnown, OnlyAt, ByVelocity, Graded
  <2>3. QED
    BY <2>1, <2>2, FieldsAre DEF OnlyAt, IsKnown
<1>7. QED
  BY <1>1, <1>2, <1>3, <1>4, <1>5, <1>6 DEF WorseVelocity

LEMMA AddressWorse ==
  ASSUME NEW cfg, NEW ev, IsKnown(ev), NEW new \in WorseAddress(ev)
  PROVE  /\ IsKnown(new) /\ new.settled = ev.settled
         /\ OnlyAt(ev, new, {"vpn", "hosting", "elsewhere", "highRisk"})
         /\ ev.emailRows <= new.emailRows /\ ev.domainRows <= new.domainRows
         /\ \A key : ByAddress(cfg, ev, key) =>
               \/ ByAddress(cfg, new, key)
               \/ /\ key = "hosting_ip" /\ ByAddress(cfg, new, "vpn_proxy")
                  /\ ~ByAddress(cfg, ev, "vpn_proxy")
<1>1. CASE new = [ev EXCEPT !.vpn = TRUE]
  <2>1. /\ IsKnown(new) /\ OnlyAt(ev, new, {"vpn"})
        /\ new.vpn = TRUE
    BY <1>1, FieldsAre DEF IsKnown, OnlyAt
  <2>2. \A key : ByAddress(cfg, ev, key) =>
                 \/ ByAddress(cfg, new, key)
                 \/ /\ key = "hosting_ip" /\ ByAddress(cfg, new, "vpn_proxy")
                    /\ ~ByAddress(cfg, ev, "vpn_proxy")
    BY <1>1, <2>1, FieldsAre DEF IsKnown, OnlyAt, ByAddress
  <2>3. QED
    BY <2>1, <2>2, FieldsAre DEF OnlyAt, IsKnown
<1>2. CASE new = [ev EXCEPT !.hosting = TRUE]
  <2>1. /\ IsKnown(new) /\ OnlyAt(ev, new, {"hosting"})
        /\ new.hosting = TRUE
    BY <1>2, FieldsAre DEF IsKnown, OnlyAt
  <2>2. \A key : ByAddress(cfg, ev, key) =>
                 \/ ByAddress(cfg, new, key)
                 \/ /\ key = "hosting_ip" /\ ByAddress(cfg, new, "vpn_proxy")
                    /\ ~ByAddress(cfg, ev, "vpn_proxy")
    BY <1>2, <2>1, FieldsAre DEF IsKnown, OnlyAt, ByAddress
  <2>3. QED
    BY <2>1, <2>2, FieldsAre DEF OnlyAt, IsKnown
<1>3. CASE new = [ev EXCEPT !.elsewhere = TRUE]
  <2>1. /\ IsKnown(new) /\ OnlyAt(ev, new, {"elsewhere"})
        /\ new.elsewhere = TRUE
    BY <1>3, FieldsAre DEF IsKnown, OnlyAt
  <2>2. \A key : ByAddress(cfg, ev, key) =>
                 \/ ByAddress(cfg, new, key)
                 \/ /\ key = "hosting_ip" /\ ByAddress(cfg, new, "vpn_proxy")
                    /\ ~ByAddress(cfg, ev, "vpn_proxy")
    BY <1>3, <2>1, FieldsAre DEF IsKnown, OnlyAt, ByAddress
  <2>3. QED
    BY <2>1, <2>2, FieldsAre DEF OnlyAt, IsKnown
<1>4. CASE new = [ev EXCEPT !.highRisk = TRUE]
  <2>1. /\ IsKnown(new) /\ OnlyAt(ev, new, {"highRisk"})
        /\ new.highRisk = TRUE
    BY <1>4, FieldsAre DEF IsKnown, OnlyAt
  <2>2. \A key : ByAddress(cfg, ev, key) =>
                 \/ ByAddress(cfg, new, key)
                 \/ /\ key = "hosting_ip" /\ ByAddress(cfg, new, "vpn_proxy")
                    /\ ~ByAddress(cfg, ev, "vpn_proxy")
    BY <1>4, <2>1, FieldsAre DEF IsKnown, OnlyAt, ByAddress
  <2>3. QED
    BY <2>1, <2>2, FieldsAre DEF OnlyAt, IsKnown
<1>5. QED
  BY <1>1, <1>2, <1>3, <1>4 DEF WorseAddress

LEMMA ShippingWorse ==
  ASSUME NEW cfg, NEW ev, IsKnown(ev), NEW new \in WorseShipping(ev)
  PROVE  /\ IsKnown(new) /\ new.settled = ev.settled
         /\ OnlyAt(ev, new, {"countriesDiffer", "postcodesDiffer"})
         /\ ev.emailRows <= new.emailRows /\ ev.domainRows <= new.domainRows
         /\ \A key : ByShipping(cfg, ev, key) =>
               \/ ByShipping(cfg, new, key)
               \/ /\ key = "postcode_mismatch" /\ ByShipping(cfg, new, "country_mismatch")
                  /\ ~ByShipping(cfg, ev, "country_mismatch")
<1>1. CASE new = [ev EXCEPT !.countriesDiffer = TRUE]
  <2>1. /\ IsKnown(new) /\ OnlyAt(ev, new, {"countriesDiffer"})
        /\ new.countriesDiffer = TRUE
    BY <1>1, FieldsAre DEF IsKnown, OnlyAt
  <2>2. \A key : ByShipping(cfg, ev, key) =>
                 \/ ByShipping(cfg, new, key)
                 \/ /\ key = "postcode_mismatch" /\ ByShipping(cfg, new, "country_mismatch")
                    /\ ~ByShipping(cfg, ev, "country_mismatch")
    BY <1>1, <2>1, FieldsAre DEF IsKnown, OnlyAt, ByShipping
  <2>3. QED
    BY <2>1, <2>2, FieldsAre DEF OnlyAt, IsKnown
<1>2. CASE new = [ev EXCEPT !.postcodesDiffer = TRUE]
  <2>1. /\ IsKnown(new) /\ OnlyAt(ev, new, {"postcodesDiffer"})
        /\ new.postcodesDiffer = TRUE
    BY <1>2, FieldsAre DEF IsKnown, OnlyAt
  <2>2. \A key : ByShipping(cfg, ev, key) =>
                 \/ ByShipping(cfg, new, key)
                 \/ /\ key = "postcode_mismatch" /\ ByShipping(cfg, new, "country_mismatch")
                    /\ ~ByShipping(cfg, ev, "country_mismatch")
    BY <1>2, <2>1, FieldsAre DEF IsKnown, OnlyAt, ByShipping
  <2>3. QED
    BY <2>1, <2>2, FieldsAre DEF OnlyAt, IsKnown
<1>3. QED
  BY <1>1, <1>2 DEF WorseShipping

LEMMA ChecksWorse ==
  ASSUME NEW cfg, NEW ev, IsKnown(ev), NEW new \in WorseChecks(ev)
  PROVE  /\ IsKnown(new) /\ new.settled = ev.settled
         /\ OnlyAt(ev, new, {"checks"})
         /\ ev.emailRows <= new.emailRows /\ ev.domainRows <= new.domainRows
         /\ \A key : ByCard(cfg, ev, key) =>
               \/ ByCard(cfg, new, key)
               \/ /\ key = "radar_risk_elevated" /\ ByCard(cfg, new, "radar_risk_highest")
                  /\ ~ByCard(cfg, ev, "radar_risk_highest")
<1>1. CASE new = [ev EXCEPT !.checks.postalCode = "fail"]
  <2>1. /\ IsKnown(new) /\ OnlyAt(ev, new, {"checks"})
        /\ new.checks = [ev.checks EXCEPT !.postalCode = "fail"]
    BY <1>1, FieldsAre DEF IsKnown, OnlyAt, IsChecks
  <2>2. \A key : ByCard(cfg, ev, key) =>
                 \/ ByCard(cfg, new, key)
                 \/ /\ key = "radar_risk_elevated" /\ ByCard(cfg, new, "radar_risk_highest")
                    /\ ~ByCard(cfg, ev, "radar_risk_highest")
    BY <1>1, <2>1, FieldsAre DEF IsKnown, OnlyAt, ByCard, IsChecks, ThreeDsFailed
  <2>3. QED
    BY <2>1, <2>2, FieldsAre DEF OnlyAt, IsKnown
<1>2. CASE new = [ev EXCEPT !.checks.line1 = "fail"]
  <2>1. /\ IsKnown(new) /\ OnlyAt(ev, new, {"checks"})
        /\ new.checks = [ev.checks EXCEPT !.line1 = "fail"]
    BY <1>2, FieldsAre DEF IsKnown, OnlyAt, IsChecks
  <2>2. \A key : ByCard(cfg, ev, key) =>
                 \/ ByCard(cfg, new, key)
                 \/ /\ key = "radar_risk_elevated" /\ ByCard(cfg, new, "radar_risk_highest")
                    /\ ~ByCard(cfg, ev, "radar_risk_highest")
    BY <1>2, <2>1, FieldsAre DEF IsKnown, OnlyAt, ByCard, IsChecks, ThreeDsFailed
  <2>3. QED
    BY <2>1, <2>2, FieldsAre DEF OnlyAt, IsKnown
<1>3. CASE new = [ev EXCEPT !.checks.authenticated = "false"]
  <2>1. /\ IsKnown(new) /\ OnlyAt(ev, new, {"checks"})
        /\ new.checks = [ev.checks EXCEPT !.authenticated = "false"]
    BY <1>3, FieldsAre DEF IsKnown, OnlyAt, IsChecks
  <2>2. \A key : ByCard(cfg, ev, key) =>
                 \/ ByCard(cfg, new, key)
                 \/ /\ key = "radar_risk_elevated" /\ ByCard(cfg, new, "radar_risk_highest")
                    /\ ~ByCard(cfg, ev, "radar_risk_highest")
    BY <1>3, <2>1, FieldsAre DEF IsKnown, OnlyAt, ByCard, IsChecks, ThreeDsFailed
  <2>3. QED
    BY <2>1, <2>2, FieldsAre DEF OnlyAt, IsKnown
<1>4. CASE /\ ev.checks.riskLevel # "highest"
          /\ \E level \in {"elevated", "highest"} : new = [ev EXCEPT !.checks.riskLevel = level]
  <2>1. /\ IsKnown(new) /\ OnlyAt(ev, new, {"checks"})
        /\ \E level \in {"elevated", "highest"} : new.checks = [ev.checks EXCEPT !.riskLevel = level]
    BY <1>4, FieldsAre DEF IsKnown, OnlyAt, IsChecks
  <2>2. \A key : ByCard(cfg, ev, key) =>
                 \/ ByCard(cfg, new, key)
                 \/ /\ key = "radar_risk_elevated" /\ ByCard(cfg, new, "radar_risk_highest")
                    /\ ~ByCard(cfg, ev, "radar_risk_highest")
    BY <1>4, <2>1, FieldsAre DEF IsKnown, OnlyAt, ByCard, IsChecks, ThreeDsFailed
  <2>3. QED
    BY <2>1, <2>2, FieldsAre DEF OnlyAt, IsKnown
<1>5. QED
  BY <1>1, <1>2, <1>3, <1>4 DEF WorseChecks

\* An order of higher value: two rules about amounts a day, and two about history.
LEMMA OrderWorse ==
  ASSUME NEW cfg, NEW ev, IsKnown(ev), NEW new \in WorseOrder(ev), Graded(cfg)
  PROVE  /\ IsKnown(new) /\ new.settled = ev.settled /\ OnlyAt(ev, new, {"value"})
         /\ ev.emailRows <= new.emailRows /\ ev.domainRows <= new.domainRows
         /\ \A key : ByVelocity(cfg, ev, key) => ByVelocity(cfg, new, key)
         /\ \A key : ByHistory(cfg, ev, key) => ByHistory(cfg, new, key)
<1>1. /\ IsKnown(new) /\ OnlyAt(ev, new, {"value"})
      /\ new.value >= ev.value
  <2>1. CASE new = [ev EXCEPT !.value = @ + 10]
    BY <2>1, FieldsAre DEF IsKnown, OnlyAt
  <2>2. CASE new = [ev EXCEPT !.value = @ + 50]
    BY <2>2, FieldsAre DEF IsKnown, OnlyAt
  <2>3. QED
    BY <2>1, <2>2 DEF WorseOrder
<1>2. /\ ev.value \in Int /\ new.value \in Int /\ ev.emailValue \in Int
      /\ cfg.maxDailyValuePerEmail \in Int /\ cfg.requireEmailVerificationAbove \in Int
      /\ cfg.maxOrderValue \in Int
  BY <1>1 DEF IsKnown, Graded
<1>3. /\ new.hour = ev.hour /\ new.day = ev.day /\ new.emailOrders = ev.emailOrders
      /\ new.emailValue = ev.emailValue /\ new.identities = ev.identities
      /\ new.failed = ev.failed /\ new.settled = ev.settled
      /\ new.emailRows = ev.emailRows /\ new.domainRows = ev.domainRows
  BY <1>1, FieldsAre DEF OnlyAt
<1>4. \A key : ByVelocity(cfg, ev, key) => ByVelocity(cfg, new, key)
  BY <1>1, <1>2, <1>3 DEF ByVelocity
<1>5. \A key : ByHistory(cfg, ev, key) => ByHistory(cfg, new, key)
  BY <1>1, <1>2, <1>3 DEF ByHistory
<1>6. QED
  BY <1>1, <1>3, <1>4, <1>5 DEF IsKnown

LEMMA NothingLost ==
  ASSUME NEW cfg, NEW ev, NEW new, \A key \in Signals(cfg, ev) : key \in Signals(cfg, new)
  PROVE  Outweighs(cfg, ev, new)
<1>1. <<"ip_velocity_warm", "ip_velocity_hour">> \in Exclusive
  BY DEF Exclusive
<1>2. QED
  BY <1>1, Zenon DEF Outweighs

LEMMA HeavierWins ==
  ASSUME NEW cfg, NEW ev, NEW new, NEW lighter, NEW heavier, <<lighter, heavier>> \in Exclusive,
         \A key \in Signals(cfg, ev) :
            \/ key \in Signals(cfg, new)
            \/ key = lighter /\ heavier \in Signals(cfg, new) \ Signals(cfg, ev)
  PROVE  Outweighs(cfg, ev, new)
<1> DEFINE pair == <<lighter, heavier>>
<1>1. pair \in Exclusive /\ pair[1] = lighter /\ pair[2] = heavier
  OBVIOUS
<1> HIDE DEF pair
<1>2. QED
  BY <1>1, Zenon DEF Outweighs

(* One more thing against an order, with weights that are graded.          *)
LEMMA WorseWeighsMore ==
  ASSUME NEW cfg, Graded(cfg), NEW ev, IsKnown(ev), NEW new \in Worse(ev)
  PROVE  /\ IsKnown(new)
         /\ ~Displaced(ev, new) => Score(cfg, new) >= Score(cfg, ev)
<1> DEFINE Goal == /\ IsKnown(new) /\ new.settled = ev.settled
                   /\ ev.emailRows <= new.emailRows /\ ev.domainRows <= new.domainRows
                   /\ ~Displaced(ev, new) => Outweighs(cfg, ev, new)
<1>1. ASSUME new \in WorseIdentity(ev) PROVE Goal
  <2>1. /\ IsKnown(new) /\ new.settled = ev.settled
        /\ ev.emailRows <= new.emailRows /\ ev.domainRows <= new.domainRows
    BY <1>1, IdentityWorse
  <2>2. ASSUME ~Displaced(ev, new), NEW key \in Signals(cfg, ev)
        PROVE  key \in Signals(cfg, new)
    <3>0. OnlyAt(ev, new, {"emailRows", "domainRows", "ipListed", "disposable", "plus", "mx", "gibberish"})
      BY <1>1, IdentityWorse
    <3>1. /\ ByVelocity(cfg, ev, key) => ByVelocity(cfg, new, key)
          /\ ByAddress(cfg, ev, key) => ByAddress(cfg, new, key)
          /\ ByShipping(cfg, ev, key) => ByShipping(cfg, new, key)
          /\ ByHistory(cfg, ev, key) => ByHistory(cfg, new, key)
          /\ ByCard(cfg, ev, key) => ByCard(cfg, new, key)
      BY <3>0, VelocityStays, AddressStays, ShippingStays, HistoryStays, CardStays
    <3>2. ByIdentity(cfg, ev, key) => ByIdentity(cfg, new, key)
      BY <1>1, <2>2, IdentityWorse
    <3>3. QED
      BY <3>1, <3>2, Raised
  <2>3. QED
    BY <2>1, <2>2, NothingLost
<1>2. ASSUME new \in WorseVelocity(ev) PROVE Goal
  <2>1. /\ IsKnown(new) /\ new.settled = ev.settled
        /\ ev.emailRows <= new.emailRows /\ ev.domainRows <= new.domainRows
    BY <1>2, VelocityWorse
  <2>2. ASSUME NEW key \in Signals(cfg, ev)
        PROVE  \/ key \in Signals(cfg, new)
               \/ /\ key = "ip_velocity_warm"
                  /\ "ip_velocity_hour" \in Signals(cfg, new) \ Signals(cfg, ev)
    <3>0. OnlyAt(ev, new, {"hour", "day", "emailOrders", "emailValue", "identities", "failed"})
      BY <1>2, VelocityWorse
    <3>1. /\ ByIdentity(cfg, ev, key) => ByIdentity(cfg, new, key)
          /\ ByAddress(cfg, ev, key) => ByAddress(cfg, new, key)
          /\ ByShipping(cfg, ev, key) => ByShipping(cfg, new, key)
          /\ ByHistory(cfg, ev, key) => ByHistory(cfg, new, key)
          /\ ByCard(cfg, ev, key) => ByCard(cfg, new, key)
      BY <3>0, IdentityStays, AddressStays, ShippingStays, HistoryStays, CardStays
    <3>2. \A e : "ip_velocity_hour" \in Signals(cfg, e) <=> ByVelocity(cfg, e, "ip_velocity_hour")
      <4>1. \A e : /\ ~ByIdentity(cfg, e, "ip_velocity_hour")
                  /\ ~ByAddress(cfg, e, "ip_velocity_hour")
                  /\ ~ByShipping(cfg, e, "ip_velocity_hour")
                  /\ ~ByHistory(cfg, e, "ip_velocity_hour")
                  /\ ~ByCard(cfg, e, "ip_velocity_hour")
        BY DEF ByIdentity, ByAddress, ByShipping, ByHistory, ByCard
      <4>2. QED
        BY <4>1, Raised
    <3>3. ByVelocity(cfg, ev, key) =>
             \/ ByVelocity(cfg, new, key)
             \/ /\ key = "ip_velocity_warm"
                /\ ByVelocity(cfg, new, "ip_velocity_hour") /\ ~ByVelocity(cfg, ev, "ip_velocity_hour")
      BY <1>2, VelocityWorse
    <3>4. QED
      BY <3>1, <3>2, <3>3, Raised
  <2>3. <<"ip_velocity_warm", "ip_velocity_hour">> \in Exclusive
    BY DEF Exclusive
  <2>4. QED
    BY <2>1, <2>2, <2>3, HeavierWins
<1>3. ASSUME new \in WorseAddress(ev) PROVE Goal
  <2>1. /\ IsKnown(new) /\ new.settled = ev.settled
        /\ ev.emailRows <= new.emailRows /\ ev.domainRows <= new.domainRows
    BY <1>3, AddressWorse
  <2>2. ASSUME NEW key \in Signals(cfg, ev)
        PROVE  \/ key \in Signals(cfg, new)
               \/ /\ key = "hosting_ip"
                  /\ "vpn_proxy" \in Signals(cfg, new) \ Signals(cfg, ev)
    <3>0. OnlyAt(ev, new, {"vpn", "hosting", "elsewhere", "highRisk"})
      BY <1>3, AddressWorse
    <3>1. /\ ByIdentity(cfg, ev, key) => ByIdentity(cfg, new, key)
          /\ ByVelocity(cfg, ev, key) => ByVelocity(cfg, new, key)
          /\ ByShipping(cfg, ev, key) => ByShipping(cfg, new, key)
          /\ ByHistory(cfg, ev, key) => ByHistory(cfg, new, key)
          /\ ByCard(cfg, ev, key) => ByCard(cfg, new, key)
      BY <3>0, IdentityStays, VelocityStays, ShippingStays, HistoryStays, CardStays
    <3>2. \A e : "vpn_proxy" \in Signals(cfg, e) <=> ByAddress(cfg, e, "vpn_proxy")
      <4>1. \A e : /\ ~ByIdentity(cfg, e, "vpn_proxy")
                  /\ ~ByVelocity(cfg, e, "vpn_proxy")
                  /\ ~ByShipping(cfg, e, "vpn_proxy")
                  /\ ~ByHistory(cfg, e, "vpn_proxy")
                  /\ ~ByCard(cfg, e, "vpn_proxy")
        BY DEF ByIdentity, ByVelocity, ByShipping, ByHistory, ByCard
      <4>2. QED
        BY <4>1, Raised
    <3>3. ByAddress(cfg, ev, key) =>
             \/ ByAddress(cfg, new, key)
             \/ /\ key = "hosting_ip"
                /\ ByAddress(cfg, new, "vpn_proxy") /\ ~ByAddress(cfg, ev, "vpn_proxy")
      BY <1>3, AddressWorse
    <3>4. QED
      BY <3>1, <3>2, <3>3, Raised
  <2>3. <<"hosting_ip", "vpn_proxy">> \in Exclusive
    BY DEF Exclusive
  <2>4. QED
    BY <2>1, <2>2, <2>3, HeavierWins
<1>4. ASSUME new \in WorseShipping(ev) PROVE Goal
  <2>1. /\ IsKnown(new) /\ new.settled = ev.settled
        /\ ev.emailRows <= new.emailRows /\ ev.domainRows <= new.domainRows
    BY <1>4, ShippingWorse
  <2>2. ASSUME NEW key \in Signals(cfg, ev)
        PROVE  \/ key \in Signals(cfg, new)
               \/ /\ key = "postcode_mismatch"
                  /\ "country_mismatch" \in Signals(cfg, new) \ Signals(cfg, ev)
    <3>0. OnlyAt(ev, new, {"countriesDiffer", "postcodesDiffer"})
      BY <1>4, ShippingWorse
    <3>1. /\ ByIdentity(cfg, ev, key) => ByIdentity(cfg, new, key)
          /\ ByVelocity(cfg, ev, key) => ByVelocity(cfg, new, key)
          /\ ByAddress(cfg, ev, key) => ByAddress(cfg, new, key)
          /\ ByHistory(cfg, ev, key) => ByHistory(cfg, new, key)
          /\ ByCard(cfg, ev, key) => ByCard(cfg, new, key)
      BY <3>0, IdentityStays, VelocityStays, AddressStays, HistoryStays, CardStays
    <3>2. \A e : "country_mismatch" \in Signals(cfg, e) <=> ByShipping(cfg, e, "country_mismatch")
      <4>1. \A e : /\ ~ByIdentity(cfg, e, "country_mismatch")
                  /\ ~ByVelocity(cfg, e, "country_mismatch")
                  /\ ~ByAddress(cfg, e, "country_mismatch")
                  /\ ~ByHistory(cfg, e, "country_mismatch")
                  /\ ~ByCard(cfg, e, "country_mismatch")
        BY DEF ByIdentity, ByVelocity, ByAddress, ByHistory, ByCard
      <4>2. QED
        BY <4>1, Raised
    <3>3. ByShipping(cfg, ev, key) =>
             \/ ByShipping(cfg, new, key)
             \/ /\ key = "postcode_mismatch"
                /\ ByShipping(cfg, new, "country_mismatch") /\ ~ByShipping(cfg, ev, "country_mismatch")
      BY <1>4, ShippingWorse
    <3>4. QED
      BY <3>1, <3>2, <3>3, Raised
  <2>3. <<"postcode_mismatch", "country_mismatch">> \in Exclusive
    BY DEF Exclusive
  <2>4. QED
    BY <2>1, <2>2, <2>3, HeavierWins
<1>5. ASSUME new \in WorseOrder(ev) PROVE Goal
  <2>1. /\ IsKnown(new) /\ new.settled = ev.settled
        /\ ev.emailRows <= new.emailRows /\ ev.domainRows <= new.domainRows
    BY <1>5, OrderWorse
  <2>2. ASSUME NEW key \in Signals(cfg, ev)
        PROVE  key \in Signals(cfg, new)
    <3>0. OnlyAt(ev, new, {"value"})
      BY <1>5, OrderWorse
    <3>1. /\ ByIdentity(cfg, ev, key) => ByIdentity(cfg, new, key)
          /\ ByAddress(cfg, ev, key) => ByAddress(cfg, new, key)
          /\ ByShipping(cfg, ev, key) => ByShipping(cfg, new, key)
          /\ ByCard(cfg, ev, key) => ByCard(cfg, new, key)
      BY <3>0, IdentityStays, AddressStays, ShippingStays, CardStays
    <3>2. /\ ByVelocity(cfg, ev, key) => ByVelocity(cfg, new, key)
          /\ ByHistory(cfg, ev, key) => ByHistory(cfg, new, key)
      BY <1>5, OrderWorse
    <3>3. QED
      BY <3>1, <3>2, Raised
  <2>3. QED
    BY <2>1, <2>2, NothingLost
<1>6. ASSUME new \in WorseChecks(ev) PROVE Goal
  <2>1. /\ IsKnown(new) /\ new.settled = ev.settled
        /\ ev.emailRows <= new.emailRows /\ ev.domainRows <= new.domainRows
    BY <1>6, ChecksWorse
  <2>2. ASSUME NEW key \in Signals(cfg, ev)
        PROVE  \/ key \in Signals(cfg, new)
               \/ /\ key = "radar_risk_elevated"
                  /\ "radar_risk_highest" \in Signals(cfg, new) \ Signals(cfg, ev)
    <3>0. OnlyAt(ev, new, {"checks"})
      BY <1>6, ChecksWorse
    <3>1. /\ ByIdentity(cfg, ev, key) => ByIdentity(cfg, new, key)
          /\ ByVelocity(cfg, ev, key) => ByVelocity(cfg, new, key)
          /\ ByAddress(cfg, ev, key) => ByAddress(cfg, new, key)
          /\ ByShipping(cfg, ev, key) => ByShipping(cfg, new, key)
          /\ ByHistory(cfg, ev, key) => ByHistory(cfg, new, key)
      BY <3>0, IdentityStays, VelocityStays, AddressStays, ShippingStays, HistoryStays
    <3>2. \A e : "radar_risk_highest" \in Signals(cfg, e) <=> ByCard(cfg, e, "radar_risk_highest")
      <4>1. \A e : /\ ~ByIdentity(cfg, e, "radar_risk_highest")
                  /\ ~ByVelocity(cfg, e, "radar_risk_highest")
                  /\ ~ByAddress(cfg, e, "radar_risk_highest")
                  /\ ~ByShipping(cfg, e, "radar_risk_highest")
                  /\ ~ByHistory(cfg, e, "radar_risk_highest")
        BY DEF ByIdentity, ByVelocity, ByAddress, ByShipping, ByHistory
      <4>2. QED
        BY <4>1, Raised
    <3>3. ByCard(cfg, ev, key) =>
             \/ ByCard(cfg, new, key)
             \/ /\ key = "radar_risk_elevated"
                /\ ByCard(cfg, new, "radar_risk_highest") /\ ~ByCard(cfg, ev, "radar_risk_highest")
      BY <1>6, ChecksWorse
    <3>4. QED
      BY <3>1, <3>2, <3>3, Raised
  <2>3. <<"radar_risk_elevated", "radar_risk_highest">> \in Exclusive
    BY DEF Exclusive
  <2>4. QED
    BY <2>1, <2>2, <2>3, HeavierWins
<1>7. Goal
  BY <1>1, <1>2, <1>3, <1>4, <1>5, <1>6, WorseIs
<1>8. QED
  BY <1>7, HeavierScore

-----------------------------------------------------------------------------
(* What is known stays a record of facts.                                  *)
KnownInv ==
    /\ known = [cfg |-> known.cfg, ev |-> known.ev, doubts |-> known.doubts]
    /\ known.cfg \in Configs
    /\ IsKnown(known.ev)

LEMMA OnlyDoubts == ASSUME [Next]_vars PROVE Doubt \/ UNCHANGED known
BY DEF Next, vars, ListsStory, CountsStory, NetworkStory

LEMMA DoubtIs ==
  ASSUME KnownInv, Doubt
  PROVE  \E new \in Worse(known.ev) :
            /\ known' = [cfg |-> known.cfg, ev |-> new, doubts |-> known.doubts + 1]
            /\ known'.cfg = known.cfg /\ known'.ev = new
<1>1. PICK new \in Worse(known.ev) : known' = [known EXCEPT !.ev = new, !.doubts = @ + 1]
  BY DEF Doubt
<1>2. known' = [cfg |-> known.cfg, ev |-> new, doubts |-> known.doubts + 1]
  BY <1>1 DEF KnownInv
<1>3. QED
  BY <1>2

(* Nothing found against an order makes it safer, at any limits, with the  *)
(* default weights or any graded like them, whatever else is known.        *)
THEOREM SuspicionOnlyAdds ==
  ASSUME \A cfg \in Configs : Graded(cfg)
  PROVE  Spec => WorseNeverHelps
<1>1. Init => KnownInv
  BY UnsuspiciousIsKnown DEF Init, KnownInv
<1>2. ASSUME KnownInv, [Next]_vars
      PROVE  KnownInv' /\ [~Displaces => Score(known.cfg, known'.ev) >= Score(known.cfg, known.ev)]_known
  <2>1. CASE UNCHANGED known
    BY <1>2, <2>1 DEF KnownInv
  <2>2. CASE Doubt
    <3>1. PICK new \in Worse(known.ev) :
            /\ known' = [cfg |-> known.cfg, ev |-> new, doubts |-> known.doubts + 1]
            /\ known'.cfg = known.cfg /\ known'.ev = new
      BY <1>2, <2>2, DoubtIs
    <3>2. Graded(known.cfg) /\ IsKnown(known.ev)
      BY <1>2 DEF KnownInv
    <3>3. /\ IsKnown(new)
          /\ ~Displaced(known.ev, new) => Score(known.cfg, new) >= Score(known.cfg, known.ev)
      BY <3>2, WorseWeighsMore
    <3>4. KnownInv'
      BY <1>2, <3>1, <3>3 DEF KnownInv
    <3>5. ~Displaces => ~Displaced(known.ev, new)
      BY <3>1 DEF Displaces, Displaced
    <3>6. QED
      BY <3>1, <3>3, <3>4, <3>5
  <2>3. QED
    BY <1>2, <2>1, <2>2, OnlyDoubts
<1>3. QED
  BY <1>1, <1>2, PTL DEF Spec, WorseNeverHelps

\* The default weights are graded.
LEMMA DefaultIsGraded == Graded(DefaultConfig)
<1> DEFINE cfg == DefaultConfig
<1>1. \A key \in SignalKeys : Weight(cfg, key) = DefaultWeights[key]
  BY DefaultWeighted
<1>2. /\ "ip_velocity_warm" \in SignalKeys /\ "ip_velocity_hour" \in SignalKeys
      /\ "hosting_ip" \in SignalKeys /\ "vpn_proxy" \in SignalKeys
      /\ "postcode_mismatch" \in SignalKeys /\ "country_mismatch" \in SignalKeys
      /\ "radar_risk_elevated" \in SignalKeys /\ "radar_risk_highest" \in SignalKeys
  BY KeysAre
<1>3. /\ Weight(cfg, "ip_velocity_warm") <= Weight(cfg, "ip_velocity_hour")
      /\ Weight(cfg, "hosting_ip") <= Weight(cfg, "vpn_proxy")
      /\ Weight(cfg, "postcode_mismatch") <= Weight(cfg, "country_mismatch")
      /\ Weight(cfg, "radar_risk_elevated") <= Weight(cfg, "radar_risk_highest")
  BY <1>1, <1>2 DEF DefaultWeights
<1>4. \A limit \in {cfg.maxOrdersPerIpPerHour, cfg.maxOrdersPerIpPerDay, cfg.maxOrdersPerEmailPerDay,
                     cfg.maxDailyValuePerEmail, cfg.maxOrderValue, cfg.requireEmailVerificationAbove,
                     cfg.maxFailedPaymentsPerIpPerHour} : limit \in Int
  BY DEF DefaultConfig
<1>5. /\ \A key \in SignalKeys : Weight(cfg, key) \in Int
      /\ \A key \in SignalKeys \ Returning : Weight(cfg, key) >= 0
  BY DefaultWeighted DEF Weighted
<1> HIDE DEF cfg
<1>6. QED
  BY <1>3, <1>4, <1>5 DEF Graded, Returning, cfg

-----------------------------------------------------------------------------
(* Card checks.                                                            *)

\* The least of some places in a sequence.
LEMMA LeastIs ==
  ASSUME NEW I, I \subseteq Nat, I # {}
  PROVE  Min(I) \in I /\ \A j \in I : Min(I) <= j
BY Smallest DEF Min

\* A value that is there is the first one.
LEMMA FirstPresentIs ==
  ASSUME NEW raws, IsSequence(raws)
  PROVE  \/ /\ FirstPresent(raws) = Absent
            /\ \A i \in DOMAIN raws : raws[i] = Absent
         \/ \E i \in DOMAIN raws :
               /\ FirstPresent(raws) = raws[i] /\ raws[i] # Absent
               /\ \A j \in 1..(i - 1) : raws[j] = Absent
<1> DEFINE I == {i \in 1..Len(raws) : raws[i] # Absent}
<1>1. DOMAIN raws = 1..Len(raws) /\ Len(raws) \in Nat
  BY DEF IsSequence
<1>2. CASE I = {}
  <2>1. FirstPresent(raws) = Absent
    BY <1>2 DEF FirstPresent, FirstWith, SelectInSeq
  <2>2. QED
    BY <1>1, <1>2, <2>1
<1>3. CASE I # {}
  <2>1. I \subseteq Nat
    OBVIOUS
  <2> DEFINE k == Min(I)
  <2>2. k \in I /\ \A j \in I : k <= j
    <3> HIDE DEF I
    <3>1. QED
      BY <1>3, <2>1, LeastIs
  <2>3. SelectInSeq(raws, LAMBDA raw : raw # Absent) = k
    BY <1>3 DEF SelectInSeq
  <2> HIDE DEF k
  <2>4. k # 0
    BY <2>2
  <2>5. FirstPresent(raws) = raws[k]
    BY <2>3, <2>4 DEF FirstPresent, FirstWith
  <2>6. QED
    BY <1>1, <2>2, <2>5
<1>4. QED
  BY <1>2, <1>3

\* A usable answer is one of those that were given.
LEMMA FirstUsableIs ==
  ASSUME NEW results, DOMAIN results = 1..Len(results), Len(results) \in Nat
  PROVE  FirstUsable(results) = Nothing \/ \E i \in DOMAIN results : FirstUsable(results) = results[i]
<1> DEFINE I == {i \in 1..Len(results) : HasAnyCheck(results[i])}
<1>2. CASE I = {}
  BY <1>2 DEF FirstUsable, FirstWith, SelectInSeq
<1>3. CASE I # {}
  <2> DEFINE k == Min(I)
  <2>1. I \subseteq Nat
    OBVIOUS
  <2>2. k \in I
    <3> HIDE DEF I
    <3>1. QED
      BY <1>3, <2>1, LeastIs
  <2>3. SelectInSeq(results, HasAnyCheck) = k
    BY <1>3 DEF SelectInSeq
  <2> HIDE DEF k
  <2>4. k # 0
    BY <2>2
  <2>5. FirstUsable(results) = results[k]
    BY <2>3, <2>4 DEF FirstUsable, FirstWith
  <2>6. QED
    BY <2>2, <2>5
<1>4. QED
  BY <1>2, <1>3

\* A pair of verdicts is tells in one place.
LEMMA AvsPairIs ==
  ASSUME NEW avs, IsSequence(avs), avs # <<>>
  PROVE  \E i \in DOMAIN avs : AvsPair(avs) = <<ParseAvsCheck(avs[i][1]), ParseAvsCheck(avs[i][2])>>
<1> DEFINE tells(pair) == \E i \in {1, 2} : ParseAvsCheck(pair[i]) # Absent
           I == {i \in 1..Len(avs) : tells(avs[i])}
<1>1. DOMAIN avs = 1..Len(avs) /\ Len(avs) \in Nat /\ 1 \in DOMAIN avs
  BY DEF IsSequence
<1>2. CASE I = {}
  <2>1. AvsPair(avs) = <<ParseAvsCheck(Absent), ParseAvsCheck(Absent)>>
    BY <1>2 DEF AvsPair, FirstWith, SelectInSeq, NoPair
  <2>2. ParseAvsCheck(Absent) = Absent
    BY DEF ParseAvsCheck, Reading, AvsWords, Absent
  <2>3. ParseAvsCheck(avs[1][1]) = Absent /\ ParseAvsCheck(avs[1][2]) = Absent
    BY <1>1, <1>2
  <2>4. QED
    BY <1>1, <2>1, <2>2, <2>3
<1>3. CASE I # {}
  <2> DEFINE k == Min(I)
  <2>1. I \subseteq Nat
    OBVIOUS
  <2>2. k \in I
    <3> HIDE DEF I
    <3>1. QED
      BY <1>3, <2>1, LeastIs
  <2>3. AvsPair(avs) = <<ParseAvsCheck(avs[k][1]), ParseAvsCheck(avs[k][2])>>
    <3>1. k # 0
      <4> HIDE DEF k
      <4>1. QED
        BY <2>2
    <3>2. SelectInSeq(avs, tells) = k
      BY <1>3 DEF SelectInSeq
    <3> HIDE DEF k
    <3>3. FirstWith(avs, tells, NoPair) = avs[k]
      BY <3>1, <3>2 DEF FirstWith
    <3>4. QED
      BY <3>3 DEF AvsPair
  <2>4. QED
    BY <1>1, <2>2, <2>3
<1>4. QED
  BY <1>2, <1>3

\* What the property asks of an answer that payment p gave.
ToldBy(p, checks) ==
    /\ \E place \in Places(p) :
          checks.postalCode = ParseAvsCheck(place[1]) /\ checks.line1 = ParseAvsCheck(place[2])
    /\ checks.authenticated = "false" /\ checks.result \notin Benign =>
          \/ /\ \E i \in DOMAIN p.metadata.authenticated :
                   ParseThreeDs(p.metadata.authenticated[i]) = "false"
             /\ \A i \in DOMAIN p.metadata.result : p.metadata.result[i] \in Benign =>
                   \E j \in 1..(i - 1) : p.metadata.result[j] \notin Benign \cup {Absent}
          \/ ParseThreeDs(p.charge.authenticated) = "false" /\ p.charge.result \notin Benign

LEMMA NothingIsSilent ==
  /\ Nothing.authenticated # "false" /\ Absent \notin Benign
  /\ ParseThreeDs(Absent) = Absent /\ Absent # "false"
BY DEF Nothing, Absent, Benign, ParseThreeDs, Reading, ThreeDsWords

LEMMA MetadataTells ==
  ASSUME NEW p, IsSequence(p.metadata.avs), p.metadata.avs # <<>>,
         IsSequence(p.metadata.authenticated), IsSequence(p.metadata.result)
  PROVE  FromMetadata(p.metadata) = Nothing \/ ToldBy(p, FromMetadata(p.metadata))
<1> DEFINE pair == AvsPair(p.metadata.avs)
           risk == ParseRiskLevel(FirstPresent(p.metadata.riskLevel))
           ran == ParseThreeDs(FirstPresent(p.metadata.authenticated))
           outcome == FirstPresent(p.metadata.result)
           checks == [postalCode |-> pair[1], line1 |-> pair[2], riskLevel |-> risk,
                      authenticated |-> ran, result |-> outcome]
<1>1. FromMetadata(p.metadata) \in {Nothing, checks}
  BY DEF FromMetadata, Usable
<1>2. PICK i \in DOMAIN p.metadata.avs :
         pair = <<ParseAvsCheck(p.metadata.avs[i][1]), ParseAvsCheck(p.metadata.avs[i][2])>>
  BY AvsPairIs
<1>3. p.metadata.avs[i] \in Places(p)
  BY DEF Places, ToSet
<1>4. /\ pair[1] = ParseAvsCheck(p.metadata.avs[i][1])
      /\ pair[2] = ParseAvsCheck(p.metadata.avs[i][2])
  <2> DEFINE x == ParseAvsCheck(p.metadata.avs[i][1])
             y == ParseAvsCheck(p.metadata.avs[i][2])
  <2>1. pair = <<x, y>>
    BY <1>2
  <2> HIDE DEF x, y, pair
  <2>2. pair[1] = x /\ pair[2] = y
    BY <2>1
  <2>3. QED
    BY <2>2 DEF x, y
<1>5. ASSUME ran = "false"
      PROVE  \E k \in DOMAIN p.metadata.authenticated :
                ParseThreeDs(p.metadata.authenticated[k]) = "false"
  BY <1>5, FirstPresentIs, NothingIsSilent
<1>6. ASSUME outcome \notin Benign
      PROVE  \A k \in DOMAIN p.metadata.result : p.metadata.result[k] \in Benign =>
                \E j \in 1..(k - 1) : p.metadata.result[j] \notin Benign \cup {Absent}
  <2> DEFINE result == p.metadata.result
  <2>1. DOMAIN result = 1..Len(result) /\ Len(result) \in Nat
    BY DEF IsSequence
  <2>2. CASE \A k \in DOMAIN result : result[k] = Absent
    BY <2>2, NothingIsSilent
  <2>3. ASSUME NEW f \in DOMAIN result, outcome = result[f], result[f] # Absent,
               \A j \in 1..(f - 1) : result[j] = Absent
        PROVE  \A k \in DOMAIN result : result[k] \in Benign =>
                  \E j \in 1..(k - 1) : result[j] \notin Benign \cup {Absent}
    <3> SUFFICES ASSUME NEW k \in DOMAIN result, result[k] \in Benign
                 PROVE  \E j \in 1..(k - 1) : result[j] \notin Benign \cup {Absent}
      OBVIOUS
    <3>1. result[f] \notin Benign \cup {Absent}
      BY <1>6, <2>3
    <3> HIDE DEF result, outcome
    <3>2. k # f /\ result[k] # Absent
      BY <3>1, NothingIsSilent
    <3>3. f \in Nat /\ k \in Nat /\ f >= 1 /\ k >= 1
      BY <2>1
    <3>4. ~(k < f)
      BY <2>3, <3>2, <3>3
    <3>5. f \in 1..(k - 1)
      BY <3>2, <3>3, <3>4
    <3>6. QED
      BY <3>1, <3>5
  <2>4. QED
    <3>1. IsSequence(result)
      OBVIOUS
    <3>2. \/ /\ outcome = Absent /\ \A k \in DOMAIN result : result[k] = Absent
          \/ \E f \in DOMAIN result : /\ outcome = result[f] /\ result[f] # Absent
                                      /\ \A j \in 1..(f - 1) : result[j] = Absent
      BY <3>1, FirstPresentIs
    <3>3. QED
      BY <2>2, <2>3, <3>2
<1>7. /\ checks.postalCode = pair[1] /\ checks.line1 = pair[2]
      /\ checks.authenticated = ran /\ checks.result = outcome
  OBVIOUS
<1> HIDE DEF checks, pair, ran, outcome
<1>8. ToldBy(p, checks)
  BY <1>3, <1>4, <1>5, <1>6, <1>7 DEF ToldBy
<1>9. QED
  BY <1>1, <1>8

LEMMA ChargeTells ==
  ASSUME NEW p
  PROVE  StripeChecks(p) = Nothing \/ ToldBy(p, StripeChecks(p))
<1> DEFINE c == p.charge
           checks == [postalCode |-> ParseAvsCheck(c.postalCode), line1 |-> ParseAvsCheck(c.line1),
                      riskLevel |-> ParseRiskLevel(c.riskLevel),
                      authenticated |-> ParseThreeDs(c.authenticated), result |-> c.result]
           place == <<c.postalCode, c.line1>>
<1>1. StripeChecks(p) \in {Nothing, checks}
  BY DEF StripeChecks, FromStripeCharge, Usable
<1>2. /\ checks.postalCode = ParseAvsCheck(c.postalCode) /\ checks.line1 = ParseAvsCheck(c.line1)
      /\ checks.authenticated = ParseThreeDs(c.authenticated) /\ checks.result = c.result
  OBVIOUS
<1>3. place \in Places(p) /\ place[1] = c.postalCode /\ place[2] = c.line1
  BY DEF Places
<1> HIDE DEF checks, place
<1>4. ToldBy(p, checks)
  BY <1>2, <1>3 DEF ToldBy
<1>5. QED
  BY <1>1, <1>4

\* Whoever is asked is one of the payments that stand, if any does.
LEMMA CandidatesAreAsked ==
  ASSUME NEW i \in DOMAIN card.payments, Candidate(card.payments[i], card.payments)
  PROVE  card.payments[i] \in Asked
BY DEF Candidate, Asked, ToSet

CardInv ==
    /\ story = "cards" => card.payments \in Payments
    /\ card.resolved =>
          /\ card.payments \in Payments
          /\ card.checks = ResolveAvsForOrder(card.payments, card.resolver, card.lookup, Channel)

LEMMA CardAlways == Spec => []CardInv
<1>1. Init => CardInv
  <2> SUFFICES ASSUME Init PROVE CardInv
    OBVIOUS
  <2>1. CASE story # "cards" /\ card = NoCard
    <3>1. card.resolved = FALSE
      BY <2>1 DEF NoCard
    <3>2. QED
      BY <2>1, <3>1 DEF CardInv
  <2>2. CASE story = "cards" /\ card \in [payments : Payments, resolver : Resolvers, lookup : BOOLEAN,
                                          resolved : {FALSE}, checks : {Nothing}]
    <3>1. card.payments \in Payments /\ card.resolved = FALSE
      BY <2>2
    <3>2. QED
      BY <3>1 DEF CardInv
  <2>3. QED
    BY <2>1, <2>2 DEF Init
<1>2. ASSUME CardInv, [Next]_vars PROVE CardInv'
  <2>1. CASE UNCHANGED <<story, card>>
    BY <1>2, <2>1 DEF CardInv
  <2>2. CASE story = "cards" /\ ResolveChecks /\ UNCHANGED story
    <3> DEFINE checks == ResolveAvsForOrder(card.payments, card.resolver, card.lookup, Channel)
    <3> HIDE DEF checks
    <3>1. card' = [card EXCEPT !.resolved = TRUE, !.checks = checks]
      BY <2>2 DEF ResolveChecks, checks
    <3>2. card'.payments = card.payments /\ card'.resolver = card.resolver /\ card'.lookup = card.lookup
      BY <3>1
    <3>3. card'.resolved => card'.checks = checks
      BY <3>1
    <3>4. QED
      BY <1>2, <2>2, <3>2, <3>3 DEF CardInv, checks
  <2>3. QED
    BY <1>2, <2>1, <2>2 DEF Next, vars, ListsStory, CountsStory, NetworkStory
<1>3. QED
  BY <1>1, <1>2, PTL DEF Spec

(* The verdicts on postcode and street were told together, by the resolver *)
(* or in one place of one payment that stands; and 3-D Secure counts as    *)
(* failed only if one of those said so and excused it with nothing: for    *)
(* any payments, gateways and channels (avs.ts; fraud-prevention.service.ts*)
(* :963-1027).                                                             *)
THEOREM ChecksAreTold == Spec => []ChecksWereTold
<1>1. ASSUME CardInv PROVE ChecksWereTold
  <2> SUFFICES ASSUME card.resolved PROVE ChecksWereTold
    BY DEF ChecksWereTold
  <2> DEFINE ps == card.payments
             metadata(p) == IF Candidate(p, ps) THEN FromMetadata(p.metadata) ELSE Nothing
             stripe(p) == IF Candidate(p, ps) /\ HasKey(p, Channel) THEN StripeChecks(p) ELSE Nothing
             tells == FirstUsable([i \in DOMAIN ps |-> metadata(ps[i])])
             fetched == FirstUsable([i \in DOMAIN ps |-> stripe(ps[i])])
  <2>1. /\ DOMAIN ps = 1..Len(ps) /\ Len(ps) \in Nat
        /\ \A i \in DOMAIN ps :
              LET p == ps[i] IN
              /\ IsSequence(p.metadata.avs) /\ p.metadata.avs # <<>>
              /\ IsSequence(p.metadata.authenticated) /\ IsSequence(p.metadata.result)
    <3>1. ps \in Payments
      BY <1>1 DEF CardInv
    <3>2. IsSequence(ps) /\ \A i \in DOMAIN ps : ps[i] \in ToSet(ps)
      BY <3>1, PaymentsAssumption DEF ToSet
    <3>3. DOMAIN ps = 1..Len(ps) /\ Len(ps) \in Nat
      BY <3>2 DEF IsSequence
    <3>4. QED
      BY <3>1, <3>2, <3>3, PaymentsAssumption
  <2>2. card.checks \in {Nothing, card.resolver, tells, fetched}
    BY <1>1 DEF CardInv, ResolveAvsForOrder
  <2>3. ASSUME NEW answers, DOMAIN answers = DOMAIN ps, NEW first, first = FirstUsable(answers),
               \A i \in DOMAIN ps : answers[i] = Nothing \/ \E p \in Asked : ToldBy(p, answers[i])
        PROVE  first = Nothing \/ \E p \in Asked : ToldBy(p, first)
    <3>1. Len(answers) = Len(ps)
      BY <2>1, <2>3
    <3>2. QED
      BY <2>1, <2>3, <3>1, FirstUsableIs
  <2>4. tells = Nothing \/ \E p \in Asked : ToldBy(p, tells)
    <3>1. ASSUME NEW i \in DOMAIN ps
          PROVE  metadata(ps[i]) = Nothing \/ \E p \in Asked : ToldBy(p, metadata(ps[i]))
      BY <2>1, MetadataTells, CandidatesAreAsked
    <3> DEFINE answers == [i \in DOMAIN ps |-> metadata(ps[i])]
    <3> HIDE DEF metadata
    <3>2. QED
      BY <2>3, <3>1
  <2>5. fetched = Nothing \/ \E p \in Asked : ToldBy(p, fetched)
    <3>1. ASSUME NEW i \in DOMAIN ps
          PROVE  stripe(ps[i]) = Nothing \/ \E p \in Asked : ToldBy(p, stripe(ps[i]))
      BY ChargeTells, CandidatesAreAsked
    <3> HIDE DEF stripe
    <3>2. QED
      BY <2>3, <3>1
  <2> HIDE DEF tells, fetched
  <2>6. CASE card.checks = Nothing
    BY <2>6, NothingIsSilent DEF ChecksWereTold, CardSignals, ThreeDsFailed
  <2>7. CASE card.checks = card.resolver
    BY <2>7 DEF ChecksWereTold, CardSignals, ThreeDsFailed
  <2>8. ASSUME NEW p \in Asked, ToldBy(p, card.checks)
        PROVE  ChecksWereTold
    BY <2>8 DEF ChecksWereTold, CardSignals, ThreeDsFailed, ToldBy
  <2>9. QED
    BY <2>2, <2>4, <2>5, <2>6, <2>7, <2>8
<1>2. QED
  BY <1>1, CardAlways, PTL

=============================================================================
