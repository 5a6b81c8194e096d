---------------------------- MODULE RiskScoring ----------------------------
(***************************************************************************)
(* From what is known of an order to its score and level: the rules of     *)
(* assess, the default weights and limits.  What is known is a record, a   *)
(* field for each thing a rule looks at; amounts are in hundreds of        *)
(* pounds.                                                                 *)
(***************************************************************************)
EXTENDS CardChecks, FiniteSetsExt

DefaultWeights ==
    [disposable_email |-> 50, vpn_proxy |-> 35, hosting_ip |-> 30, geo_mismatch |-> 30,
     email_no_mx |-> 45, identity_fanout |-> 45, gibberish_email |-> 10,
     country_mismatch |-> 10, returning_customer_2 |-> -12, returning_customer_3plus |-> -25,
     blocklist_email |-> 60, blocklist_email_domain |-> 45, blocklist_ip |-> 55,
     blocklist_ip_range |-> 55, ip_velocity_hour |-> 40, ip_velocity_day |-> 30,
     ip_velocity_warm |-> 15, email_velocity_day |-> 35, email_value_day |-> 30,
     order_value |-> 25, high_risk_country |-> 40, failed_payments |-> 45,
     plus_addressing |-> 12, new_customer_high_value |-> 18, avs_postcode_fail |-> 35,
     avs_address_fail |-> 20, postcode_mismatch |-> 8, radar_risk_elevated |-> 15,
     radar_risk_highest |-> 35, three_ds_failed |-> 10]

SignalKeys == DOMAIN DefaultWeights

DefaultConfig ==
    [reviewThreshold |-> 40, blockThreshold |-> 70,
     maxOrdersPerIpPerHour |-> 5, maxOrdersPerIpPerDay |-> 20, maxOrdersPerEmailPerDay |-> 10,
     maxDailyValuePerEmail |-> 100, maxOrderValue |-> 50, requireEmailVerificationAbove |-> 10,
     blockDisposableEmails |-> TRUE, blockVpnProxy |-> FALSE, blockHighRiskCountries |-> FALSE,
     enforce3dSecure |-> TRUE, maxFailedPaymentsPerIpPerHour |-> 3, signalWeights |-> <<>>]

\* An order nothing is known against.
Unsuspicious ==
    [emailRows |-> 0, domainRows |-> 0, ipListed |-> "no", disposable |-> FALSE, plus |-> FALSE,
     hour |-> 1, day |-> 1, emailOrders |-> 1, emailValue |-> 1, identities |-> 1,
     resolved |-> TRUE, vpn |-> FALSE, hosting |-> FALSE, elsewhere |-> FALSE, mx |-> "yes",
     gibberish |-> FALSE, countriesDiffer |-> FALSE, postcodesDiffer |-> FALSE,
     checks |-> Nothing, value |-> 1, settled |-> 0, highRisk |-> FALSE, failed |-> 0]

-----------------------------------------------------------------------------
Weight(cfg, key) ==
    IF key \in DOMAIN cfg.signalWeights THEN cfg.signalWeights[key] ELSE DefaultWeights[key]

\* Math.ceil(limit * 0.7)
Warm(limit) == (7 * limit + 9) \div 10

\* Mutant: the postcodes are compared whatever the countries are, the countries no more.
ShippingSignalsSwapped(ev) ==
    [country_mismatch  |-> ev.countriesDiffer /\ ~ev.postcodesDiffer,
     postcode_mismatch |-> ev.postcodesDiffer]

ShippingSignals(ev) ==
    [country_mismatch  |-> ev.countriesDiffer,
     postcode_mismatch |-> ~ev.countriesDiffer /\ ev.postcodesDiffer]

IdentitySignals(cfg, ev) ==
    [blocklist_email        |-> ev.emailRows > 0,
     blocklist_email_domain |-> ev.domainRows > 0,
     blocklist_ip           |-> ev.ipListed = "exact",
     blocklist_ip_range     |-> ev.ipListed = "range",
     disposable_email       |-> /\ cfg.blockDisposableEmails /\ ev.disposable
                                /\ ev.domainRows = 0 \/ Weight(cfg, "blocklist_email_domain") = 0,
     plus_addressing        |-> ev.plus,
     email_no_mx            |-> ev.mx = "no",
     gibberish_email        |-> ev.gibberish]

VelocitySignals(cfg, ev) ==
    [ip_velocity_hour   |-> ev.hour >= cfg.maxOrdersPerIpPerHour,
     ip_velocity_warm   |-> ev.hour \in Warm(cfg.maxOrdersPerIpPerHour)..(cfg.maxOrdersPerIpPerHour - 1),
     ip_velocity_day    |-> ev.day >= cfg.maxOrdersPerIpPerDay,
     email_velocity_day |-> ev.emailOrders >= cfg.maxOrdersPerEmailPerDay,
     email_value_day    |-> ev.emailValue + ev.value > cfg.maxDailyValuePerEmail,
     identity_fanout    |-> ev.identities >= 3,
     failed_payments    |-> ev.failed >= cfg.maxFailedPaymentsPerIpPerHour]

AddressSignals(cfg, ev) ==
    [vpn_proxy         |-> cfg.blockVpnProxy /\ ev.resolved /\ ev.vpn,
     hosting_ip        |-> cfg.blockVpnProxy /\ ev.resolved /\ ev.hosting /\ ~ev.vpn,
     geo_mismatch      |-> ev.resolved /\ ev.elsewhere,
     high_risk_country |-> cfg.blockHighRiskCountries /\ ev.highRisk]

HistorySignals(cfg, ev) ==
    [returning_customer_3plus |-> ev.settled >= 3,
     returning_customer_2     |-> ev.settled \in {1, 2},
     new_customer_high_value  |-> ev.settled = 0 /\ ev.value > cfg.requireEmailVerificationAbove,
     order_value              |-> ev.value > cfg.maxOrderValue]

Signals(cfg, ev) ==
    UNION {{key \in DOMAIN group : group[key]} :
        group \in {IdentitySignals(cfg, ev), VelocitySignals(cfg, ev), AddressSignals(cfg, ev),
                   ShippingSignals(ev), HistorySignals(cfg, ev),
                   CardSignals(cfg.enforce3dSecure, ev.checks)}}

\* A signal is pushed once, but those of the e-mail lists once for every row.
Times(ev, key) ==
    CASE key = "blocklist_email"        -> ev.emailRows
      [] key = "blocklist_email_domain" -> ev.domainRows
      [] OTHER                          -> 1

Clamp(low, n, high) == IF n < low THEN low ELSE IF n > high THEN high ELSE n

Score(cfg, ev) ==
    Clamp(0, SumFunction([key \in Signals(cfg, ev) |-> Times(ev, key) * Weight(cfg, key)]), 100)

Level(cfg, ev) ==
    LET score == Score(cfg, ev) IN
    CASE score >= cfg.blockThreshold -> "blocked"
      [] cfg.reviewThreshold <= score /\ score < cfg.blockThreshold -> "review"
      [] OTHER -> IF score >= cfg.reviewThreshold \div 2 THEN "medium" ELSE "low"

=============================================================================
