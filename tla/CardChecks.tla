----------------------------- MODULE CardChecks -----------------------------
(***************************************************************************)
(* What the issuer, Radar and 3-D Secure say of an order's card: avs.ts,   *)
(* and the order of trust in which resolveAvsForOrder asks for it.         *)
(*                                                                         *)
(* A raw value of a gateway is a verdict in one of its spellings, a text   *)
(* nobody knows ("unknown word") or Absent.  Where the code looks in       *)
(* several places of a metadata blob, the blob is the sequence of what is  *)
(* there.                                                                  *)
(***************************************************************************)
EXTENDS Integers, SequencesExt

Absent == "absent"

(* The words of the gateways, trimmed and in lower case.                   *)
AvsWords ==
    [pass        |-> {"pass", "passed", "match", "matched", "matches", "y", "yes", "ok", "true", "1"},
     fail        |-> {"fail", "failed", "mismatch", "no_match", "nomatch", "no-match",
                      "n", "no", "false", "0"},
     unavailable |-> {"unavailable", "unsupported", "not_supported", "u", "x", "g", "s", "r"},
     unchecked   |-> {"unchecked", "not_checked", "notchecked", "skipped", "none", "null"}]
RadarWords ==
    [normal       |-> {"normal", "low", "ok"},
     elevated     |-> {"elevated", "medium", "moderate"},
     highest      |-> {"highest", "high", "critical"},
     not_assessed |-> {"not_assessed", "unassessed", "not_evaluated", "skipped"},
     unknown      |-> {"unknown"}]
ThreeDsWords ==
    [true  |-> {"true", "yes", "y", "1", "authenticated", "pass", "passed", "succeeded"},
     false |-> {"false", "no", "n", "0", "failed", "fail", "unauthenticated"}]
Benign == {"attempt_acknowledged", "exempted", "not_supported", "authenticated"}

Nothing == [postalCode |-> Absent, line1 |-> Absent, riskLevel |-> Absent,
            authenticated |-> Absent, result |-> Absent]

\* The verdict that a word stands for; none if nobody knows the word.
Reading(words, raw) ==
    IF \E v \in DOMAIN words : raw \in words[v]
    THEN CHOOSE v \in DOMAIN words : raw \in words[v] ELSE Absent

ParseAvsCheck(raw)  == Reading(AvsWords, raw)
ParseRiskLevel(raw) == Reading(RadarWords, raw)
ParseThreeDs(raw)   == Reading(ThreeDsWords, raw)

\* The first of a sequence that is wanted.
FirstWith(s, Wanted(_), none) ==
    LET i == SelectInSeq(s, Wanted) IN IF i = 0 THEN none ELSE s[i]

\* The first that is there, known or not: a ?? b ?? c.
FirstPresent(raws) == FirstWith(raws, LAMBDA raw : raw # Absent, Absent)

ThreeDsFailed(checks) ==
    checks.authenticated = "false" /\ checks.result \notin Benign

HasAnyCheck(checks) ==
    \E field \in {"postalCode", "line1", "riskLevel", "authenticated"} :
        checks[field] # Absent

Usable(checks) == IF HasAnyCheck(checks) THEN checks ELSE Nothing

(* A charge: the two checks, the outcome and what 3-D Secure says of it.   *)
FromStripeCharge(charge) ==
    Usable([postalCode    |-> ParseAvsCheck(charge.postalCode),
            line1         |-> ParseAvsCheck(charge.line1),
            riskLevel     |-> ParseRiskLevel(charge.riskLevel),
            authenticated |-> ParseThreeDs(charge.authenticated),
            result        |-> charge.result])

-----------------------------------------------------------------------------
(* Metadata: avs is the sequence of places a pair of AVS results is looked *)
(* for; of the others the first present value is the one.                  *)

NoPair == <<Absent, Absent>>

\* Mutant: each of the two verdicts from the first place that has it.
AvsPairApart(avs) ==
    LET first(i) == FirstWith(avs, LAMBDA pair : ParseAvsCheck(pair[i]) # Absent, NoPair)[i]
    IN <<ParseAvsCheck(first(1)), ParseAvsCheck(first(2))>>

\* The first place with a verdict on either.
AvsPair(avs) ==
    LET told(pair) == \E i \in {1, 2} : ParseAvsCheck(pair[i]) # Absent
        place == FirstWith(avs, told, NoPair)
    IN <<ParseAvsCheck(place[1]), ParseAvsCheck(place[2])>>

FromMetadata(metadata) ==
    LET pair == AvsPair(metadata.avs) IN
    Usable([postalCode    |-> pair[1],
            line1         |-> pair[2],
            riskLevel     |-> ParseRiskLevel(FirstPresent(metadata.riskLevel)),
            authenticated |-> ParseThreeDs(FirstPresent(metadata.authenticated)),
            result        |-> FirstPresent(metadata.result)])

-----------------------------------------------------------------------------
(* fetchStripeCardChecks: what its requests come to.  The intent comes     *)
(* with its charge or with the charge's id only, which is another request; *)
(* a request that fails, is refused or takes longer than its deadline      *)
(* answers nothing.                                                        *)
StripeChecks(payment) ==
    IF \/ payment.intent = "expanded"
       \/ payment.intent = "id only" /\ payment.chargeAnswers
    THEN FromStripeCharge(payment.charge) ELSE Nothing

\* The method's key of the order's channel, or of the only method there is.
HasKey(payment, channel) ==
    \/ channel \in payment.methodChannels
    \/ payment.methods = 1

FirstUsable(results) == FirstWith(results, HasAnyCheck, Nothing)

Live(payment) == payment.state \in {"Settled", "Authorized"}

\* Those that stand, if any does; all of them otherwise.
Candidate(payment, payments) ==
    (\E i \in DOMAIN payments : Live(payments[i])) => Live(payment)

(* A resolver of the host, the metadata, and Stripe if the channel says    *)
(* so.  Who is no candidate, or has no key, is passed over.                *)
ResolveAvsForOrder(payments, resolver, lookup, channel) ==
    LET metadata(p) == IF Candidate(p, payments) THEN FromMetadata(p.metadata) ELSE Nothing
        stripe(p)   == IF Candidate(p, payments) /\ HasKey(p, channel) THEN StripeChecks(p) ELSE Nothing
        told        == FirstUsable([i \in DOMAIN payments |-> metadata(payments[i])])
        fetched     == FirstUsable([i \in DOMAIN payments |-> stripe(payments[i])]) IN
    CASE HasAnyCheck(resolver) -> resolver
      [] ~HasAnyCheck(resolver) /\ HasAnyCheck(told) -> told
      [] OTHER -> IF lookup THEN fetched ELSE Nothing

\* The signals that the checks raise.
CardSignals(enforce3dSecure, checks) ==
    [avs_postcode_fail   |-> checks.postalCode = "fail",
     avs_address_fail    |-> checks.line1 = "fail",
     radar_risk_highest  |-> checks.riskLevel = "highest",
     radar_risk_elevated |-> checks.riskLevel = "elevated",
     three_ds_failed     |-> enforce3dSecure /\ ThreeDsFailed(checks)]

=============================================================================
