---------------------------- MODULE MCAssessment ----------------------------
(* The parts of the assessment on small instances: IPv4 of 3 bits, IPv6 of *)
(* 5, limits of two or three, a day of two hours.                          *)
EXTENDS Assessment

CONSTANTS q1, q2, d1, d2

V4(n) == [form |-> "v4", n |-> n]
V6(n) == [form |-> "v6", n |-> n]

DotFree  == {"gmail"}
Email(dots, tag, domain) == [mailbox |-> "x", dots |-> dots, tag |-> tag, domain |-> domain]
AllEmails == {Email(dots, tag, domain) : dots \in BOOLEAN, tag \in {0, 1}, domain \in {"gmail", "firm"}}
Tagged   == Email(TRUE, 1, "gmail")
Plain    == Email(FALSE, 0, "gmail")

AllClients   == {V4(n) : n \in 0..7} \cup {[form |-> "dotted", n |-> n] : n \in 0..7}
                    \cup {V6(n) : n \in 0..23}
ListedIps    == {[form |-> "dotted", n |-> 6]}
ListedMails  == {Email(TRUE, 0, "gmail")}
AllRanges    == [base : Address, bits : {Bare} \cup 0..6]
SomeRanges   == {[base |-> V4(6), bits |-> 2], [base |-> [form |-> "dotted", n |-> 6], bits |-> 3]}
RejectedMail == [r \in Rejections |-> IF r = q1 THEN Tagged ELSE Plain]
RejectedFrom == [r \in Rejections |-> [form |-> "dotted", n |-> 6]]
FromFeeds    == {[id |-> 1, list |-> "blocklist", type |-> "ip", value |-> V4(3), source |-> "tor"]}

BothForms  == {V4(5), [form |-> "dotted", n |-> 5]}
PlainHost  == {V4(5)}
EitherForm == [o \in Orders |-> IF o = 2 THEN BothForms ELSE PlainHost]
Mail(n)    == [mailbox |-> n, dots |-> FALSE, tag |-> 0, domain |-> "gmail"]
FirstOrOwn == [o \in Orders |-> IF o = 3 THEN {Mail(1), Mail(3)} ELSE {Mail(o)}]
TwoAnHour  == [DefaultConfig EXCEPT !.maxOrdersPerIpPerHour = 2, !.maxOrdersPerIpPerDay = 3]

Strict == [DefaultConfig EXCEPT !.blockVpnProxy = TRUE, !.blockHighRiskCountries = TRUE]
Tame   == [Strict EXCEPT !.signalWeights = [vpn_proxy |-> 50, blocklist_email_domain |-> 0]]
BothConfigs == {DefaultConfig, Strict, Tame}

NoWord   == <<Absent, Absent>>
Pairs    == {NoWord, <<"n", Absent>>, <<Absent, "matched">>, <<"maybe", "no_match">>, <<"y", "fail">>}
Outcomes == {<<Absent, Absent>>, <<Absent, "exempted">>, <<"failed", Absent>>, <<"failed", "exempted">>}
Blank    == [avs |-> <<NoWord, NoWord>>, riskLevel |-> <<Absent>>,
             authenticated |-> <<Absent>>, result |-> <<Absent, Absent>>]
Metadata == {[Blank EXCEPT !.avs = <<first, second>>] : first, second \in Pairs}
                \cup {[Blank EXCEPT !.authenticated = <<"no">>, !.result = outcome] : outcome \in Outcomes}
                \cup {[Blank EXCEPT !.riskLevel = <<"medium">>]}
Charges  == {Nothing, [Nothing EXCEPT !.postalCode = "fail", !.riskLevel = "high"],
             [Nothing EXCEPT !.authenticated = "false", !.result = "attempt_acknowledged"]}
Payment(state, metadata, intent, answers, charge, channels) ==
    [state |-> state, metadata |-> metadata, intent |-> intent, chargeAnswers |-> answers,
     charge |-> charge, methodChannels |-> channels, methods |-> 2]
AnyPayment ==
    {Payment(state, metadata, "none", FALSE, Nothing, {}) :
        state \in {"Settled", "Declined"}, metadata \in Metadata}
    \cup {Payment("Settled", Blank, intent, answers, charge, channels) :
             intent \in {"expanded", "id only"}, answers \in BOOLEAN, charge \in Charges,
             channels \in {{"shop"}, {"other"}}}
UpToTwo == {<<>>} \cup {<<p>> : p \in AnyPayment} \cup {<<p, q>> : p, q \in AnyPayment}
HostSays == {Nothing, [Nothing EXCEPT !.postalCode = "pass"]}

=============================================================================
