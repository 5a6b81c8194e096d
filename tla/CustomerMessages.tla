-------------------------- MODULE CustomerMessages --------------------------
(***************************************************************************)
(* What customers and the team hear of one order: the guard that places    *)
(* it, administrators and the cron that decide, each with a mail and a     *)
(* call to every webhook of the shop.  Mail servers and webhooks answer,   *)
(* refuse or stay silent; the texts change meanwhile.  The settings come   *)
(* out of a memo (ConfigMemo), so that either answer may be the current    *)
(* one.                                                                    *)
(***************************************************************************)
EXTENDS Integers

CONSTANTS Admins,      \* administrators' requests
          Hooks,       \* Slack, Discord, Teams, Telegram, the generic webhook
          MaxRewrites  \* bound: texts saved and reset

ASSUME MessagesAssumption == {"guard", "cron"} \cap Admins = {} /\ MaxRewrites \in Nat

Deciders == Admins \cup {"cron"}
Actors == Deciders \cup {"guard"}

VARIABLES review, \* the case: its status, and what was ever written there
          shop,   \* the webhooks that are configured; whether the order has an address
          words,  \* the row of texts (0: none), and how often it changed
          hands,  \* where each actor is, and the texts there were since it decided
          calls,  \* webhooks that are waited for
          mails   \* to the team and to the customer, of each actor

messageVars == <<review, shop, words, hands, calls, mails>>

NoMail == [at |-> "none", words |-> 0]

MessagesInit ==
    /\ review = [status |-> "none", written |-> {}]
    /\ shop \in [hooks : {{}, Hooks}, email : BOOLEAN]
    /\ words = [row |-> 0, changes |-> 0]
    /\ hands = [a \in Actors |-> [at |-> "idle", kind |-> "none", since |-> {}]]
    /\ calls = [a \in Actors |-> {}]
    /\ mails = [a \in Actors |-> [team |-> NoMail, customer |-> NoMail]]

Goes(a, at) == hands' = [hands EXCEPT ![a].at = at]

-----------------------------------------------------------------------------
(* Mail.  A message is put together from the row or, without one, from the *)
(* default texts.                                                          *)

Message(text) == [at |-> "sending", words |-> text]

\* The default is also taken when the query of texts fails.
Texts == {words.row, 0}

(* The mail server takes it or refuses it, or none is configured; nobody   *)
(* looks which.                                                            *)
MailAnswered(a, to) ==
    /\ mails[a][to].at = "sending"
    /\ mails' = [mails EXCEPT ![a][to].at = "over"]
    /\ UNCHANGED <<review, shop, words, hands, calls>>

\* Mutant: the deadline is one for connecting only.
DeadlineToConnect(a, to) ==
    /\ mails[a][to].at = "connecting"
    /\ mails' = [mails EXCEPT ![a][to].at = "over"]
    /\ UNCHANGED <<review, shop, words, hands, calls>>

(* 25 seconds; an answer after that is for nobody.                         *)
Deadline(a, to) ==
    /\ mails[a][to].at = "sending"
    /\ mails' = [mails EXCEPT ![a][to].at = "over"]
    /\ UNCHANGED <<review, shop, words, hands, calls>>

-----------------------------------------------------------------------------
(* Webhooks: all are called, then all are waited for, each for at most six *)
(* seconds.                                                                *)

Announce(a) ==
    /\ hands[a].at = "announcing"
    /\ calls' = [calls EXCEPT ![a] = shop.hooks]
    /\ Goes(a, "waiting")
    /\ UNCHANGED <<review, shop, words, mails>>

(* It answers, refuses or is given up.                                     *)
HookSettles(a, h) ==
    /\ h \in calls[a]
    /\ calls' = [calls EXCEPT ![a] = @ \ {h}]
    /\ UNCHANGED <<review, shop, words, hands, mails>>

(* The guard turns to the mails; for the others it was the last thing.     *)
AllSettled(a) ==
    /\ hands[a].at = "waiting" /\ calls[a] = {}
    /\ Goes(a, IF a = "guard" THEN "mailing" ELSE "done")
    /\ UNCHANGED <<review, shop, words, calls, mails>>

-----------------------------------------------------------------------------
(* The guard: the case first, then the webhooks; the mails are started and *)
(* not waited for.                                                         *)

PlaceOrder ==
    /\ hands["guard"].at = "idle"
    /\ \E action \in {"allow", "flag", "shadow", "review", "block"} :
          /\ hands' = [hands EXCEPT !["guard"].kind = action,
                 !["guard"].at = IF action \in {"allow", "flag"} THEN "done" ELSE "announcing",
                 !["guard"].since = {0, words.row}]
          /\ review' = IF action \in {"review", "block"} THEN [review EXCEPT !.status = "pending"] ELSE review
    /\ UNCHANGED <<shop, words, calls, mails>>

(* The team if the settings say so; the customer by the channel's policy.  *)
MailOnHold ==
    /\ hands["guard"].at = "mailing"
    /\ \E wanted \in BOOLEAN, policy \in {"never", "block", "always"}, text \in Texts :
          LET kind == hands["guard"].kind
              told == \/ policy = "always" /\ kind \in {"review", "block"}
                      \/ policy = "block" /\ kind = "block"
          IN mails' = [mails EXCEPT
                 !["guard"].team.at = IF wanted THEN "sending" ELSE @,
                 !["guard"].customer = IF told /\ shop.email THEN Message(text) ELSE @]
    /\ Goes("guard", "done")
    /\ UNCHANGED <<review, shop, words, calls>>

-----------------------------------------------------------------------------
(* A decision: the case is read, written, and what follows is done; then   *)
(* the mail, which is waited for, the lists, and the webhooks.             *)

\* Mutant: a refused decision is told like any other.
LookAndTell(a) ==
    /\ hands[a].at = "idle" /\ review.status # "none"
    /\ \E kind \in IF a = "cron" THEN {"approved"} ELSE {"approved", "rejected"} :
          hands' = [hands EXCEPT ![a].kind = kind,
                        ![a].at = IF review.status = "pending" THEN "deciding" ELSE "telling"]
    /\ UNCHANGED <<review, shop, words, calls, mails>>

Look(a) ==
    /\ hands[a].at = "idle" /\ review.status # "none"
    /\ \E kind \in IF a = "cron" THEN {"approved"} ELSE {"approved", "rejected"} :
          hands' = [hands EXCEPT ![a].kind = kind,
                        ![a].at = IF review.status = "pending" THEN "deciding" ELSE "done"]
    /\ UNCHANGED <<review, shop, words, calls, mails>>

Decide(a) ==
    /\ hands[a].at = "deciding"
    /\ review' = [status |-> hands[a].kind, written |-> review.written \cup {hands[a].kind}]
    /\ hands' = [hands EXCEPT ![a].at = "concluding", ![a].since = {0, words.row}]
    /\ UNCHANGED <<shop, words, calls, mails>>

(* An approval of a case without an address is told to nobody.             *)
Conclude(a) ==
    /\ hands[a].at = "concluding"
    /\ Goes(a, IF shop.email THEN "telling"
               ELSE IF a # "cron" /\ hands[a].kind = "approved" THEN "done" ELSE "announcing")
    /\ UNCHANGED <<review, shop, words, calls, mails>>

(* The administrator's wish or else the settings; the cron always tells.   *)
Tell(a) ==
    /\ hands[a].at = "telling"
    /\ \/ \E text \in Texts : mails' = [mails EXCEPT ![a].customer = Message(text)] /\ Goes(a, "told")
       \/ a # "cron" /\ Goes(a, "announcing") /\ UNCHANGED mails
    /\ UNCHANGED <<review, shop, words, calls>>

Told(a) ==
    /\ hands[a].at = "told" /\ mails[a].customer.at = "over"
    /\ Goes(a, "announcing")
    /\ UNCHANGED <<review, shop, words, calls, mails>>

(* A statement throws, also one that lists a rejected identity, and ends   *)
(* the request, or the cron's run.                                         *)
Throws(a) ==
    /\ \/ hands[a].at \in {"deciding", "concluding"}
       \/ hands[a].at = "announcing" /\ hands[a].kind = "rejected"
    /\ Goes(a, "done")
    /\ UNCHANGED <<review, shop, words, calls, mails>>

-----------------------------------------------------------------------------
(* An administrator saves the texts of the channel or resets them.         *)
Rewrite ==
    /\ words.changes < MaxRewrites
    /\ \E row \in {0, words.changes + 1} \ {words.row} :
          /\ words' = [row |-> row, changes |-> words.changes + 1]
          /\ hands' = [a \in Actors |-> IF hands[a].since = {} THEN hands[a]
                                        ELSE [hands[a] EXCEPT !.since = @ \cup {row}]]
    /\ UNCHANGED <<review, shop, calls, mails>>

Serves(a) ==
    \/ Announce(a) \/ AllSettled(a)
    \/ a = "guard" /\ MailOnHold
    \/ a \in Deciders /\ (Decide(a) \/ Conclude(a) \/ Tell(a) \/ Told(a) \/ Throws(a))
    \/ \E to \in {"team", "customer"} : Deadline(a, to)
    \/ \E h \in Hooks : HookSettles(a, h)

MessagesNext ==
    \/ PlaceOrder \/ Rewrite
    \/ \E a \in Deciders : Look(a)
    \/ \E a \in Actors : Serves(a) \/ \E to \in {"team", "customer"} : MailAnswered(a, to)

-----------------------------------------------------------------------------
(* A customer hears that the order is held only if it was, and of a        *)
(* decision only if it was written, in the default texts or in words the   *)
(* channel had since ("Render + send the customer message for a gating     *)
(* outcome", fraud-prevention.service.ts:1953).                            *)
ToldWhatHappened ==
    \A a \in Actors : mails[a].customer.at # "none" =>
        /\ IF a = "guard" THEN hands[a].kind \in {"review", "block"}
           ELSE hands[a].kind \in review.written
        /\ mails[a].customer.words \in hands[a].since

(* Though mail server and webhooks stay silent for good, every request is  *)
(* answered, the guard gives its slot back, and no mail is waited for      *)
(* without end.                                                            *)
EachAnswers ==
    []<>(\A a \in Actors : /\ hands[a].at \in {"idle", "done"}
                           /\ \A to \in {"team", "customer"} : mails[a][to].at # "sending")

=============================================================================
