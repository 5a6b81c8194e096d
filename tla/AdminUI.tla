------------------------------ MODULE AdminUI ------------------------------
(***************************************************************************)
(* The administrator's screen: a component whose handlers send requests    *)
(* and whose answers come back in any order, while the administrator goes  *)
(* on clicking.  Nothing cancels a request; an answer is applied to        *)
(* whatever the screen has become.                                         *)
(***************************************************************************)
EXTENDS Integers, FiniteSets

CONSTANTS Shops,       \* channels that can be chosen
          QueueCases,  \* cases in the review queue
          MaxAsked,    \* bound: requests of one kind in flight
          Attempts,    \* 40: polls for a server that restarts
          MaxClicks    \* bound: purchases, saves and failures

ASSUME ScreenAssumption ==
    /\ Shops # {} \* the default channel
    /\ MaxAsked \in Nat /\ Attempts \in Nat /\ MaxClicks \in Nat

VARIABLES claim,   \* the purchase: timers, requests, what the server knows
          update,  \* the update of the plugin
          queue,   \* decisions sent from the review queue
          texts,   \* the messages to customers of the chosen channel
          edits    \* the settings of every channel on the screen

screenVars == <<claim, update, queue, texts, edits>>

-----------------------------------------------------------------------------
(* Buying a licence.  While the purchase is pending an interval polls for  *)
(* it; the number of intervals that run, and whether claimTimer names one. *)

ClaimInit ==
    claim = [server |-> "none", running |-> 0, named |-> FALSE, asked |-> 0,
             told |-> [none |-> 0, pending |-> 0, installed |-> 0],
             open |-> TRUE, buying |-> "no", buys |-> 0]

\* Mutant: the timer that runs is not cleared first.
StartedAnother(c) == [c EXCEPT !.running = @ + 1, !.named = TRUE]

Stopped(c) == IF c.named THEN [c EXCEPT !.running = @ - 1, !.named = FALSE] ELSE c

Started(c) == [Stopped(c) EXCEPT !.running = @ + 1, !.named = TRUE]

\* The buttons are greyed out until the link is answered.
BuyLicence ==
    /\ claim.open /\ claim.buying = "no" /\ claim.buys < MaxClicks
    /\ claim' = [claim EXCEPT !.buying = "asked", !.buys = @ + 1]

(* The server notes the purchase before it answers with the link.          *)
Linked ==
    /\ claim.buying = "asked"
    /\ claim' = [claim EXCEPT !.buying = "linked", !.server = "pending"]

(* The link may come when the screen was left; an error starts no poll.    *)
PurchaseAnswered ==
    \/ /\ claim.buying = "linked"
       /\ claim' = [Started(claim) EXCEPT !.buying = "no"]
    \/ /\ claim.buying # "no"
       /\ claim' = [claim EXCEPT !.buying = "no"]

(* On opening, by hand, or by a timer.                                     *)
CheckClaim ==
    /\ claim.open \/ claim.running > 0
    /\ claim.asked < MaxAsked
    /\ claim' = [claim EXCEPT !.asked = @ + 1]

ServerTells ==
    /\ claim.asked > 0
    /\ claim.told[claim.server] < MaxAsked
    /\ claim' = [claim EXCEPT !.asked = @ - 1, !.told[claim.server] = @ + 1]

\* Mutant: a poll that finds the licence installed goes on.
AppliedWithoutStop(c, state) ==
    IF state = "pending" /\ ~c.named THEN Started(c) ELSE c

Applied(c, state) ==
    IF state # "pending" THEN Stopped(c)
    ELSE IF c.named THEN c ELSE Started(c)

(* Answers come in any order, also after the screen was left.              *)
ClaimAnswered(state) ==
    /\ claim.told[state] > 0
    /\ claim' = Applied([claim EXCEPT !.told[state] = @ - 1], state)

ClaimFails ==
    /\ claim.asked > 0
    /\ claim' = [claim EXCEPT !.asked = @ - 1]

Purchase ==
    /\ claim.server = "pending"
    /\ claim' = [claim EXCEPT !.server = "installed"]

NgOnDestroy ==
    /\ claim.open
    /\ claim' = [Stopped(claim) EXCEPT !.open = FALSE]

ClaimNext == \/ BuyLicence \/ Linked \/ PurchaseAnswered \/ CheckClaim \/ ServerTells \/ ClaimFails \/ Purchase \/ NgOnDestroy
             \/ \E state \in {"none", "pending", "installed"} : ClaimAnswered(state)

Polls == CheckClaim /\ claim.running > 0

(* However answers overtake each other, no interval runs that claimTimer   *)
(* has lost: stopClaimPoll stops them all.                                 *)
OneClaimTimer == claim.running = IF claim.named THEN 1 ELSE 0

-----------------------------------------------------------------------------
(* The update: install, restart, poll until the new version answers.       *)

UpdateInit == update = [at |-> "idle", attempt |-> 0, version |-> "old", runs |-> 0]

RunSelfUpdate ==
    /\ update.at = "idle" /\ update.version = "old" /\ update.runs < MaxClicks
    /\ update' = [update EXCEPT !.at = "installing", !.runs = @ + 1]

Installed ==
    /\ update.at = "installing"
    /\ \E at \in {"waiting", "idle"} : update' = [update EXCEPT !.at = at, !.attempt = 0]

Ask ==
    /\ update.at = "waiting"
    /\ update' = IF update.attempt > Attempts THEN [update EXCEPT !.at = "idle"]
                 ELSE [update EXCEPT !.at = "asking"]

(* An error counts as the old version.                                     *)
MetaAnswered ==
    /\ update.at = "asking"
    /\ \/ /\ update.version = "new"
          /\ update' = [update EXCEPT !.at = "idle"]
       \/ update' = [update EXCEPT !.at = "waiting", !.attempt = @ + 1]

ServerUpdated ==
    /\ update.at \in {"waiting", "asking"} /\ update.version = "old"
    /\ update' = [update EXCEPT !.version = "new"]

UpdateProceeds == Installed \/ Ask \/ MetaAnswered

UpdateNext == RunSelfUpdate \/ UpdateProceeds \/ ServerUpdated

(* Once the licence is installed and nobody buys again, polling ends for   *)
(* good, on a screen that was left as well; and the button of the update   *)
(* comes back, whether the server does or not ("The server has not come    *)
(* back yet", fraud-prevention.component.ts:1494).                         *)
PollsEnd ==
    /\ <>[](claim.server = "installed") => <>[](claim.running = 0)
    /\ []<>(update.at = "idle")

-----------------------------------------------------------------------------
(* The review queue.  One busyCase greys out the buttons of one case.      *)

Nobody == "nobody"

QueueInit ==
    queue = [busy |-> Nobody, sent |-> [c \in QueueCases |-> 0], between |-> {}]

ResolveCase(c) ==
    /\ queue.busy # c
    /\ queue.sent[c] < MaxAsked
    /\ queue' = [queue EXCEPT !.busy = c, !.sent[c] = @ + 1,
          !.between = @ \cup {d \in QueueCases \ {c} : queue.sent[d] > 0}]

(* Whatever is answered, no case is busy any more.                         *)
CaseAnswered(c) ==
    /\ queue.sent[c] > 0
    /\ queue' = [queue EXCEPT !.busy = Nobody, !.sent[c] = @ - 1,
          !.between = {d \in @ \cup (QueueCases \ {c}) : queue.sent[d] > IF d = c THEN 1 ELSE 0}]

QueueNext == \E c \in QueueCases : ResolveCase(c) \/ CaseAnswered(c)

(* From one screen a second decision on a case is sent while the first is  *)
(* under way only if another case was decided, or answered, in between.    *)
OneDecisionAtATime ==
    \A c \in QueueCases : queue.sent[c] > 1 => c \in queue.between

-----------------------------------------------------------------------------
(* The messages.  A load replaces them when it is answered; until then the *)
(* old ones stay, under the new channel.                                   *)

Blank == "blank"

TextsInit ==
    texts = [current |-> CHOOSE s \in Shops : TRUE, shown |-> Blank, dirty |-> FALSE,
             loads |-> [s \in Shops |-> 0], saves |-> 0, resets |-> 0,
             overtaken |-> FALSE, saved |-> Blank, clicks |-> 0]

Loading(t) == \E s \in Shops : t.loads[s] > 0

CanLoad(s) == texts.loads[s] < MaxAsked

\* loadTemplates.
LoadTemplates(t) ==
    [t EXCEPT !.dirty = FALSE, !.loads[t.current] = @ + 1, !.overtaken = @ \/ Loading(t)]

\* Mutant: the other channel is chosen, and the messages stay.
OnChannelChangeOnly(s) ==
    /\ s # texts.current /\ CanLoad(s)
    /\ texts' = [texts EXCEPT !.current = s, !.dirty = FALSE]

OnChannelChange(s) ==
    /\ s # texts.current /\ CanLoad(s)
    /\ texts' = LoadTemplates([texts EXCEPT !.current = s])

\* The settings tab.
Go ==
    /\ CanLoad(texts.current)
    /\ texts' = LoadTemplates(texts)

(* A request that fails leaves everything as it is.                        *)
TemplatesAnswered(s) ==
    /\ texts.loads[s] > 0
    /\ \/ texts' = [texts EXCEPT !.loads[s] = @ - 1, !.shown = s]
       \/ texts' = [texts EXCEPT !.loads[s] = @ - 1, !.overtaken = TRUE]

OnEditorInput ==
    /\ texts.shown # Blank
    /\ texts' = [texts EXCEPT !.dirty = TRUE]

(* Posted under the chosen channel, whichever channel the words are from.  *)
SaveTemplate ==
    /\ texts.shown # Blank /\ texts.dirty
    /\ texts.clicks < MaxClicks
    /\ texts' = [texts EXCEPT !.saves = @ + 1, !.saved = texts.shown, !.clicks = @ + 1]

(* A save that worked loads again, for the channel chosen by then.         *)
SaveTemplateAnswered ==
    /\ texts.saves > 0 /\ CanLoad(texts.current)
    /\ texts' \in {[texts EXCEPT !.saves = @ - 1],
                  LoadTemplates([texts EXCEPT !.saves = @ - 1])}

\* Two messages, or all of them, are reset by a request each.
ResetKinds ==
    /\ texts.resets = 0 /\ texts.clicks < MaxClicks
    /\ texts' = [texts EXCEPT !.resets = 2, !.clicks = @ + 1]

(* The last answer, good or bad, loads again.                              *)
ResetAnswered ==
    /\ texts.resets > 0 /\ CanLoad(texts.current)
    /\ LET answered == [texts EXCEPT !.resets = @ - 1]
       IN texts' = IF texts.resets = 1 THEN LoadTemplates(answered) ELSE answered

TextsNext ==
    \/ \E s \in Shops : OnChannelChange(s) \/ TemplatesAnswered(s)
    \/ Go \/ OnEditorInput
    \/ SaveTemplate \/ SaveTemplateAnswered \/ ResetKinds \/ ResetAnswered

(* Words of one channel are saved under another one only if they were      *)
(* still being loaded, or if of several loads one overtook another or      *)
(* failed.                                                                 *)
WordsStayInChannel ==
    [][SaveTemplate /\ ~Loading(texts) /\ ~texts.overtaken => texts'.saved = texts.current]_texts

-----------------------------------------------------------------------------
(* The settings: which channels' differ, on the screen, from what is       *)
(* stored, and the flag that shows the save bar.  What is beyond bounds on *)
(* the screen is stored within them, and shown on as it was posted.        *)

EditsInit ==
    edits = [current |-> CHOOSE s \in Shops : TRUE, differ |-> {}, dirty |-> FALSE,
             beyond |-> {}, bounded |-> {},
             save |-> Blank, editedSince |-> FALSE, reload |-> FALSE, excused |-> FALSE, clicks |-> 0]

Marked(e) == [e EXCEPT !.dirty = TRUE]

(* applyPreset, setMode and every field of the settings, which may leave   *)
(* values beyond what is stored of them.                                   *)
ApplyPreset ==
    /\ ~edits.reload
    /\ \E beyond \in {edits.beyond \cup {edits.current}, edits.beyond \ {edits.current}} :
        edits' = Marked([edits EXCEPT !.differ = @ \cup {edits.current}, !.editedSince = TRUE,
                            !.beyond = beyond, !.bounded = @ \ {edits.current}])

ChooseChannel(s) ==
    /\ ~edits.reload /\ s # edits.current
    /\ edits' = [edits EXCEPT !.current = s, !.dirty = FALSE,
                              !.excused = @ \/ edits.dirty \/ edits.save # Blank]

Save ==
    /\ ~edits.reload /\ edits.save = Blank /\ edits.dirty /\ edits.clicks < MaxClicks
    /\ edits' = [edits EXCEPT !.save = edits.current, !.editedSince = FALSE, !.clicks = @ + 1]

(* The answer does not tell what was stored, and nothing loads it again.   *)
SaveAnswered ==
    /\ edits.save # Blank
    /\ \/ LET asPosted == {edits.save} \ edits.beyond
              clamped  == {edits.save} \cap edits.beyond
          IN edits' = [edits EXCEPT !.save = Blank, !.dirty = FALSE,
                          !.differ = IF edits.editedSince THEN @ ELSE @ \ asPosted,
                          !.bounded = IF edits.editedSince THEN @ ELSE @ \cup clamped,
                          !.excused = @ \/ edits.editedSince]
       \/ edits' = [edits EXCEPT !.save = Blank]

(* Refresh: the settings are hidden until it is answered.                  *)
ReloadAll ==
    /\ ~edits.reload /\ edits.clicks < MaxClicks
    /\ edits' = [edits EXCEPT !.reload = TRUE, !.dirty = FALSE, !.clicks = @ + 1,
                              !.excused = @ \/ edits.save # Blank]

Reloaded ==
    /\ edits.reload
    /\ \/ edits' = [edits EXCEPT !.reload = FALSE, !.differ = {}, !.beyond = {}, !.bounded = {}]
       \/ edits' = [edits EXCEPT !.reload = FALSE, !.excused = TRUE]

EditsNext == \/ ApplyPreset \/ Save \/ SaveAnswered \/ ReloadAll \/ Reloaded
             \/ \E s \in Shops : ChooseChannel(s)

(* What differs from the stored settings is marked as unsaved, but after a *)
(* change of channel with edits or during a save, an edit during a save,   *)
(* or a reload that is under way, failed or overlaps a save; and but for   *)
(* values that the last save brought within bounds                         *)
(* (fraud-prevention.service.ts:619-628, 656), which the screen shows as   *)
(* they were posted, under "All changes saved" (component 1045).           *)
UnsavedIsMarked ==
    edits.differ \ edits.bounded # {} => edits.dirty \/ edits.reload \/ edits.excused

=============================================================================
