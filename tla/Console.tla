------------------------------ MODULE Console ------------------------------
(***************************************************************************)
(* What administrators set and see, and what customers hear: settings and  *)
(* their memo, the licence, the screens, the messages.  The parts share no *)
(* state; a behaviour tells one story, about one of them, chosen at the    *)
(* start.                                                                  *)
(***************************************************************************)
EXTENDS ConfigMemo, Licence, AdminUI, OrderPanel, CustomerMessages

CONSTANT Stories \* the stories told

VARIABLE story

vars == <<story, memoVars, licenceVars, screenVars, panel, messageVars>>

Init ==
    /\ story \in Stories
    /\ MemoInit /\ LicenceInit /\ PanelInit
    /\ ClaimInit /\ UpdateInit /\ QueueInit /\ TextsInit /\ EditsInit
    /\ MessagesInit
    /\ story # "licence" => env = NoKey
    /\ story # "messages" => shop = [hooks |-> {}, email |-> FALSE]
    /\ story # "memo" => memoTrouble.key = "config"

Elsewhere == <<memoVars, licenceVars, panel, messageVars>>

Next ==
    /\ \/ story = "memo" /\ MemoNext(Server) /\ UNCHANGED <<licenceVars, screenVars, panel, messageVars>>
       \/ story = "licence" /\ LicenceNext /\ UNCHANGED <<memoVars, screenVars, panel, messageVars>>
       \/ story = "claim" /\ ClaimNext /\ UNCHANGED <<Elsewhere, update, queue, texts, edits>>
       \/ story = "update" /\ UpdateNext /\ UNCHANGED <<Elsewhere, claim, queue, texts, edits>>
       \/ story = "queue" /\ QueueNext /\ UNCHANGED <<Elsewhere, claim, update, texts, edits>>
       \/ story = "texts" /\ TextsNext /\ UNCHANGED <<Elsewhere, claim, update, queue, edits>>
       \/ story = "edits" /\ EditsNext /\ UNCHANGED <<Elsewhere, claim, update, queue, texts>>
       \/ story = "panel" /\ PanelNext /\ UNCHANGED <<memoVars, licenceVars, screenVars, messageVars>>
       \/ story = "messages" /\ MessagesNext /\ UNCHANGED <<memoVars, licenceVars, screenVars, panel>>
    /\ UNCHANGED story

(* Timers fire, and the browser ends every request with an answer or an    *)
(* error; an installed licence is told sooner or later.  A handler whose   *)
(* statement or timer has answered goes on.                                *)
Fairness ==
    /\ WF_vars(UpdateProceeds /\ UNCHANGED <<story, Elsewhere, claim, queue, texts, edits>>)
    /\ WF_vars(Polls /\ UNCHANGED <<story, Elsewhere, update, queue, texts, edits>>)
    /\ SF_vars(ServerTells /\ UNCHANGED <<story, Elsewhere, update, queue, texts, edits>>)
    /\ \A state \in {"none", "pending", "installed"} :
          SF_vars(ClaimAnswered(state) /\ UNCHANGED <<story, Elsewhere, update, queue, texts, edits>>)
    /\ WF_vars((\E a \in Actors : Serves(a)) /\ UNCHANGED <<story, memoVars, licenceVars, screenVars, panel>>)

Spec == Init /\ [][Next]_vars /\ Fairness

-----------------------------------------------------------------------------
(* The screens keep track of what goes on behind them, however answers     *)
(* overtake each other and clicks: of the interval that polls, of the      *)
(* decision under way, of what is not saved, and of the order that is      *)
(* shown; up to what each part excepts.                                    *)
ScreensKeepTrack ==
    /\ OneClaimTimer
    /\ OneDecisionAtATime
    /\ UnsavedIsMarked
    /\ ShownWhereItBelongs

=============================================================================
