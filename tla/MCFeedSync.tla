----------------------------- MODULE MCFeedSync -----------------------------
(* The feed sync on one source of at most two lines.                       *)
EXTENDS FeedSync

CONSTANTS a, b, cron, admin, server, worker

AB        == {a, b}
Growing   == {{a}, {a, b}}
RunsIn    == [c \in Callers |-> IF c = cron THEN worker ELSE server]
Trouble(change, fault, restart, unguarded, edit) ==
    [change |-> change, fault |-> fault, restart |-> restart, unguarded |-> unguarded, edit |-> edit]

\* Whatever befalls syncs that take the lock, or one that does not; edits of a custom feed
\* with a failing statement, or with a restart.
Everything == {Trouble(1, 2, 1, 0, 0), Trouble(2, 0, 0, 0, 0), Trouble(0, 0, 0, 1, 0), Trouble(0, 1, 0, 0, 2), Trouble(0, 2, 0, 0, 1), Trouble(0, 0, 1, 0, 3)}
CutShort   == {Trouble(1, 0, 1, 0, 0)}

\* The cron comes round; administrators may stay away.
NightlySpec == Spec /\ Fairness({cron})

=============================================================================
