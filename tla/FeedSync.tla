------------------------------ MODULE FeedSync ------------------------------
(***************************************************************************)
(* The threat-feed sync.  A sync fetches each source's list, and unless    *)
(* the list is the one it stored last time, stores it next to the old rows *)
(* under a staging key, deletes the old rows and renames the new ones, in  *)
(* chunks of ids and statement by statement, while orders are being scored *)
(* against the table.                                                      *)
(*                                                                         *)
(* syncAll (the nightly cron of a worker, or an administrator on the       *)
(* server) is kept from overlapping another one by a flag in its process   *)
(* and an advisory lock of the database.  The sync of a single source,     *)
(* which an administrator starts on its button, takes neither, and a       *)
(* syncAll whose lock query fails goes on without the lock: "unguarded"    *)
(* counts those.                                                           *)
(*                                                                         *)
(* Custom feeds are sources that administrators add, switch off and on and *)
(* remove, in a table of their own, while syncs are under way.             *)
(***************************************************************************)
EXTENDS Integers, FiniteSetsExt, Functions

CONSTANTS Sources,      \* the lists
          CustomFeeds,  \* those of them that administrators add; the others are built in
          Values,       \* addresses, ranges and domains a list may hold
          Contents,     \* what a list may hold at a time
          Processes,    \* server and worker processes
          Callers,      \* the nightly cron and administrators
          Administrators, \* those of them who may sync a single source
          ProcessOf,    \* the process each of them is served by
          IdChunk,      \* ids per DELETE or UPDATE (2000 in the code)
          BatchSize,    \* rows per INSERT (500 in the code)
          MaxRows,      \* bound: ids in use at a time
          NoSource, NoCaller, NoState,
          Scenarios     \* bound: how often each kind of trouble happens at most

\* A list is edited; a sync runs without the lock; a statement fails; a process
\* dies; an administrator edits the table of custom feeds.
Kinds == {"change", "unguarded", "fault", "restart", "edit"}

ASSUME FeedAssumption ==
    /\ IsFiniteSet(Values) /\ Contents \subseteq SUBSET Values
    /\ Administrators \subseteq Callers /\ CustomFeeds \subseteq Sources
    /\ ProcessOf \in [Callers -> Processes]
    /\ IdChunk \in Nat \ {0} /\ BatchSize \in Nat \ {0} /\ MaxRows \in Nat
    /\ NoSource \notin Sources /\ NoCaller \notin Callers /\ NoState \notin Contents
    /\ Scenarios \subseteq [Kinds -> Nat]

VARIABLES blocklist,   \* fraud_blocklist, the rows of the sources
          feedState,   \* fraud_feed_state, whose hash stands for the content
          customFeed,  \* fraud_custom_feed: the feeds there and whether enabled
          tangled,     \* feeds whose removal and a sync of theirs have overlapped
          published,   \* what each source's address answers
          job,         \* where each caller is, and its local variables
          inFlight,    \* syncInFlight of each process
          lockHolder,  \* whose session holds the advisory lock
          trouble      \* how often each kind of trouble has happened

vars == <<blocklist, feedState, customFeed, tangled, published, job, inFlight, lockHolder, trouble>>

Places == {"idle", "locking", "choosing", "walking", "opening", "fetching", "comparing",
           "counting", "unstaging", "deletingStaged", "staging", "retiring", "deletingLive",
           "promoting", "renaming", "forgetting", "recording", "reporting", "failing",
           "unlocking", "removing"}

RowIds == 1..MaxRows

Row == [id : RowIds, source : Sources, staged : BOOLEAN, value : Values]

Job == [at : Places, all : BOOLEAN, source : Sources \cup {NoSource}, todo : SUBSET Sources,
        data : SUBSET Values, left : SUBSET Values, picked : SUBSET RowIds]

TypeOK ==
    /\ blocklist \subseteq Row
    /\ \A r, q \in blocklist : r.id = q.id => r = q
    /\ feedState \in [Sources -> Contents \cup {NoState}]
    /\ customFeed \in [CustomFeeds -> {"absent", "on", "off", "removed"}]
    /\ tangled \subseteq CustomFeeds
    /\ published \in [Sources -> Contents]
    /\ job \in [Callers -> Job]
    /\ inFlight \in [Processes -> BOOLEAN]
    /\ lockHolder \in Callers \cup {NoCaller}
    /\ trouble \in [Kinds -> Nat]

Idle == [at |-> "idle", all |-> FALSE, source |-> NoSource, todo |-> {},
         data |-> {}, left |-> {}, picked |-> {}]

Init ==
    /\ blocklist = {}
    /\ feedState = [s \in Sources |-> NoState]
    /\ customFeed = [s \in CustomFeeds |-> "absent"]
    /\ tangled = {}
    /\ published \in [Sources -> Contents]
    /\ \A s \in CustomFeeds : published[s] = CHOOSE content \in Contents : TRUE
    /\ job = [c \in Callers |-> Idle]
    /\ inFlight = [p \in Processes |-> FALSE]
    /\ lockHolder = NoCaller
    /\ trouble = [k \in Kinds |-> 0]

-----------------------------------------------------------------------------
At(c, place) == job[c].at = place

Goto(c, place) == job' = [job EXCEPT ![c].at = place]

GotoWith(c, place, ids) == job' = [job EXCEPT ![c].at = place, ![c].picked = ids]

Happens(kind) ==
    /\ trouble' = [trouble EXCEPT ![kind] = @ + 1]
    /\ \E most \in Scenarios : \A k \in Kinds : trouble'[k] <= most[k]

\* Off to the next source, or back to the caller.
NextJob(c) ==
    IF job[c].all
    THEN [Idle EXCEPT !.at = IF job[c].source \in CustomFeeds THEN "walking" ELSE "choosing",
                      !.all = TRUE, !.todo = job[c].todo]
    ELSE Idle

Done(c) == job' = [job EXCEPT ![c] = NextJob(c)]

\* What an exception of a custom feed's own queries ends: the whole sync.
Escape(c) == job' = [job EXCEPT ![c] = [NextJob(c) EXCEPT !.todo = {}]]

\* A custom feed is told how its sync went.
Stored(c) == IF job[c].source \in CustomFeeds THEN Goto(c, "reporting") ELSE Done(c)

\* Mutant: the rows of any key that begins like the source's.
KeyIdsLike(s, staged) ==
    {r.id : r \in {q \in blocklist : q.source = s /\ (staged => q.staged)}}

KeyIds(s, staged) ==
    {r.id : r \in {q \in blocklist : q.source = s /\ q.staged = staged}}

\* SELECT id ... ORDER BY id LIMIT: the oldest rows.
Chunk(ids) == {i \in ids : Cardinality({j \in ids : j < i}) < IdChunk}

Batches(lines) ==
    kSubset(IF Cardinality(lines) < BatchSize THEN Cardinality(lines) ELSE BatchSize, lines)

\* The ids of rows, and of rows that some caller still means to touch.
IdsInUse == {r.id : r \in blocklist} \cup UNION {job[c].picked : c \in Callers}

\* Only the order of ids matters: they are numbered anew before new ones are given.
Renumbered(id) == Cardinality({i \in IdsInUse : i <= id})

feeds  == <<customFeed, tangled>>
tables == <<blocklist, feedState, feeds>>
guards == <<inFlight, lockHolder>>
world  == <<published, trouble>>

-----------------------------------------------------------------------------
(* Starting and ending.                                                    *)

StartAll(c) ==
    /\ At(c, "idle")
    /\ ~inFlight[ProcessOf[c]]
    /\ inFlight' = [inFlight EXCEPT ![ProcessOf[c]] = TRUE]
    /\ job' = [job EXCEPT ![c].at = "locking", ![c].all = TRUE]
    /\ UNCHANGED <<lockHolder, tables, world>>

Begin(c) == job' = [job EXCEPT ![c].at = "choosing", ![c].todo = Sources \ CustomFeeds]

\* Mutant: the refusal returns before the flag is cleared.
RefusedWithFlag(c) ==
    /\ job' = [job EXCEPT ![c] = Idle]
    /\ UNCHANGED inFlight

Refused(c) ==
    /\ job' = [job EXCEPT ![c] = Idle]
    /\ inFlight' = [inFlight EXCEPT ![ProcessOf[c]] = FALSE]

\* Mutant: the answer of the lock query is not looked at.
TakeLockUnasked(c) ==
    /\ At(c, "locking")
    /\ lockHolder' = IF lockHolder = NoCaller THEN c ELSE lockHolder
    /\ Begin(c)
    /\ UNCHANGED <<inFlight, tables, world>>

(* The query answers yes, or no, or fails and counts as neither; or there  *)
(* is no connection to ask it on.                                          *)
TakeLock(c) ==
    /\ At(c, "locking")
    /\ \/ /\ lockHolder = NoCaller
          /\ lockHolder' = c
          /\ Begin(c)
          /\ UNCHANGED <<inFlight, trouble>>
       \/ /\ \/ lockHolder # NoCaller /\ UNCHANGED trouble
             \/ Happens("fault")
          /\ Refused(c)
          /\ UNCHANGED lockHolder
       \/ /\ Happens("unguarded")
          /\ Begin(c)
          /\ UNCHANGED <<inFlight, lockHolder>>
    /\ UNCHANGED <<tables, published>>

StartOne(c, s) ==
    /\ c \in Administrators
    /\ At(c, "idle")
    /\ Happens("unguarded")
    /\ job' = [job EXCEPT ![c].at = IF s \in CustomFeeds THEN "opening" ELSE "fetching", ![c].source = s]
    /\ UNCHANGED <<guards, tables, published>>

Choose(c) ==
    /\ At(c, "choosing") \/ At(c, "walking")
    /\ \E s \in job[c].todo :
          job' = [job EXCEPT ![c].at = IF s \in CustomFeeds THEN "opening" ELSE "fetching",
                             ![c].source = s, ![c].todo = @ \ {s}]
    /\ UNCHANGED <<guards, tables, world>>

(* After the built-in lists the custom feeds that are enabled; a query     *)
(* that fails lists none.                                                  *)
ListFeeds(c) ==
    /\ At(c, "choosing")
    /\ job[c].todo = {}
    /\ \/ /\ job' = [job EXCEPT ![c].at = "walking",
                       ![c].todo = {s \in CustomFeeds : customFeed[s] = "on"}]
          /\ UNCHANGED trouble
       \/ /\ Happens("fault")
          /\ Goto(c, "walking")
    /\ UNCHANGED <<guards, tables, published>>

(* The finally block clears the flag before it gives the lock back.        *)
Leave(c) ==
    /\ At(c, "walking")
    /\ job[c].todo = {}
    /\ inFlight' = [inFlight EXCEPT ![ProcessOf[c]] = FALSE]
    /\ job' = [job EXCEPT ![c] = [Idle EXCEPT !.at = IF lockHolder = c THEN "unlocking" ELSE "idle"]]
    /\ UNCHANGED <<lockHolder, tables, world>>

\* Mutant: the lock is given back on another connection than the one that took it.
UnlockElsewhere(c) ==
    /\ At(c, "unlocking")
    /\ Goto(c, "idle")
    /\ UNCHANGED <<guards, tables, world>>

Unlock(c) ==
    /\ At(c, "unlocking")
    /\ lockHolder' = NoCaller
    /\ Goto(c, "idle")
    /\ UNCHANGED <<inFlight, tables, world>>

-----------------------------------------------------------------------------
(* parseAndStore, one statement a step; a custom feed is looked up first.  *)

Open(c) ==
    /\ At(c, "opening")
    /\ \/ /\ customFeed[job[c].source] \in {"on", "off"}
          /\ Goto(c, "fetching")
          /\ tangled' = tangled \cup
                {s \in {job[c].source} : \E d \in Callers : At(d, "removing") /\ job[d].source = s}
          /\ UNCHANGED trouble
       \/ /\ customFeed[job[c].source] \notin {"on", "off"}
          /\ Done(c)
          /\ UNCHANGED <<tangled, trouble>>
       \/ /\ Happens("fault")
          /\ Escape(c)
          /\ UNCHANGED tangled
    /\ UNCHANGED <<guards, blocklist, feedState, customFeed, published>>

Fetch(c) ==
    /\ At(c, "fetching")
    /\ job' = [job EXCEPT ![c].at = "comparing", ![c].data = published[job[c].source]]
    /\ UNCHANGED <<guards, tables, world>>

\* Mutant: what an earlier sync left under the staging key is not removed.
CompareAndStage(c) ==
    /\ At(c, "comparing")
    /\ \/ /\ feedState[job[c].source] = job[c].data
          /\ Goto(c, "counting")
       \/ /\ feedState[job[c].source] # job[c].data
          /\ job' = [job EXCEPT ![c].at = "staging", ![c].left = job[c].data]
    /\ UNCHANGED <<guards, tables, world>>

(* The same hash as last time?  A failing query counts as no hash.         *)
Compare(c) ==
    /\ At(c, "comparing")
    /\ \/ /\ feedState[job[c].source] = job[c].data
          /\ Goto(c, "counting")
          /\ UNCHANGED trouble
       \/ /\ feedState[job[c].source] # job[c].data
          /\ Goto(c, "unstaging")
          /\ UNCHANGED trouble
       \/ /\ Happens("fault")
          /\ Goto(c, "unstaging")
    /\ UNCHANGED <<guards, tables, published>>

(* And as many live rows as lines: there is nothing to do.                 *)
Count(c) ==
    /\ At(c, "counting")
    /\ IF Cardinality(KeyIds(job[c].source, FALSE)) = Cardinality(job[c].data)
       THEN Stored(c)
       ELSE Goto(c, "unstaging")
    /\ UNCHANGED <<guards, tables, world>>

(* deleteSourceRows(staging): SELECT a chunk of ids, DELETE them, again.   *)
PickStaged(c) ==
    /\ At(c, "unstaging")
    /\ IF KeyIds(job[c].source, TRUE) = {}
       THEN job' = [job EXCEPT ![c].at = "staging", ![c].left = job[c].data]
       ELSE GotoWith(c, "deletingStaged", Chunk(KeyIds(job[c].source, TRUE)))
    /\ UNCHANGED <<guards, tables, world>>

Delete(c) ==
    /\ job[c].at \in {"deletingStaged", "deletingLive"}
    /\ blocklist' = {r \in blocklist : r.id \notin job[c].picked}
    /\ GotoWith(c, IF At(c, "deletingStaged") THEN "unstaging" ELSE "retiring", {})
    /\ UNCHANGED <<feedState, feeds, guards, world>>

(* The new rows, a batch at a time, under the staging key.                 *)
Stage(c) ==
    /\ At(c, "staging")
    /\ \E batch \in Batches(job[c].left) :
          /\ batch # {}
          /\ LET used  == Cardinality(IdsInUse)
                 fresh == (used + 1)..(used + Cardinality(batch))
                 id    == CHOOSE f \in Injection(batch, fresh) : TRUE IN
             /\ fresh \subseteq RowIds
             /\ blocklist' = {[r EXCEPT !.id = Renumbered(@)] : r \in blocklist} \cup
                   {[id |-> id[v], source |-> job[c].source, staged |-> TRUE, value |-> v] : v \in batch}
             /\ job' = [d \in Callers |->
                   [job[d] EXCEPT !.picked = {Renumbered(i) : i \in @},
                                  !.left = IF d = c THEN @ \ batch ELSE @]]
    /\ UNCHANGED <<feedState, feeds, guards, world>>

\* Mutant: the new hash is stored as soon as the new rows are.
PickLiveRecorded(c) ==
    /\ \/ At(c, "retiring")
       \/ At(c, "staging") /\ job[c].left = {}
    /\ IF KeyIds(job[c].source, FALSE) = {}
       THEN GotoWith(c, "promoting", {})
       ELSE GotoWith(c, "deletingLive", Chunk(KeyIds(job[c].source, FALSE)))
    /\ feedState' = [feedState EXCEPT ![job[c].source] = job[c].data]
    /\ UNCHANGED <<blocklist, feeds, guards, world>>

(* deleteSourceRows(sourceKey).                                            *)
PickLive(c) ==
    /\ \/ At(c, "retiring")
       \/ At(c, "staging") /\ job[c].left = {}
    /\ IF KeyIds(job[c].source, FALSE) = {}
       THEN GotoWith(c, "promoting", {})
       ELSE GotoWith(c, "deletingLive", Chunk(KeyIds(job[c].source, FALSE)))
    /\ UNCHANGED <<guards, tables, world>>

(* The swap: SELECT a chunk of staged ids, UPDATE their key, again.        *)
PickPromoted(c) ==
    /\ At(c, "promoting")
    /\ IF KeyIds(job[c].source, TRUE) = {}
       THEN GotoWith(c, "forgetting", {})
       ELSE GotoWith(c, "renaming", Chunk(KeyIds(job[c].source, TRUE)))
    /\ UNCHANGED <<guards, tables, world>>

Rename(c) ==
    /\ At(c, "renaming")
    /\ blocklist' = {[r EXCEPT !.source = IF r.id \in job[c].picked THEN job[c].source ELSE @,
                               !.staged = @ /\ r.id \notin job[c].picked] : r \in blocklist}
    /\ GotoWith(c, "promoting", {})
    /\ UNCHANGED <<feedState, feeds, guards, world>>

(* The new hash: DELETE the old row, INSERT a row, failures ignored.       *)
ForgetState(c) ==
    /\ At(c, "forgetting")
    /\ \/ /\ feedState' = [feedState EXCEPT ![job[c].source] = NoState]
          /\ UNCHANGED trouble
       \/ /\ Happens("fault")
          /\ UNCHANGED feedState
    /\ Goto(c, "recording")
    /\ UNCHANGED <<blocklist, feeds, guards, published>>

RecordState(c) ==
    /\ At(c, "recording")
    /\ \/ /\ feedState[job[c].source] = NoState
          /\ feedState' = [feedState EXCEPT ![job[c].source] = job[c].data]
          /\ UNCHANGED trouble
       \/ /\ feedState[job[c].source] # NoState
          /\ UNCHANGED <<feedState, trouble>>
       \/ /\ Happens("fault")
          /\ UNCHANGED feedState
    /\ Stored(c)
    /\ UNCHANGED <<blocklist, feeds, guards, published>>

(* How the sync of a custom feed went, and that it failed.                 *)
Report(c) ==
    /\ At(c, "reporting")
    /\ \/ Done(c) /\ UNCHANGED trouble
       \/ Happens("fault") /\ Goto(c, "failing")
    /\ UNCHANGED <<guards, tables, published>>

ReportFailure(c) ==
    /\ At(c, "failing")
    /\ \/ Done(c) /\ UNCHANGED trouble
       \/ Happens("fault") /\ Escape(c)
    /\ UNCHANGED <<guards, tables, published>>

(* The fetch or a statement throws, the retries of a deadlock included:    *)
(* the source is given up until the next sync.                             *)
Throw(c) ==
    /\ job[c].at \in {"fetching", "counting", "unstaging", "deletingStaged", "staging",
                      "retiring", "deletingLive", "promoting", "renaming"}
    /\ Happens("fault")
    /\ IF job[c].source \in CustomFeeds THEN Goto(c, "failing") ELSE Done(c)
    /\ UNCHANGED <<guards, tables, published>>

-----------------------------------------------------------------------------
(* Custom feeds are added, switched off and on ...                         *)

AddCustomFeed(c, s) ==
    /\ c \in Administrators /\ At(c, "idle")
    /\ Happens("edit")
    /\ customFeed[s] = "absent"
    /\ customFeed' = [customFeed EXCEPT ![s] = "on"]
    /\ \E content \in Contents : published' = [published EXCEPT ![s] = content]
    /\ UNCHANGED <<blocklist, feedState, tangled, guards, job>>

UpdateCustomFeed(c, s) ==
    /\ c \in Administrators /\ At(c, "idle")
    /\ Happens("edit")
    /\ customFeed[s] \in {"on", "off"}
    /\ customFeed' = [customFeed EXCEPT ![s] = IF @ = "on" THEN "off" ELSE "on"]
    /\ UNCHANGED <<blocklist, feedState, tangled, guards, published, job>>

\* Mutant: the rows of the feed are kept.
RemoveRowsLater(c, s) ==
    /\ c \in Administrators /\ At(c, "idle")
    /\ Happens("edit")
    /\ customFeed[s] \in {"on", "off"}
    /\ tangled' = tangled \cup {f \in {s} : \E d \in Callers : job[d].source = f}
    /\ job' = [job EXCEPT ![c].at = "removing", ![c].source = s]
    /\ UNCHANGED <<blocklist, feedState, customFeed, guards, published>>

(* ... and removed: the rows first, those under the staging key and the    *)
(* hash excepted ...                                                       *)
RemoveRows(c, s) ==
    /\ c \in Administrators /\ At(c, "idle")
    /\ Happens("edit")
    /\ customFeed[s] \in {"on", "off"}
    /\ blocklist' = {r \in blocklist : r.source # s \/ r.staged}
    /\ tangled' = tangled \cup {f \in {s} : \E d \in Callers : job[d].source = f}
    /\ job' = [job EXCEPT ![c].at = "removing", ![c].source = s]
    /\ UNCHANGED <<feedState, customFeed, guards, published>>

(* ... and then the feed, unless that throws.                              *)
RemoveFeed(c) ==
    /\ At(c, "removing")
    /\ \/ /\ customFeed' = [customFeed EXCEPT ![job[c].source] = "removed"]
          /\ UNCHANGED trouble
       \/ /\ Happens("fault")
          /\ UNCHANGED customFeed
    /\ job' = [job EXCEPT ![c] = Idle]
    /\ UNCHANGED <<blocklist, feedState, tangled, guards, published>>

-----------------------------------------------------------------------------
(* A process restarts; its session ends and with it its lock.              *)
Restart(p) ==
    /\ Happens("restart")
    /\ job' = [c \in Callers |-> IF ProcessOf[c] = p THEN Idle ELSE job[c]]
    /\ inFlight' = [inFlight EXCEPT ![p] = FALSE]
    /\ lockHolder' = IF lockHolder \in Callers /\ ProcessOf[lockHolder] = p THEN NoCaller
                                                                          ELSE lockHolder
    /\ UNCHANGED <<tables, published>>

(* Somebody edits a list, or gives a custom feed another address.          *)
Publish(s) ==
    /\ Happens("change")
    /\ \E content \in Contents \ {published[s]} :
          published' = [published EXCEPT ![s] = content]
    /\ UNCHANGED <<job, guards, tables>>

Step(c) ==
    \/ TakeLock(c) \/ Choose(c) \/ ListFeeds(c) \/ Leave(c) \/ Unlock(c)
    \/ Open(c) \/ Report(c) \/ ReportFailure(c) \/ RemoveFeed(c)
    \/ Fetch(c) \/ Compare(c) \/ Count(c)
    \/ PickStaged(c) \/ Stage(c) \/ PickLive(c) \/ Delete(c)
    \/ PickPromoted(c) \/ Rename(c) \/ ForgetState(c) \/ RecordState(c)

Next ==
    \/ \E c \in Callers : StartAll(c) \/ Step(c) \/ Throw(c)
    \/ \E c \in Callers, s \in Sources : StartOne(c, s)
    \/ \E c \in Callers, s \in CustomFeeds :
          AddCustomFeed(c, s) \/ UpdateCustomFeed(c, s) \/ RemoveRows(c, s)
    \/ \E p \in Processes : Restart(p)
    \/ \E s \in Sources : Publish(s)

Spec == Init /\ [][Next]_vars

(* A started sync is carried on, and the cron comes round every night.     *)
(* Nothing obliges administrators.                                         *)
Fairness(nightly) == /\ \A c \in Callers : WF_vars(Step(c))
                     /\ \A c \in nightly : SF_vars(StartAll(c))

-----------------------------------------------------------------------------
Syncing(c) == job[c].at \notin {"idle", "locking", "unlocking", "removing"}

Locked == trouble["unguarded"] = 0

Uncut == trouble["fault"] = 0 /\ trouble["restart"] = 0

LiveRows(s) == {r \in blocklist : r.source = s /\ ~r.staged}

Live(s) == {r.value : r \in LiveRows(s)}

\* What the scoring finds: assess looks a value up under any key.
Listed(s) == {r.value : r \in {q \in blocklist : q.source = s}}

(* "a sync cannot overlap another (in-process flag plus a database lock    *)
(* across server and worker)" (CHANGELOG.md:41), of the syncs that take    *)
(* both.                                                                   *)
OneSyncAtATime ==
    Locked => \A c, d \in Callers : Syncing(c) /\ Syncing(d) => c = d

(* When a sync comes to record the hash of a source, it has replaced the   *)
(* source's rows: the live ones are exactly the lines, each once, and      *)
(* nothing is left under the staging key, whatever earlier syncs that      *)
(* failed half way have left there.                                        *)
SwapExact ==
    Locked =>
        \A c \in Callers :
            LET s == job[c].source IN
            job[c].at \in {"forgetting", "recording"} /\ s \notin tangled =>
            /\ Live(s) = job[c].data
            /\ Cardinality(LiveRows(s)) = Cardinality(Live(s))
            /\ KeyIds(s, TRUE) = {}

(* "the live rows are never absent" (fraud-prevention.service.ts:1561): a  *)
(* value that never leaves the list is found by the scoring, at any moment *)
(* of any later sync, from the first sync on that came to its end.         *)
Kept(s) ==
    s \in CustomFeeds => /\ customFeed[s] \in {"on", "off"}
                        /\ \A c \in Callers : At(c, "removing") => job[c].source # s

NeverAbsent ==
    \A s \in Sources : feedState[s] # NoState /\ Kept(s) =>
        {v \in Values : \A content \in Contents : v \in content} \subseteq Listed(s)

(* ... as long as no sync has been cut short.                              *)
NeverAbsentUncut == Locked /\ Uncut => NeverAbsent

(* Neither the flag of a process nor the lock is ever left behind by a     *)
(* sync that failed, was refused or was cut short: every night the cron    *)
(* can start.                                                              *)
NoGuardLeftBehind ==
    /\ \A p \in Processes : inFlight[p] =>
          \E c \in Callers : ProcessOf[c] = p /\ job[c].all
    /\ lockHolder # NoCaller => job[lockHolder].at \notin {"idle", "locking"}

(* "Unchanged feeds (same content hash as last time) are skipped entirely" *)
(* (fraud-prevention.service.ts:1559): a sync that finds the hash and the  *)
(* number of rows it expects, and no other sync at work on the source, has *)
(* the very rows it expects before it.                                     *)
SkipIsRight ==
    \A c \in Callers :
        LET s == job[c].source IN
        /\ At(c, "counting")
        /\ Cardinality(LiveRows(s)) = Cardinality(job[c].data)
        /\ \A d \in Callers \ {c} : job[d].source # s
        => Live(s) = job[c].data

(* ... for syncs that take the lock, and lists that are changed once at    *)
(* most, or as often as one likes if no sync is cut short.                 *)
SkipIsRightLocked == Locked /\ (Uncut \/ trouble["change"] <= 1) => SkipIsRight

(* When the lists stop changing, and statements failing, the live rows     *)
(* are the lists in the end.                                               *)
Converges ==
    [](Locked) => \A s \in Sources :
        (s \in CustomFeeds => <>[](customFeed[s] = "on"))
        => <>[](Live(s) = published[s])

(* A custom feed that was removed has no live rows any more, unless a sync *)
(* of it was under way when it was: "DELETE FROM fraud_blocklist" comes    *)
(* first (fraud-prevention.service.ts:1697), so a removal that is cut      *)
(* short can be asked for again, and no sync opens a feed that is gone.    *)
(* And the scoring finds no row of it at all if no sync was ever cut       *)
(* short: the DELETE leaves out what is stored under the staging key.      *)
RemovedFeedLeaves ==
    \A s \in CustomFeeds : customFeed[s] = "removed" /\ s \notin tangled =>
        /\ LiveRows(s) = {}
        /\ Locked /\ Uncut => Listed(s) = {}

=============================================================================
