--------------------------- MODULE FeedSyncProofs ---------------------------
(***************************************************************************)
(* Proofs about the threat-feed sync, for any lists, processes, callers,   *)
(* sizes of chunks and batches, and troubles.                              *)
(***************************************************************************)
EXTENDS FeedSync, FiniteSetTheorems, TLAPS

(* The inductive invariant behind the properties of FeedSync, by parts.    *)

Unoccupied == {"idle", "locking", "choosing", "walking", "unlocking"}
Swapping   == {"retiring", "deletingLive", "promoting", "renaming"}
Told       == {"forgetting", "recording"}
Holding    == {"comparing", "counting", "unstaging", "deletingStaged", "staging"} \cup Swapping \cup Told
OfCustom   == {"opening", "reporting", "failing", "removing"}
Deleting   == {"deletingStaged", "deletingLive"}

\* The local variables that count at each place.
WellFormed(j) ==
    /\ j.at \in Unoccupied <=> j.source = NoSource
    /\ j.at \in {"locking", "choosing", "walking"} => j.all
    /\ j.at \in {"idle", "unlocking", "removing"} => ~j.all
    /\ j.at \in OfCustom => j.source \in CustomFeeds
    /\ j.at \in Holding => j.data \in Contents
    /\ j.at = "staging" => j.left \subseteq j.data

JobInv == \A c \in Callers : WellFormed(job[c])

\* Flag and lock are held by whoever is on the way, and by nobody else.
Holds(c) ==
    /\ lockHolder = c => (job[c].all /\ ~At(c, "locking")) \/ At(c, "unlocking")
    /\ At(c, "unlocking") => lockHolder = c
    /\ Locked /\ Syncing(c) => lockHolder = c

GuardInv ==
    /\ \A p \in Processes : inFlight[p] => \E c \in Callers : ProcessOf[c] = p /\ job[c].all
    /\ \A c \in Callers : Holds(c)

\* What was picked is still what it was picked for, unless it is gone.
PickedFor(c) ==
    job[c].at \in Deleting \cup {"renaming"} =>
        \A r \in blocklist : r.id \in job[c].picked =>
            /\ r.source = job[c].source
            /\ r.staged <=> ~At(c, "deletingLive")

PickInv == Locked => \A c \in Callers : PickedFor(c)

Rows(s) == {r \in blocklist : r.source = s}

StagedRows(s) == {r \in blocklist : r.source = s /\ r.staged}

\* These rows are exactly these lines, each once.
Exactly(some, lines) ==
    /\ {r.value : r \in some} = lines
    /\ \A r, q \in some : r.value = q.value => r = q

\* How far the replacement of a source's rows has come.
SwapOf(c) ==
    LET s == job[c].source IN
    /\ At(c, "staging") => Exactly(StagedRows(s), job[c].data \ job[c].left)
    /\ job[c].at \in {"retiring", "deletingLive"} => Exactly(StagedRows(s), job[c].data)
    /\ job[c].at \in {"promoting", "renaming"} => Exactly(Rows(s), job[c].data)
    /\ job[c].at \in Told => Exactly(Rows(s), job[c].data) /\ StagedRows(s) = {}

SwapInv == Locked => \A c \in Callers : job[c].source \notin tangled => SwapOf(c)

Removing(c, s) == At(c, "removing") /\ job[c].source = s

\* What is removed, or about to be, is not synced any more, and what is not
\* there yet has not been.
RemovalOf(s) ==
    /\ /\ s \notin tangled
       /\ customFeed[s] = "removed" \/ \E c \in Callers : Removing(c, s)
       => /\ LiveRows(s) = {}
          /\ \A c \in Callers : job[c].source = s => job[c].at \in {"opening", "removing"}
    /\ customFeed[s] = "absent" =>
          /\ feedState[s] = NoState /\ s \notin tangled
          /\ \A c \in Callers : job[c].source = s => At(c, "opening")
    /\ Uncut /\ s \in tangled => ~Kept(s)

RemovalInv == \A s \in CustomFeeds : RemovalOf(s)

Always == {v \in Values : \A content \in Contents : v \in content}

Swaps(c, s) == job[c].source = s /\ job[c].at \in Swapping \cup Told

\* What never leaves the lists is live, except while the source is swapped.
CoreInv ==
    Locked /\ Uncut => \A s \in Sources : feedState[s] # NoState /\ Kept(s) =>
        Always \subseteq Live(s) \/ \E c \in Callers : Swaps(c, s)

IInv ==
    /\ TypeOK /\ JobInv /\ GuardInv /\ PickInv /\ SwapInv /\ RemovalInv /\ CoreInv

-----------------------------------------------------------------------------
(* Troubles are counted, never forgotten.                                  *)
Later ==
    /\ trouble' \in [Kinds -> Nat]
    /\ Locked' => Locked
    /\ Uncut' => Uncut

LEMMA CountedTrouble ==
  ASSUME TypeOK, NEW kind \in Kinds, Happens(kind)
  PROVE  Later /\ trouble'[kind] # 0
<1>1. trouble \in [Kinds -> Nat] /\ trouble' = [trouble EXCEPT ![kind] = @ + 1]
  BY DEF TypeOK, Happens
<1>2. trouble' \in [Kinds -> Nat] /\ trouble'[kind] # 0
  BY <1>1
<1>3. \A k \in Kinds : trouble'[k] = 0 => trouble[k] = 0
  BY <1>1
<1>4. QED
  BY <1>2, <1>3 DEF Later, Locked, Uncut, Kinds

LEMMA NoTrouble ==
  ASSUME TypeOK, UNCHANGED trouble
  PROVE  Later /\ (Locked' <=> Locked) /\ (Uncut' <=> Uncut)
BY DEF TypeOK, Later, Locked, Uncut

LEMMA TroubleStep ==
  ASSUME TypeOK, \/ UNCHANGED trouble
                 \/ \E kind \in Kinds : Happens(kind)
  PROVE  Later
BY CountedTrouble, NoTrouble

(* A statement that fails ends the time without cuts.                      *)
LEMMA Faulted ==
  ASSUME TypeOK, Happens("fault")
  PROVE  Later /\ ~Uncut'
BY CountedTrouble DEF Kinds, Uncut

-----------------------------------------------------------------------------
(* Local variables.  Most steps change those of one caller, in one of few  *)
(* ways.                                                                   *)

Only(c) ==
    /\ job' \in [Callers -> Job]
    /\ \A d \in Callers \ {c} : job'[d] = job[d]

\* The others keep all but the ids they have picked.
Apart(c) ==
    /\ job' \in [Callers -> Job]
    /\ \A d \in Callers \ {c} :
          /\ job'[d].at = job[d].at /\ job'[d].all = job[d].all
          /\ job'[d].source = job[d].source
          /\ job'[d].data = job[d].data /\ job'[d].left = job[d].left

LEMMA OnlyApart ==
  ASSUME NEW c, Only(c)
  PROVE  Apart(c)
BY DEF Only, Apart

LEMMA OnlyOne ==
  ASSUME TypeOK, NEW c \in Callers, NEW j \in Job, job' = [job EXCEPT ![c] = j]
  PROVE  Only(c) /\ job'[c] = j
BY DEF TypeOK, Only

LEMMA JobTyped ==
  ASSUME TypeOK, NEW c \in Callers
  PROVE  job[c] \in Job
BY DEF TypeOK

\* The caller goes to another place and keeps everything else.
Moved(c, place, ids) ==
    /\ Only(c)
    /\ job'[c].at = place
    /\ job'[c].picked = ids
    /\ job'[c].all = job[c].all
    /\ job'[c].source = job[c].source
    /\ job'[c].todo = job[c].todo
    /\ job'[c].data = job[c].data
    /\ job'[c].left = job[c].left

LEMMA GotoWithMoves ==
  ASSUME TypeOK, NEW c \in Callers, NEW place \in Places, NEW ids \in SUBSET RowIds,
         GotoWith(c, place, ids)
  PROVE  Moved(c, place, ids)
<1> DEFINE j == [job[c] EXCEPT !.at = place, !.picked = ids]
<1>1. j \in Job
  BY JobTyped DEF Job
<1>2. job' = [job EXCEPT ![c] = j]
  BY DEF GotoWith
<1>3. Only(c) /\ job'[c] = j
  BY <1>1, <1>2, OnlyOne
<1>4. QED
  BY <1>3, JobTyped DEF Moved, Job

LEMMA GotoMoves ==
  ASSUME TypeOK, NEW c \in Callers, NEW place \in Places, Goto(c, place)
  PROVE  Moved(c, place, job[c].picked)
<1> DEFINE j == [job[c] EXCEPT !.at = place]
<1>1. j \in Job
  BY JobTyped DEF Job
<1>2. job' = [job EXCEPT ![c] = j]
  BY DEF Goto
<1>3. Only(c) /\ job'[c] = j
  BY <1>1, <1>2, OnlyOne
<1>4. QED
  BY <1>3, JobTyped DEF Moved, Job

\* The caller has done with a source, or with everything.
Ended(c) ==
    /\ Only(c)
    /\ job'[c].at \in {"idle", "choosing", "walking"}
    /\ job'[c].at = "idle" <=> ~job[c].all
    /\ job'[c].all = job[c].all
    /\ job'[c].source = NoSource

LEMMA IdleTyped == Idle \in Job
BY DEF Idle, Job, Places

LEMMA NextJobTyped ==
  ASSUME TypeOK, NEW c \in Callers
  PROVE  /\ NextJob(c) \in Job
         /\ NextJob(c).at \in {"idle", "choosing", "walking"}
         /\ NextJob(c).at = "idle" <=> ~job[c].all
         /\ NextJob(c).all = job[c].all
         /\ NextJob(c).source = NoSource
<1>1. job[c].todo \in SUBSET Sources /\ job[c].all \in BOOLEAN
  BY JobTyped DEF Job
<1>2. CASE job[c].all
  <2>1. NextJob(c) = [at |-> IF job[c].source \in CustomFeeds THEN "walking" ELSE "choosing",
                      all |-> TRUE, source |-> NoSource, todo |-> job[c].todo,
                      data |-> {}, left |-> {}, picked |-> {}]
    BY <1>2 DEF NextJob, Idle
  <2>2. QED
    BY <1>1, <1>2, <2>1 DEF Job, Places
<1>3. CASE ~job[c].all
  BY <1>1, <1>3, IdleTyped DEF NextJob, Idle
<1>4. QED
  BY <1>2, <1>3

LEMMA DoneEnds ==
  ASSUME TypeOK, NEW c \in Callers, Done(c) \/ Escape(c)
  PROVE  Ended(c)
<1>1. NextJob(c) \in Job /\ [NextJob(c) EXCEPT !.todo = {}] \in Job
  BY NextJobTyped DEF Job
<1>2. CASE Done(c)
  <2>1. Only(c) /\ job'[c] = NextJob(c)
    BY <1>1, <1>2, OnlyOne DEF Done
  <2>2. QED
    BY <2>1, NextJobTyped DEF Ended
<1>3. CASE Escape(c)
  <2>1. Only(c) /\ job'[c] = [NextJob(c) EXCEPT !.todo = {}]
    BY <1>1, <1>3, OnlyOne DEF Escape
  <2>2. /\ job'[c].at = NextJob(c).at /\ job'[c].all = NextJob(c).all
        /\ job'[c].source = NextJob(c).source
    BY <1>1, <2>1 DEF Job
  <2>3. QED
    BY <2>1, <2>2, NextJobTyped DEF Ended
<1>4. QED
  BY <1>2, <1>3

LEMMA StoredMoves ==
  ASSUME TypeOK, NEW c \in Callers, Stored(c)
  PROVE  \/ Ended(c)
         \/ job[c].source \in CustomFeeds /\ Moved(c, "reporting", job[c].picked)
BY DoneEnds, GotoMoves DEF Stored, Places

-----------------------------------------------------------------------------
(* What keeps each part of the invariant, of the steps that move a caller  *)
(* and leave flags, lock and rows alone.                                   *)

\* Neither at the start nor at the end of a full sync, nor removing a feed.
Aside == {"locking", "unlocking", "removing"}

LEMMA JobsKept ==
  ASSUME JobInv, NEW c \in Callers, Apart(c), WellFormed(job'[c])
  PROVE  JobInv'
BY DEF JobInv, Apart, WellFormed

LEMMA GuardsKept ==
  ASSUME GuardInv, Later, UNCHANGED guards, NEW c \in Callers, Apart(c),
         job'[c].all = job[c].all,
         job[c].at \notin {"locking", "unlocking"}, job'[c].at \notin {"locking", "unlocking"},
         Locked' /\ Syncing(c)' => Syncing(c)
  PROVE  GuardInv'
<1>1. \A p \in Processes : inFlight'[p] => \E d \in Callers : ProcessOf[d] = p /\ job'[d].all
  <2> SUFFICES ASSUME NEW p \in Processes, inFlight'[p]
               PROVE  \E d \in Callers : ProcessOf[d] = p /\ job'[d].all
    OBVIOUS
  <2>1. PICK d \in Callers : ProcessOf[d] = p /\ job[d].all
    BY DEF GuardInv, guards
  <2>2. job'[d].all
    BY <2>1 DEF Apart
  <2>3. QED
    BY <2>1, <2>2
<1>2. ASSUME NEW d \in Callers PROVE Holds(d)'
  <2>1. CASE d = c
    BY <2>1 DEF GuardInv, Holds, Later, guards, At
  <2>2. CASE d # c
    BY <2>2 DEF GuardInv, Holds, Later, guards, At, Syncing, Apart
  <2>3. QED
    BY <2>1, <2>2
<1>3. QED
  BY <1>1, <1>2 DEF GuardInv

LEMMA RowsKept ==
  ASSUME PickInv, SwapInv, Later, UNCHANGED blocklist, tangled \subseteq tangled',
         NEW c \in Callers, Only(c),
         Locked' => PickedFor(c)',
         Locked' /\ job'[c].source \notin tangled' => SwapOf(c)'
  PROVE  PickInv' /\ SwapInv'
<1>1. ASSUME NEW d \in Callers \ {c} PROVE job'[d] = job[d]
  BY DEF Only
<1>2. PickInv'
  <2>1. ASSUME Locked', NEW d \in Callers PROVE PickedFor(d)'
    <3>1. CASE d = c
      BY <2>1, <3>1
    <3>2. CASE d # c
      BY <1>1, <2>1, <3>2 DEF PickInv, PickedFor, Later, At
    <3>3. QED
      BY <3>1, <3>2
  <2>2. QED
    BY <2>1 DEF PickInv
<1>3. SwapInv'
  <2>1. ASSUME Locked', NEW d \in Callers, job'[d].source \notin tangled' PROVE SwapOf(d)'
    <3>1. CASE d = c
      BY <2>1, <3>1
    <3>2. CASE d # c
      <4>1. SwapOf(d)
        BY <1>1, <2>1, <3>2 DEF SwapInv, Later
      <4>2. QED
        BY <1>1, <3>2, <4>1 DEF SwapOf, At, Rows, StagedRows, Exactly
    <3>3. QED
      BY <3>1, <3>2
  <2>2. QED
    BY <2>1 DEF SwapInv
<1>4. QED
  BY <1>2, <1>3

LEMMA RemovalKept ==
  ASSUME RemovalInv, Later, UNCHANGED feeds, NEW c \in Callers, Apart(c),
         \A s \in CustomFeeds : customFeed[s] = "absent" /\ feedState[s] = NoState =>
            feedState'[s] = NoState,
         \A s \in CustomFeeds : LiveRows(s) = {} =>
            LiveRows(s)' = {} \/ (job[c].source = s /\ job[c].at # "opening"),
         job[c].at # "removing", job'[c].at # "removing",
         job'[c].source \in CustomFeeds =>
            \/ job'[c].at = "opening"
            \/ job'[c].source = job[c].source /\ job[c].at # "opening"
  PROVE  RemovalInv'
<1> SUFFICES ASSUME NEW s \in CustomFeeds PROVE RemovalOf(s)'
  BY DEF RemovalInv
<1> USE DEF feeds
<1>0. RemovalOf(s)
  BY DEF RemovalInv
<1>1. \A d \in Callers : job'[d].source = s =>
        \/ job'[d].at = "opening"
        \/ job[d].source = s /\ job[d].at # "opening" /\ (d # c => job'[d].at = job[d].at)
        \/ d # c /\ job[d].source = s /\ job'[d].at = job[d].at
  BY DEF Apart
<1>2. \A d \in Callers : Removing(d, s)' <=> Removing(d, s)
  BY DEF Removing, Apart, At
<1>3. (Kept(s) <=> Kept(s)')
  BY <1>2 DEF Kept, Removing, At
<1>4. ASSUME s \notin tangled', customFeed'[s] = "removed" \/ \E d \in Callers : Removing(d, s)'
      PROVE  /\ LiveRows(s)' = {}
             /\ \A d \in Callers : job'[d].source = s => job'[d].at \in {"opening", "removing"}
  <2>1. LiveRows(s) = {} /\ \A d \in Callers : job[d].source = s => job[d].at \in {"opening", "removing"}
    BY <1>0, <1>2, <1>4 DEF RemovalOf
  <2>2. LiveRows(s)' = {}
    BY <2>1
  <2>3. QED
    BY <1>1, <2>1, <2>2
<1>5. ASSUME customFeed'[s] = "absent"
      PROVE  /\ feedState'[s] = NoState /\ s \notin tangled'
             /\ \A d \in Callers : job'[d].source = s => At(d, "opening")'
  BY <1>0, <1>1, <1>5 DEF RemovalOf, At
<1>6. Uncut' /\ s \in tangled' => ~Kept(s)'
  BY <1>0, <1>3 DEF RemovalOf, Later
<1>7. QED
  BY <1>4, <1>5, <1>6 DEF RemovalOf

LEMMA CoreKept ==
  ASSUME CoreInv, Later, UNCHANGED feeds, NEW c \in Callers, Apart(c),
         \A s \in Sources : Locked' /\ Uncut' /\ Kept(s) /\ feedState'[s] # NoState =>
            feedState[s] # NoState \/ Always \subseteq Live(s)',
         \A s \in Sources : Locked' /\ Uncut' =>
            Live(s) \subseteq Live(s)' \/ (job'[c].source = s /\ job'[c].at \in Swapping \cup Told),
         job[c].at # "removing", job'[c].at # "removing",
         Locked' /\ Uncut' /\ Kept(job[c].source) /\ job[c].at \in Swapping \cup Told =>
            \/ job'[c].source = job[c].source /\ job'[c].at \in Swapping \cup Told
            \/ Always \subseteq Live(job[c].source)
  PROVE  CoreInv'
<1> USE DEF feeds
<1> SUFFICES ASSUME Locked', Uncut', NEW s \in Sources, feedState'[s] # NoState, Kept(s)'
             PROVE  Always \subseteq Live(s)' \/ \E d \in Callers : Swaps(d, s)'
  BY DEF CoreInv
<1>1. Kept(s)
  BY DEF Kept, Apart, At
<1>2. \/ Always \subseteq Live(s)'
      \/ Always \subseteq Live(s) \/ \E d \in Callers : Swaps(d, s)
  BY <1>1 DEF CoreInv, Later
<1>3. ASSUME NEW d \in Callers, Swaps(d, s) PROVE Always \subseteq Live(s) \/ Swaps(d, s)'
  <2>1. CASE d = c
    BY <1>1, <1>3, <2>1 DEF Swaps
  <2>2. CASE d # c
    BY <1>3, <2>2 DEF Swaps, Apart
  <2>3. QED
    BY <2>1, <2>2
<1>4. Live(s) \subseteq Live(s)' \/ Swaps(c, s)'
  BY DEF Swaps
<1>5. QED
  BY <1>2, <1>3, <1>4

(* A step that changes nothing but where a caller is and what it has in    *)
(* hand keeps the invariant, if what it has in hand fits.                  *)
LEMMA WalkKeeps ==
  ASSUME IInv, Later, UNCHANGED <<guards, tables, published>>, NEW c \in Callers, Only(c),
         job'[c].all = job[c].all,
         job[c].at \notin Aside, job'[c].at \notin Aside,
         Locked' /\ Syncing(c)' => Syncing(c),
         WellFormed(job'[c]),
         Locked' => PickedFor(c)',
         Locked' /\ job'[c].source \notin tangled' => SwapOf(c)',
         job'[c].source \in CustomFeeds =>
            \/ job'[c].at = "opening"
            \/ job'[c].source = job[c].source /\ job[c].at # "opening",
         Locked' /\ Uncut' /\ job[c].at \in Swapping \cup Told =>
            \/ job'[c].source = job[c].source /\ job'[c].at \in Swapping \cup Told
            \/ Always \subseteq Live(job[c].source)
  PROVE  IInv'
<1>1. TypeOK'
  BY DEF IInv, TypeOK, Only, Later, tables, feeds, guards
<1>2. JobInv'
  BY OnlyApart, JobsKept DEF IInv
<1>3. GuardInv'
  BY OnlyApart, GuardsKept DEF IInv, Aside
<1>4. PickInv' /\ SwapInv'
  BY RowsKept DEF IInv, tables, feeds
<1>5. /\ job[c].at # "removing" /\ job'[c].at # "removing"
      /\ UNCHANGED <<feedState, feeds>>
  BY DEF Aside, tables
<1>6. RemovalInv'
  <2>1. \A s \in CustomFeeds : LiveRows(s) = {} =>
           LiveRows(s)' = {} \/ (job[c].source = s /\ job[c].at # "opening")
    BY DEF LiveRows, tables
  <2>2. QED
    BY <1>5, <2>1, OnlyApart, RemovalKept DEF IInv
<1>7. CoreInv'
  <2>1. \A s \in Sources : Locked' /\ Uncut' =>
           Live(s) \subseteq Live(s)' \/ (job'[c].source = s /\ job'[c].at \in Swapping \cup Told)
    BY DEF Live, LiveRows, tables
  <2>2. QED
    BY <1>5, <2>1, OnlyApart, CoreKept DEF IInv
<1>8. QED
  BY <1>1, <1>2, <1>3, <1>4, <1>6, <1>7 DEF IInv

(* A caller that has done with a source, at a moment when its rows are as  *)
(* they should be, or else after a failure.                                *)
LEMMA EndKeeps ==
  ASSUME IInv, Later, UNCHANGED <<guards, tables, published>>, NEW c \in Callers, Ended(c),
         job[c].at \notin Aside \cup {"idle"},
         Uncut' => job[c].at \notin Swapping \cup Told
  PROVE  IInv'
<1> USE DEF Ended
<1>1. WellFormed(job'[c])
  BY DEF WellFormed, Unoccupied, OfCustom, Holding, Swapping, Told
<1>2. PickedFor(c)' /\ SwapOf(c)'
  BY DEF PickedFor, SwapOf, Deleting, Told, At
<1>3. Syncing(c)' => Syncing(c)
  BY DEF Syncing, Aside
<1>4. NoSource \notin CustomFeeds
  BY FeedAssumption
<1>5. QED
  BY <1>1, <1>2, <1>3, <1>4, WalkKeeps DEF Aside

(* A caller that goes on with its source, from and to places at which it   *)
(* has nothing picked.                                                     *)
LEMMA MoveKeeps ==
  ASSUME IInv, Later, UNCHANGED <<guards, tables, published>>, NEW c \in Callers,
         NEW place \in Places \ (Aside \cup Unoccupied \cup {"opening", "staging"}),
         NEW ids, Moved(c, place, ids),
         job[c].at \notin Aside \cup Unoccupied \cup {"opening"},
         place \in OfCustom => job[c].source \in CustomFeeds,
         place \in Holding => job[c].data \in Contents,
         Locked' => PickedFor(c)',
         Locked' /\ job[c].source \notin tangled => SwapOf(c)',
         Uncut' /\ job[c].at \in Swapping \cup Told => place \in Swapping \cup Told
  PROVE  IInv'
<1> USE DEF Moved
<1>1. WellFormed(job[c])
  BY DEF IInv, JobInv
<1>2. WellFormed(job'[c])
  BY <1>1 DEF WellFormed, Unoccupied, OfCustom, Holding, Swapping, Told, Aside
<1>3. Syncing(c)' => Syncing(c)
  BY DEF Syncing, Aside, Unoccupied
<1>4. QED
  BY <1>2, <1>3, WalkKeeps DEF tables, feeds

-----------------------------------------------------------------------------
(* What is picked is what it is picked for.                                *)

LEMMA ChunkPicks ==
  ASSUME TypeOK, NEW s, NEW staged \in BOOLEAN
  PROVE  /\ Chunk(KeyIds(s, staged)) \subseteq RowIds
         /\ \A r \in blocklist : r.id \in Chunk(KeyIds(s, staged)) =>
               r.source = s /\ (r.staged <=> staged)
<1>1. Chunk(KeyIds(s, staged)) \subseteq KeyIds(s, staged)
  BY DEF Chunk
<1>2. \A i \in KeyIds(s, staged) : \E q \in blocklist : q.id = i /\ q.source = s /\ q.staged = staged
  BY DEF KeyIds
<1>3. \A r \in blocklist : r.id \in RowIds
  BY DEF TypeOK, Row
<1>4. \A r \in blocklist : r.id \in Chunk(KeyIds(s, staged)) => r.source = s /\ r.staged = staged
  BY <1>1, <1>2 DEF TypeOK
<1>5. QED
  BY <1>1, <1>2, <1>3, <1>4

LEMMA StagedChunk ==
  ASSUME TypeOK, NEW s
  PROVE  /\ Chunk(KeyIds(s, TRUE)) \subseteq RowIds
         /\ \A r \in blocklist : r.id \in Chunk(KeyIds(s, TRUE)) => r.source = s /\ r.staged
BY ChunkPicks, Zenon

LEMMA LiveChunk ==
  ASSUME TypeOK, NEW s
  PROVE  /\ Chunk(KeyIds(s, FALSE)) \subseteq RowIds
         /\ \A r \in blocklist : r.id \in Chunk(KeyIds(s, FALSE)) => r.source = s /\ ~r.staged
<1>1. \A r \in blocklist : r.id \in Chunk(KeyIds(s, FALSE)) => r.source = s /\ (r.staged <=> FALSE)
  BY ChunkPicks
<1>2. QED
  BY <1>1, ChunkPicks

LEMMA NoneOfKey ==
  ASSUME NEW s, NEW staged, KeyIds(s, staged) = {}
  PROVE  \A r \in blocklist : r.source = s => r.staged # staged
BY DEF KeyIds

-----------------------------------------------------------------------------
(* The steps that read.                                                    *)

LEMMA ChooseStep ==
  ASSUME IInv, NEW c \in Callers, Choose(c)
  PROVE  IInv'
<1> USE DEF Choose
<1>1. PICK s \in job[c].todo :
         job' = [job EXCEPT ![c].at = IF s \in CustomFeeds THEN "opening" ELSE "fetching",
                            ![c].source = s, ![c].todo = @ \ {s}]
  OBVIOUS
<1> DEFINE j == [job[c] EXCEPT !.at = IF s \in CustomFeeds THEN "opening" ELSE "fetching",
                               !.source = s, !.todo = @ \ {s}]
<1>2. TypeOK /\ job[c] \in Job /\ s \in Sources
  BY JobTyped DEF IInv, Job
<1>3. j \in Job
  BY <1>2 DEF Job, Places
<1>4. job' = [job EXCEPT ![c] = j]
  BY <1>1
<1>5. Only(c) /\ job'[c] = j
  BY <1>2, <1>3, <1>4, OnlyOne
<1>6. /\ job'[c].at = IF s \in CustomFeeds THEN "opening" ELSE "fetching"
      /\ job'[c].source = s /\ job'[c].all = job[c].all
  BY <1>2, <1>5 DEF Job
<1>7. WellFormed(job[c])
  BY DEF IInv, JobInv
<1>8. WellFormed(job'[c])
  BY <1>2, <1>6, <1>7, FeedAssumption DEF WellFormed, At, Unoccupied, OfCustom, Holding, Swapping, Told
<1>9. PickedFor(c)' /\ SwapOf(c)'
  BY <1>6 DEF PickedFor, SwapOf, At, Deleting, Told
<1>10. Later
  BY <1>2, NoTrouble DEF world
<1>11. QED
  BY <1>5, <1>6, <1>8, <1>9, <1>10, WalkKeeps DEF Aside, At, Syncing, world, Swapping, Told

LEMMA ListFeedsStep ==
  ASSUME IInv, NEW c \in Callers, ListFeeds(c)
  PROVE  IInv'
<1> USE DEF ListFeeds
<1>1. TypeOK /\ job[c] \in Job /\ WellFormed(job[c])
  BY JobTyped DEF IInv, JobInv
<1>2. Later
  BY <1>1, TroubleStep DEF Kinds
<1>3. /\ Only(c) /\ job'[c].at = "walking"
      /\ job'[c].source = job[c].source /\ job'[c].all = job[c].all
  <2>1. CASE job' = [job EXCEPT ![c].at = "walking",
                       ![c].todo = {s \in CustomFeeds : customFeed[s] = "on"}]
    <3> DEFINE j == [job[c] EXCEPT !.at = "walking",
                       !.todo = {s \in CustomFeeds : customFeed[s] = "on"}]
    <3>1. j \in Job
      BY <1>1, FeedAssumption DEF Job, Places
    <3>2. job' = [job EXCEPT ![c] = j]
      BY <2>1
    <3>3. Only(c) /\ job'[c] = j
      BY <1>1, <3>1, <3>2, OnlyOne
    <3>4. QED
      BY <1>1, <3>3 DEF Job
  <2>2. CASE Goto(c, "walking")
    BY <1>1, <2>2, GotoMoves DEF Moved, Places
  <2>3. QED
    BY <2>1, <2>2
<1>4. WellFormed(job'[c])
  BY <1>1, <1>3 DEF WellFormed, At, Unoccupied, OfCustom, Holding, Swapping, Told
<1>5. job[c].source \notin CustomFeeds
  BY <1>1, FeedAssumption DEF WellFormed, At, Unoccupied
<1>6. PickedFor(c)' /\ SwapOf(c)'
  BY <1>3 DEF PickedFor, SwapOf, At, Deleting, Told
<1>7. QED
  BY <1>2, <1>3, <1>4, <1>5, <1>6, WalkKeeps DEF Aside, At, Syncing, Swapping, Told

LEMMA StartOneStep ==
  ASSUME IInv, NEW c \in Callers, NEW s \in Sources, StartOne(c, s)
  PROVE  IInv'
<1> USE DEF StartOne
<1> DEFINE j == [job[c] EXCEPT !.at = IF s \in CustomFeeds THEN "opening" ELSE "fetching",
                               !.source = s]
<1>1. TypeOK /\ job[c] \in Job /\ WellFormed(job[c])
  BY JobTyped DEF IInv, JobInv
<1>2. j \in Job
  BY <1>1 DEF Job, Places
<1>3. job' = [job EXCEPT ![c] = j]
  OBVIOUS
<1>4. Only(c) /\ job'[c] = j
  BY <1>1, <1>2, <1>3, OnlyOne
<1>5. /\ job'[c].at = IF s \in CustomFeeds THEN "opening" ELSE "fetching"
      /\ job'[c].source = s /\ job'[c].all = job[c].all
  <2>1. PICK before, at : before = job[c] /\ at = IF s \in CustomFeeds THEN "opening" ELSE "fetching"
    OBVIOUS
  <2>2. before = [f \in {"at", "all", "source", "todo", "data", "left", "picked"} |-> before[f]]
    BY <1>1, <2>1 DEF Job
  <2>3. PICK half, after : half = [before EXCEPT !.at = at] /\ after = [half EXCEPT !.source = s]
    OBVIOUS
  <2>4. /\ half = [f \in {"at", "all", "source", "todo", "data", "left", "picked"} |-> half[f]]
        /\ half.at = at /\ half.all = before.all
    BY <2>2, <2>3
  <2>5. after.at = at /\ after.source = s /\ after.all = before.all
    BY <2>3, <2>4
  <2>6. after = j
    BY <2>1, <2>3
  <2>7. QED
    BY <1>4, <2>1, <2>5, <2>6
<1>6. WellFormed(job'[c])
  BY <1>1, <1>5, FeedAssumption DEF WellFormed, At, Unoccupied, OfCustom, Holding, Swapping, Told
<1>7. Later /\ ~Locked'
  BY <1>1, CountedTrouble DEF Kinds, Locked
<1>8. /\ job[c].at \notin Aside /\ job'[c].at \notin Aside
      /\ job[c].at \notin Swapping \cup Told
      /\ job'[c].source \in CustomFeeds => job'[c].at = "opening"
  BY <1>5 DEF Aside, At, Swapping, Told
<1>9. QED
  BY <1>4, <1>5, <1>6, <1>7, <1>8, WalkKeeps

LEMMA FetchStep ==
  ASSUME IInv, NEW c \in Callers, Fetch(c)
  PROVE  IInv'
<1> USE DEF Fetch
<1>1. TypeOK /\ job[c] \in Job /\ WellFormed(job[c])
  BY JobTyped DEF IInv, JobInv
<1>2. job[c].source \in Sources
  BY <1>1 DEF WellFormed, At, Job, Unoccupied
<1>3. PICK lines \in Contents : lines = published[job[c].source]
  BY <1>1, <1>2 DEF TypeOK
<1> DEFINE j == [job[c] EXCEPT !.at = "comparing", !.data = lines]
<1>4. j \in Job
  BY <1>1, FeedAssumption DEF Job, Places
<1>5. job' = [job EXCEPT ![c] = j]
  BY <1>3
<1>6. Only(c) /\ job'[c] = j
  BY <1>1, <1>4, <1>5, OnlyOne
<1>7. /\ job'[c].at = "comparing" /\ job'[c].data \in Contents
      /\ job'[c].source = job[c].source /\ job'[c].all = job[c].all
  BY <1>1, <1>6, ZenonT(60) DEF Job
<1>8. WellFormed(job'[c])
  BY <1>1, <1>7 DEF WellFormed, At, Unoccupied, OfCustom, Holding, Swapping, Told
<1>9. PickedFor(c)' /\ SwapOf(c)'
  BY <1>7 DEF PickedFor, SwapOf, At, Deleting, Told
<1>10. Later
  BY <1>1, NoTrouble DEF world
<1>11. QED
  BY <1>6, <1>7, <1>8, <1>9, <1>10, WalkKeeps DEF Aside, At, Syncing, world, Swapping, Told

(* A caller at work on a source: what the steps below rely on.             *)
LEMMA AtWork ==
  ASSUME IInv, NEW c \in Callers, job[c].at \notin Aside \cup Unoccupied
  PROVE  /\ TypeOK /\ job[c] \in Job /\ WellFormed(job[c])
         /\ job[c].source \in Sources
         /\ job[c].at \in OfCustom => job[c].source \in CustomFeeds
         /\ job[c].at \in Holding => job[c].data \in Contents
<1>1. TypeOK /\ job[c] \in Job /\ WellFormed(job[c])
  BY JobTyped DEF IInv, JobInv
<1>2. QED
  BY <1>1 DEF WellFormed, Job

LEMMA CompareStep ==
  ASSUME IInv, NEW c \in Callers, Compare(c)
  PROVE  IInv'
<1> USE DEF Compare
<1>1. job[c].at = "comparing"
  BY DEF At
<1>2. TypeOK /\ job[c].data \in Contents
  BY <1>1, AtWork DEF Aside, Unoccupied, Holding
<1>3. Later
  BY <1>2, TroubleStep DEF Kinds
<1>4. Moved(c, "counting", job[c].picked) \/ Moved(c, "unstaging", job[c].picked)
  BY <1>2, GotoMoves DEF Places
<1>5. job'[c].at \in {"counting", "unstaging"}
  BY <1>4 DEF Moved
<1>6. PickedFor(c)' /\ SwapOf(c)'
  BY <1>5 DEF PickedFor, SwapOf, At, Deleting, Told
<1>7. QED
  BY <1>1, <1>2, <1>3, <1>4, <1>6, MoveKeeps
     DEF Places, Aside, Unoccupied, OfCustom, Swapping, Told

LEMMA StoredKeeps ==
  ASSUME IInv, Later, UNCHANGED <<guards, tables, published>>, NEW c \in Callers, Stored(c),
         job[c].at = "counting"
  PROVE  IInv'
<1>1. TypeOK
  BY DEF IInv
<1>2. CASE Ended(c)
  BY <1>2, EndKeeps DEF Aside, Swapping, Told
<1>3. CASE job[c].source \in CustomFeeds /\ Moved(c, "reporting", job[c].picked)
  <2>1. PickedFor(c)' /\ SwapOf(c)'
    BY <1>3 DEF Moved, PickedFor, SwapOf, At, Deleting, Told
  <2>2. QED
    BY <1>3, <2>1, MoveKeeps DEF Places, Aside, Unoccupied, OfCustom, Holding, Swapping, Told
<1>4. QED
  BY <1>1, <1>2, <1>3, StoredMoves

LEMMA CountStep ==
  ASSUME IInv, NEW c \in Callers, Count(c)
  PROVE  IInv'
<1> USE DEF Count
<1>1. job[c].at = "counting"
  BY DEF At
<1>2. TypeOK /\ job[c].data \in Contents
  BY <1>1, AtWork DEF Aside, Unoccupied, Holding
<1>3. Later
  BY <1>2, NoTrouble DEF world
<1>4. CASE Stored(c)
  BY <1>1, <1>3, <1>4, StoredKeeps DEF world
<1>5. CASE Goto(c, "unstaging")
  <2>1. Moved(c, "unstaging", job[c].picked)
    BY <1>2, <1>5, GotoMoves DEF Places
  <2>2. PickedFor(c)' /\ SwapOf(c)'
    BY <2>1 DEF Moved, PickedFor, SwapOf, At, Deleting, Told
  <2>3. QED
    BY <1>1, <1>2, <1>3, <2>1, <2>2, MoveKeeps
       DEF Places, Aside, Unoccupied, OfCustom, Swapping, Told, world
<1>6. QED
  BY <1>4, <1>5

LEMMA ReportStep ==
  ASSUME IInv, NEW c \in Callers, Report(c) \/ ReportFailure(c)
  PROVE  IInv'
<1> USE DEF Report, ReportFailure
<1>1. job[c].at \in {"reporting", "failing"}
  BY DEF At
<1>2. TypeOK /\ job[c].source \in CustomFeeds
  BY <1>1, AtWork DEF Aside, Unoccupied, OfCustom
<1>3. Later
  BY <1>2, TroubleStep DEF Kinds
<1>4. CASE Done(c) \/ Escape(c)
  BY <1>1, <1>2, <1>3, <1>4, DoneEnds, EndKeeps DEF Aside, Swapping, Told
<1>5. CASE Goto(c, "failing")
  <2>1. Moved(c, "failing", job[c].picked)
    BY <1>2, <1>5, GotoMoves DEF Places
  <2>2. PickedFor(c)' /\ SwapOf(c)'
    BY <2>1 DEF Moved, PickedFor, SwapOf, At, Deleting, Told
  <2>3. QED
    BY <1>1, <1>2, <1>3, <2>1, <2>2, MoveKeeps
       DEF Places, Aside, Unoccupied, Holding, Swapping, Told
<1>6. QED
  BY <1>4, <1>5

LEMMA ThrowStep ==
  ASSUME IInv, NEW c \in Callers, Throw(c)
  PROVE  IInv'
<1> USE DEF Throw
<1>1. job[c].at \notin Aside \cup Unoccupied \cup {"opening"}
  BY DEF Aside, Unoccupied
<1>2. TypeOK
  BY DEF IInv
<1>3. Later /\ ~Uncut'
  BY <1>2, Faulted
<1>4. CASE Done(c)
  BY <1>1, <1>2, <1>3, <1>4, DoneEnds, EndKeeps DEF Unoccupied
<1>5. CASE job[c].source \in CustomFeeds /\ Goto(c, "failing")
  <2>1. Moved(c, "failing", job[c].picked)
    BY <1>2, <1>5, GotoMoves DEF Places
  <2>2. PickedFor(c)' /\ SwapOf(c)'
    BY <2>1 DEF Moved, PickedFor, SwapOf, At, Deleting, Told
  <2>3. QED
    BY <1>1, <1>3, <1>5, <2>1, <2>2, MoveKeeps
       DEF Places, Aside, Unoccupied, Holding, Swapping, Told
<1>6. QED
  BY <1>4, <1>5

LEMMA PickStagedStep ==
  ASSUME IInv, NEW c \in Callers, PickStaged(c)
  PROVE  IInv'
<1> USE DEF PickStaged
<1>1. job[c].at = "unstaging"
  BY DEF At
<1>2. TypeOK /\ job[c] \in Job /\ WellFormed(job[c]) /\ job[c].data \in Contents
  BY <1>1, AtWork DEF Aside, Unoccupied, Holding
<1>3. Later
  BY <1>2, NoTrouble DEF world
<1>4. CASE KeyIds(job[c].source, TRUE) = {}
  <2> DEFINE j == [job[c] EXCEPT !.at = "staging", !.left = job[c].data]
  <2>1. j \in Job
    BY <1>2 DEF Job, Places
  <2>2. job' = [job EXCEPT ![c] = j]
    BY <1>4
  <2>3. Only(c) /\ job'[c] = j
    BY <1>2, <2>1, <2>2, OnlyOne
  <2>4. /\ job'[c].at = "staging" /\ job'[c].left = job[c].data /\ job'[c].data = job[c].data
        /\ job'[c].source = job[c].source /\ job'[c].all = job[c].all
    BY <1>2, <2>3 DEF Job
  <2>5. WellFormed(job'[c])
    BY <1>1, <1>2, <2>4 DEF WellFormed, Unoccupied, OfCustom, Holding, Swapping, Told
  <2>6. PickedFor(c)'
    BY <2>4 DEF PickedFor, Deleting
  <2>7. SwapOf(c)'
    <3>1. {r \in blocklist' : r.source = job'[c].source /\ r.staged} = {}
      BY <1>4, <2>4, NoneOfKey, ZenonT(60) DEF tables
    <3>2. job'[c].data \ job'[c].left = {}
      BY <2>4
    <3>3. QED
      BY <2>4, <3>1, <3>2 DEF SwapOf, At, Told, StagedRows, Exactly
  <2>8. QED
    BY <1>1, <1>3, <2>3, <2>4, <2>5, <2>6, <2>7, WalkKeeps
       DEF Aside, Syncing, Swapping, Told, world
<1>5. CASE GotoWith(c, "deletingStaged", Chunk(KeyIds(job[c].source, TRUE)))
  <2> DEFINE ids == Chunk(KeyIds(job[c].source, TRUE))
  <2>1. /\ ids \subseteq RowIds
        /\ \A r \in blocklist : r.id \in ids => r.source = job[c].source /\ r.staged
    BY <1>2, StagedChunk
  <2>2. Moved(c, "deletingStaged", ids)
    BY <1>2, <1>5, <2>1, GotoWithMoves DEF Places
  <2> HIDE DEF ids
  <2>3. PickedFor(c)' /\ SwapOf(c)'
    BY <2>1, <2>2 DEF Moved, PickedFor, SwapOf, At, Deleting, Told, tables
  <2>4. QED
    BY <1>1, <1>2, <1>3, <2>2, <2>3, MoveKeeps
       DEF Places, Aside, Unoccupied, OfCustom, Swapping, Told, world
<1>6. QED
  BY <1>4, <1>5

LEMMA PickLiveStep ==
  ASSUME IInv, NEW c \in Callers, PickLive(c)
  PROVE  IInv'
<1> USE DEF PickLive
<1> DEFINE s == job[c].source
<1>1. job[c].at \in {"retiring", "staging"}
  BY DEF At
<1>2. TypeOK /\ job[c] \in Job /\ WellFormed(job[c]) /\ job[c].data \in Contents
  BY <1>1, AtWork DEF Aside, Unoccupied, Holding, Swapping
<1>3. Later
  BY <1>2, NoTrouble DEF world
<1>4. Locked' /\ s \notin tangled => Exactly(StagedRows(s), job[c].data)
  <2> SUFFICES ASSUME Locked', s \notin tangled PROVE Exactly(StagedRows(s), job[c].data)
    OBVIOUS
  <2>1. SwapOf(c)
    BY <1>3 DEF IInv, SwapInv, Later
  <2>2. CASE At(c, "retiring")
    BY <2>1, <2>2 DEF SwapOf, At
  <2>3. CASE At(c, "staging") /\ job[c].left = {}
    <3>1. job[c].data \ job[c].left = job[c].data
      BY <2>3
    <3>2. QED
      BY <2>1, <2>3, <3>1 DEF SwapOf
  <2>4. QED
    BY <2>2, <2>3
<1>5. CASE KeyIds(s, FALSE) = {} /\ GotoWith(c, "promoting", {})
  <2>1. Moved(c, "promoting", {})
    BY <1>2, <1>5, GotoWithMoves DEF Places
  <2>2. Rows(s) = StagedRows(s)
    BY <1>2, <1>5, NoneOfKey, ZenonT(60) DEF Rows, StagedRows, TypeOK, Row
  <2>3. Locked' /\ s \notin tangled => SwapOf(c)'
    BY <1>4, <2>1, <2>2 DEF Moved, SwapOf, At, Told, Rows, Exactly, tables
  <2>4. PickedFor(c)'
    BY <2>1 DEF Moved, PickedFor, Deleting
  <2>5. QED
    BY <1>1, <1>2, <1>3, <2>1, <2>3, <2>4, MoveKeeps
       DEF Places, Aside, Unoccupied, OfCustom, Swapping, Told, world
<1>6. CASE GotoWith(c, "deletingLive", Chunk(KeyIds(s, FALSE)))
  <2> DEFINE ids == Chunk(KeyIds(s, FALSE))
  <2>1. /\ ids \subseteq RowIds
        /\ \A r \in blocklist : r.id \in ids => r.source = s /\ ~r.staged
    BY <1>2, LiveChunk
  <2>2. Moved(c, "deletingLive", ids)
    BY <1>2, <1>6, <2>1, GotoWithMoves DEF Places
  <2> HIDE DEF ids
  <2>3. PickedFor(c)'
    BY <2>1, <2>2 DEF Moved, PickedFor, At, Deleting, tables
  <2>4. Locked' /\ s \notin tangled => SwapOf(c)'
    BY <1>4, <2>2 DEF Moved, SwapOf, At, Told, StagedRows, Exactly, tables
  <2>5. QED
    BY <1>1, <1>2, <1>3, <2>2, <2>3, <2>4, MoveKeeps
       DEF Places, Aside, Unoccupied, OfCustom, Swapping, Told, world
<1>7. QED
  BY <1>5, <1>6

LEMMA PickPromotedStep ==
  ASSUME IInv, NEW c \in Callers, PickPromoted(c)
  PROVE  IInv'
<1> USE DEF PickPromoted
<1> DEFINE s == job[c].source
<1>1. job[c].at = "promoting"
  BY DEF At
<1>2. TypeOK /\ job[c] \in Job /\ WellFormed(job[c]) /\ job[c].data \in Contents
  BY <1>1, AtWork DEF Aside, Unoccupied, Holding, Swapping
<1>3. Later
  BY <1>2, NoTrouble DEF world
<1>4. Locked' /\ s \notin tangled => Exactly(Rows(s), job[c].data)
  BY <1>1, <1>3 DEF IInv, SwapInv, SwapOf, Later
<1>5. CASE KeyIds(s, TRUE) = {} /\ GotoWith(c, "forgetting", {})
  <2>1. Moved(c, "forgetting", {})
    BY <1>2, <1>5, GotoWithMoves DEF Places
  <2>2. StagedRows(s) = {}
    BY <1>5, NoneOfKey DEF StagedRows
  <2>3. Locked' /\ s \notin tangled => SwapOf(c)'
    BY <1>4, <2>1, <2>2 DEF Moved, SwapOf, At, Told, Rows, StagedRows, Exactly, tables
  <2>4. PickedFor(c)'
    BY <2>1 DEF Moved, PickedFor, Deleting
  <2>5. QED
    BY <1>1, <1>2, <1>3, <2>1, <2>3, <2>4, MoveKeeps
       DEF Places, Aside, Unoccupied, OfCustom, Swapping, Told, world
<1>6. CASE GotoWith(c, "renaming", Chunk(KeyIds(s, TRUE)))
  <2> DEFINE ids == Chunk(KeyIds(job[c].source, TRUE))
  <2>1. /\ ids \subseteq RowIds
        /\ \A r \in blocklist : r.id \in ids => r.source = job[c].source /\ r.staged
    BY <1>2, StagedChunk
  <2>2. Moved(c, "renaming", ids)
    BY <1>2, <1>6, <2>1, GotoWithMoves DEF Places
  <2> HIDE DEF ids
  <2>3. PickedFor(c)'
    BY <2>1, <2>2 DEF Moved, PickedFor, At, Deleting, tables
  <2>4. Locked' /\ s \notin tangled => SwapOf(c)'
    BY <1>4, <2>2 DEF Moved, SwapOf, At, Told, Rows, Exactly, tables
  <2>5. QED
    BY <1>1, <1>2, <1>3, <2>2, <2>3, <2>4, MoveKeeps
       DEF Places, Aside, Unoccupied, OfCustom, Swapping, Told, world
<1>7. QED
  BY <1>5, <1>6

-----------------------------------------------------------------------------
(* The steps that write rows.                                              *)

(* Of the syncs that take the lock, one is at work at a time.              *)
LEMMA Alone ==
  ASSUME GuardInv, Locked, NEW c \in Callers, NEW d \in Callers, Syncing(c), Syncing(d)
  PROVE  c = d
BY DEF GuardInv, Holds

LEMMA WriteKeeps ==
  ASSUME IInv, UNCHANGED <<feedState, feeds, guards, world>>,
         NEW c \in Callers, Apart(c),
         job'[c].all = job[c].all, job'[c].source = job[c].source,
         job[c].at \in Holding, job'[c].at \in Holding,
         WellFormed(job'[c]),
         blocklist' \subseteq Row,
         \A r, q \in blocklist' : r.id = q.id => r = q,
         Locked' => PickedFor(c)',
         Locked' /\ job'[c].source \notin tangled' => SwapOf(c)',
         \A s \in CustomFeeds : LiveRows(s) = {} =>
            LiveRows(s)' = {} \/ job[c].source = s,
         \A s \in Sources : Locked' /\ Uncut' =>
            Live(s) \subseteq Live(s)' \/ (job[c].source = s /\ job'[c].at \in Swapping),
         job[c].at \in Swapping \cup Told => job'[c].at \in Swapping
  PROVE  IInv'
<1>1. TypeOK /\ TypeOK'
  BY DEF IInv, TypeOK, Apart, feeds, guards, world
<1>2. Later /\ (Locked' <=> Locked)
  BY <1>1, NoTrouble DEF world
<1>3. /\ job[c].at \notin Aside \cup Unoccupied \cup OfCustom
      /\ job'[c].at \notin Aside \cup Unoccupied \cup OfCustom
      /\ Syncing(c) /\ Syncing(c)'
  BY DEF Aside, Unoccupied, OfCustom, Syncing, Holding, Swapping, Told
<1>4. JobInv'
  BY JobsKept DEF IInv
<1>5. GuardInv'
  BY <1>2, <1>3, GuardsKept DEF IInv, Aside, world
<1>6. PickInv' /\ SwapInv'
  <2>1. ASSUME Locked', NEW d \in Callers, d # c PROVE PickedFor(d)' /\ SwapOf(d)'
    <3>1. ~Syncing(d)
      BY <1>2, <1>3, <2>1, Alone DEF IInv
    <3>2. job'[d].at \notin Deleting \cup Swapping \cup Told \cup {"staging"}
      BY <2>1, <3>1 DEF Apart, Syncing, Deleting, Swapping, Told
    <3>3. QED
      BY <3>2 DEF PickedFor, SwapOf, At, Swapping, Told
  <2>2. QED
    BY <2>1 DEF PickInv, SwapInv
<1>7. RemovalInv'
  <2>1. \A s \in CustomFeeds : LiveRows(s) = {} =>
           LiveRows(s)' = {} \/ (job[c].source = s /\ job[c].at # "opening")
    BY <1>3 DEF OfCustom
  <2>2. /\ job[c].at # "removing" /\ job'[c].at # "removing"
        /\ job'[c].source = job[c].source /\ job[c].at # "opening"
    BY <1>3 DEF OfCustom
  <2>3. QED
    BY <1>2, <2>1, <2>2, RemovalKept DEF IInv
<1>8. CoreInv'
  <2>1. \A s \in Sources : Locked' /\ Uncut' =>
           Live(s) \subseteq Live(s)' \/ (job'[c].source = s /\ job'[c].at \in Swapping \cup Told)
    OBVIOUS
  <2>2. job[c].at # "removing" /\ job'[c].at # "removing"
    BY <1>3 DEF OfCustom
  <2>3. QED
    BY <1>2, <2>1, <2>2, CoreKept DEF IInv
<1>9. QED
  BY <1>1, <1>4, <1>5, <1>6, <1>7, <1>8 DEF IInv

LEMMA DeleteStep ==
  ASSUME IInv, NEW c \in Callers, Delete(c)
  PROVE  IInv'
<1> USE DEF Delete
<1> DEFINE s == job[c].source
           place == IF At(c, "deletingStaged") THEN "unstaging" ELSE "retiring"
<1>1. job[c].at \in {"deletingStaged", "deletingLive"}
  OBVIOUS
<1>2. TypeOK /\ job[c] \in Job /\ WellFormed(job[c]) /\ job[c].data \in Contents
  BY <1>1, AtWork DEF Aside, Unoccupied, Holding, Swapping
<1>3. Moved(c, place, {})
  BY <1>2, GotoWithMoves DEF Places
<1>4. /\ Apart(c) /\ job'[c].at = place /\ job'[c].all = job[c].all /\ job'[c].source = s
      /\ job'[c].data = job[c].data /\ job'[c].left = job[c].left /\ job'[c].picked = {}
  BY <1>3, OnlyApart DEF Moved
<1>5. /\ job[c].at \in Holding /\ job'[c].at \in Holding
      /\ job[c].at \in Swapping \cup Told => job'[c].at \in Swapping
  BY <1>1, <1>4 DEF Holding, Swapping, Told, At
<1>6. WellFormed(job'[c])
  BY <1>1, <1>2, <1>4 DEF WellFormed, Unoccupied, OfCustom, Holding, Swapping, Told
<1>7. blocklist' = {r \in blocklist : r.id \notin job[c].picked} /\ blocklist' \subseteq blocklist
  OBVIOUS
<1>8. Locked' => Locked /\ PickedFor(c)
  BY <1>2, NoTrouble DEF IInv, PickInv, world
<1>9. PickedFor(c)'
  BY <1>4 DEF PickedFor, Deleting
<1>10. Locked' /\ s \notin tangled => SwapOf(c)'
  <2> SUFFICES ASSUME Locked', s \notin tangled PROVE SwapOf(c)'
    OBVIOUS
  <2>1. CASE At(c, "deletingStaged")
    BY <1>4, <2>1 DEF SwapOf, At, Told
  <2>2. CASE At(c, "deletingLive")
    <3>1. Exactly(StagedRows(s), job[c].data)
      BY <1>8, <2>2 DEF IInv, SwapInv, SwapOf, At
    <3>2. {r \in blocklist' : r.source = s /\ r.staged} = StagedRows(s)
      BY <1>7, <1>8, <2>2 DEF PickedFor, At, Deleting, StagedRows
    <3>3. QED
      BY <1>4, <2>2, <3>1, <3>2 DEF SwapOf, At, Told, StagedRows, Exactly
  <2>3. QED
    BY <1>1, <2>1, <2>2 DEF At
<1>11. \A f \in CustomFeeds : LiveRows(f) = {} => LiveRows(f)' = {}
  BY <1>7 DEF LiveRows
<1>12. \A f \in Sources : Locked' =>
          Live(f) \subseteq Live(f)' \/ (s = f /\ job'[c].at \in Swapping)
  <2> SUFFICES ASSUME NEW f \in Sources, Locked', ~(s = f /\ job'[c].at \in Swapping)
               PROVE  LiveRows(f) \subseteq LiveRows(f)'
    BY DEF Live
  <2>1. \A r \in LiveRows(f) : r.id \notin job[c].picked
    BY <1>1, <1>4, <1>8 DEF LiveRows, PickedFor, Deleting, Swapping, At
  <2>2. QED
    BY <1>7, <2>1 DEF LiveRows
<1>13. blocklist' \subseteq Row /\ \A r, q \in blocklist' : r.id = q.id => r = q
  BY <1>2, <1>7 DEF TypeOK
<1> HIDE DEF place, Delete
<1>14. UNCHANGED <<feedState, feeds, guards, world>>
  BY DEF Delete
<1>15. QED
  BY <1>4, <1>5, <1>6, <1>9, <1>10, <1>11, <1>12, <1>13, <1>14, WriteKeeps DEF feeds

\* What a row is renamed to.
Promoted(c, r) ==
    [r EXCEPT !.source = IF r.id \in job[c].picked THEN job[c].source ELSE @,
              !.staged = @ /\ r.id \notin job[c].picked]

LEMMA RenameStep ==
  ASSUME IInv, NEW c \in Callers, Rename(c)
  PROVE  IInv'
<1> DEFINE s == job[c].source
<1>1. job[c].at = "renaming" /\ UNCHANGED <<feedState, feeds, guards, world>>
  BY DEF At, Rename
<1>2. /\ TypeOK /\ job[c] \in Job /\ WellFormed(job[c]) /\ job[c].data \in Contents
      /\ s \in Sources
  BY <1>1, AtWork DEF Aside, Unoccupied, Holding, Swapping
<1>3. Moved(c, "promoting", {})
  BY <1>2, GotoWithMoves DEF Places, Rename
<1>4. /\ Apart(c) /\ job'[c].at = "promoting" /\ job'[c].all = job[c].all /\ job'[c].source = s
      /\ job'[c].data = job[c].data /\ job'[c].left = job[c].left /\ job'[c].picked = {}
  BY <1>3, OnlyApart DEF Moved
<1>5. /\ job[c].at \in Holding /\ job'[c].at \in Holding
      /\ job'[c].at \in Swapping
  BY <1>1, <1>4 DEF Holding, Swapping, Told
<1>6. WellFormed(job'[c])
  BY <1>1, <1>2, <1>4 DEF WellFormed, Unoccupied, OfCustom, Holding, Swapping, Told
<1>7. \A r \in blocklist :
         /\ Promoted(c, r) \in Row /\ Promoted(c, r).id = r.id /\ Promoted(c, r).value = r.value
         /\ Promoted(c, r).source = IF r.id \in job[c].picked THEN s ELSE r.source
         /\ Promoted(c, r).staged <=> r.staged /\ r.id \notin job[c].picked
  BY <1>2 DEF TypeOK, Row, Promoted
<1>8. /\ \A q \in blocklist' : \E r \in blocklist : q = Promoted(c, r)
      /\ \A r \in blocklist : Promoted(c, r) \in blocklist'
  BY DEF Promoted, Rename
<1>9. Locked' => Locked /\ PickedFor(c)
  BY <1>1, <1>2, NoTrouble DEF IInv, PickInv, world
<1>10. Locked' => \A r \in blocklist : Promoted(c, r).source = r.source
  BY <1>1, <1>7, <1>9 DEF PickedFor
<1>11. blocklist' \subseteq Row /\ \A r, q \in blocklist' : r.id = q.id => r = q
  <2>1. blocklist' \subseteq Row
    BY <1>7, <1>8
  <2>2. ASSUME NEW q \in blocklist', NEW p \in blocklist', q.id = p.id PROVE q = p
    <3>1. PICK r \in blocklist : q = Promoted(c, r)
      BY <1>8
    <3>2. PICK t \in blocklist : p = Promoted(c, t)
      BY <1>8
    <3>3. r = t
      BY <1>2, <1>7, <2>2, <3>1, <3>2 DEF TypeOK
    <3>4. QED
      BY <3>1, <3>2, <3>3
  <2>3. QED
    BY <2>1, <2>2
<1>12. PickedFor(c)'
  BY <1>4 DEF PickedFor, Deleting
<1>13. Locked' /\ s \notin tangled => SwapOf(c)'
  <2> SUFFICES ASSUME Locked', s \notin tangled PROVE SwapOf(c)'
    OBVIOUS
  <2>1. Exactly(Rows(s), job[c].data)
    BY <1>1, <1>9 DEF IInv, SwapInv, SwapOf, At
  <2> DEFINE rows == {q \in blocklist' : q.source = s}
  <2>2. \A q \in rows : \E r \in Rows(s) : q = Promoted(c, r) /\ q.value = r.value
    BY <1>7, <1>8, <1>10 DEF Rows
  <2>3. \A r \in Rows(s) : Promoted(c, r) \in rows /\ Promoted(c, r).value = r.value
    BY <1>7, <1>8, <1>10 DEF Rows
  <2> HIDE DEF rows
  <2>4. {q.value : q \in rows} = job[c].data
    BY <2>1, <2>2, <2>3 DEF Exactly
  <2>5. \A q, p \in rows : q.value = p.value => q = p
    BY <2>1, <2>2 DEF Exactly
  <2>6. Exactly(rows, job[c].data)
    BY <2>4, <2>5 DEF Exactly
  <2>7. QED
    BY <1>4, <2>6 DEF SwapOf, At, Told, Rows, Exactly, rows
<1>14. \A f \in CustomFeeds : LiveRows(f) = {} => LiveRows(f)' = {} \/ s = f
  <2> SUFFICES ASSUME NEW f \in CustomFeeds, LiveRows(f) = {}, s # f,
                      NEW q \in blocklist', q.source = f
               PROVE  q.staged
    BY DEF LiveRows
  <2>1. PICK r \in blocklist : q = Promoted(c, r)
    BY <1>8
  <2>2. r.id \notin job[c].picked /\ r.source = f
    BY <1>7, <2>1
  <2>3. r.staged
    BY <2>2 DEF LiveRows
  <2>4. QED
    BY <1>7, <2>1, <2>2, <2>3
<1>15. \A f \in Sources : Locked' => Live(f) \subseteq Live(f)'
  <2> SUFFICES ASSUME NEW f \in Sources, Locked', NEW r \in LiveRows(f)
               PROVE  \E q \in LiveRows(f)' : q.value = r.value
    BY DEF Live
  <2>1. r \in blocklist /\ r.source = f /\ ~r.staged
    BY DEF LiveRows
  <2>2. Promoted(c, r).source = f /\ ~Promoted(c, r).staged /\ Promoted(c, r).value = r.value
    BY <1>7, <1>10, <2>1
  <2>3. QED
    BY <1>8, <2>1, <2>2 DEF LiveRows
<1>16. QED
  BY <1>1, <1>4, <1>5, <1>6, <1>11, <1>12, <1>13, <1>14, <1>15, WriteKeeps DEF feeds

-----------------------------------------------------------------------------
(* The hash, and how a custom feed is opened.                              *)

(* What is recorded is what is live, unless the feed is being removed.     *)
LEMMA ToldIsLive ==
  ASSUME IInv, Locked, Uncut, NEW c \in Callers, job[c].at \in Told, Kept(job[c].source)
  PROVE  Always \subseteq Live(job[c].source)
<1> DEFINE s == job[c].source
<1>1. /\ TypeOK /\ job[c].source \in Sources
      /\ job[c].data \in Contents
  BY AtWork DEF Aside, Unoccupied, Holding, Told
<1>2. s \notin tangled
  BY <1>1 DEF IInv, RemovalInv, RemovalOf, TypeOK
<1>3. Exactly(Rows(s), job[c].data) /\ StagedRows(s) = {}
  BY <1>2 DEF IInv, SwapInv, SwapOf
<1>4. Rows(s) \subseteq LiveRows(s)
  BY <1>3 DEF Rows, StagedRows, LiveRows
<1>5. job[c].data \subseteq Live(s)
  BY <1>3, <1>4 DEF Exactly, Live
<1>6. Always \subseteq job[c].data
  BY <1>1 DEF Always
<1>7. QED
  BY <1>5, <1>6

LEMMA StateKeeps ==
  ASSUME IInv, Later, UNCHANGED <<guards, blocklist, feeds, published>>,
         NEW c \in Callers, Only(c),
         feedState' \in [Sources -> Contents \cup {NoState}],
         \A s \in Sources : s # job[c].source => feedState'[s] = feedState[s],
         job'[c].all = job[c].all,
         job[c].at \in Told,
         job'[c].at \notin Aside \cup {"staging", "opening", "retiring", "deletingLive",
                                       "deletingStaged", "promoting", "renaming", "forgetting"},
         job'[c].source \in {NoSource, job[c].source},
         WellFormed(job'[c]),
         job'[c].at \in Told =>
            /\ job'[c].source = job[c].source /\ job'[c].data = job[c].data
            /\ feedState[job[c].source] = NoState => feedState'[job[c].source] = NoState
  PROVE  IInv'
<1> DEFINE s == job[c].source
<1>1. /\ TypeOK /\ s \in Sources
      /\ job[c].at \notin Aside \cup Unoccupied \cup OfCustom
  BY AtWork DEF Aside, Unoccupied, OfCustom, Told
<1>2. TypeOK'
  BY DEF IInv, TypeOK, Only, Later, feeds, guards
<1>3. JobInv'
  BY OnlyApart, JobsKept DEF IInv
<1>4. GuardInv'
  BY <1>1, OnlyApart, GuardsKept DEF IInv, Aside, Syncing, Unoccupied
<1>5. PickInv' /\ SwapInv'
  <2>1. PickedFor(c)'
    BY DEF PickedFor, Deleting
  <2>2. Locked' /\ job'[c].source \notin tangled' => SwapOf(c)'
    <3> SUFFICES ASSUME Locked', job'[c].source \notin tangled' PROVE SwapOf(c)'
      OBVIOUS
    <3>1. CASE job'[c].at \in Told
      <4>1. SwapOf(c)
        BY <3>1 DEF IInv, SwapInv, Later, feeds
      <4>2. QED
        BY <3>1, <4>1 DEF SwapOf, At, Told, Rows, StagedRows, Exactly
    <3>2. CASE job'[c].at \notin Told
      BY <3>2 DEF SwapOf, At
    <3>3. QED
      BY <3>1, <3>2
  <2>3. QED
    BY <2>1, <2>2, RowsKept DEF IInv, feeds
<1>6. Locked' /\ Uncut' /\ Kept(s) => Always \subseteq Live(s)
  BY ToldIsLive DEF Later
<1>7. job[c].at # "removing" /\ job'[c].at # "removing"
  BY DEF Aside, Told
<1>8. RemovalInv'
  <2>1. \A f \in CustomFeeds : customFeed[f] = "absent" /\ feedState[f] = NoState =>
           feedState'[f] = NoState
    BY <1>1, FeedAssumption DEF IInv, RemovalInv, RemovalOf, At, OfCustom
  <2>2. \A f \in CustomFeeds : LiveRows(f) = {} => LiveRows(f)' = {}
    BY DEF LiveRows
  <2>3. job'[c].source \in CustomFeeds => job'[c].source = s /\ job[c].at # "opening"
    BY <1>1, FeedAssumption DEF OfCustom
  <2>4. QED
    BY <1>7, <2>1, <2>2, <2>3, OnlyApart, RemovalKept DEF IInv
<1>9. CoreInv'
  <2>1. \A f \in Sources : Locked' /\ Uncut' /\ Kept(f) /\ feedState'[f] # NoState =>
            feedState[f] # NoState \/ Always \subseteq Live(f)'
    <3>1. \A f \in Sources : Live(f)' = Live(f)
      BY DEF Live, LiveRows
    <3>2. QED
      BY <1>6, <3>1
  <2>2. \A f \in Sources : Live(f) \subseteq Live(f)'
    BY DEF Live, LiveRows
  <2>3. QED
    BY <1>6, <1>7, <2>1, <2>2, OnlyApart, CoreKept DEF IInv
<1>10. QED
  BY <1>2, <1>3, <1>4, <1>5, <1>8, <1>9 DEF IInv

LEMMA ForgetStateStep ==
  ASSUME IInv, NEW c \in Callers, ForgetState(c)
  PROVE  IInv'
<1> USE DEF ForgetState
<1>1. job[c].at = "forgetting"
  BY DEF At
<1>2. /\ TypeOK /\ job[c] \in Job /\ WellFormed(job[c]) /\ job[c].data \in Contents
      /\ job[c].source \in Sources
  BY <1>1, AtWork DEF Aside, Unoccupied, Holding, Told
<1>3. Later
  BY <1>2, TroubleStep DEF Kinds
<1>4. Moved(c, "recording", job[c].picked)
  BY <1>2, GotoMoves DEF Places
<1>5. feedState' \in [Sources -> Contents \cup {NoState}]
  BY <1>2 DEF TypeOK
<1>6. /\ \A s \in Sources : s # job[c].source => feedState'[s] = feedState[s]
      /\ feedState[job[c].source] = NoState => feedState'[job[c].source] = NoState
  BY <1>2 DEF TypeOK
<1>7. WellFormed(job'[c])
  BY <1>1, <1>2, <1>4 DEF Moved, WellFormed, Unoccupied, OfCustom, Holding, Told, Swapping
<1>8. QED
  BY <1>1, <1>3, <1>4, <1>5, <1>6, <1>7, StateKeeps DEF Moved, Told, Aside

LEMMA RecordStateStep ==
  ASSUME IInv, NEW c \in Callers, RecordState(c)
  PROVE  IInv'
<1> USE DEF RecordState
<1>1. job[c].at = "recording"
  BY DEF At
<1>2. /\ TypeOK /\ job[c] \in Job /\ WellFormed(job[c]) /\ job[c].data \in Contents
      /\ job[c].source \in Sources
  BY <1>1, AtWork DEF Aside, Unoccupied, Holding, Told
<1>3. Later
  BY <1>2, TroubleStep DEF Kinds
<1>4. feedState' \in [Sources -> Contents \cup {NoState}]
  BY <1>2 DEF TypeOK
<1>5. \A s \in Sources : s # job[c].source => feedState'[s] = feedState[s]
  BY <1>2 DEF TypeOK
<1>6. CASE Ended(c)
  <2>1. WellFormed(job'[c])
    BY <1>6 DEF Ended, WellFormed, Unoccupied, OfCustom, Holding, Told, Swapping
  <2>2. QED
    BY <1>1, <1>3, <1>4, <1>5, <1>6, <2>1, StateKeeps DEF Ended, Told, Aside
<1>7. CASE job[c].source \in CustomFeeds /\ Moved(c, "reporting", job[c].picked)
  <2>1. WellFormed(job'[c])
    BY <1>1, <1>2, <1>7 DEF Moved, WellFormed, Unoccupied, OfCustom, Holding, Told, Swapping
  <2>2. QED
    BY <1>1, <1>3, <1>4, <1>5, <1>7, <2>1, StateKeeps DEF Moved, Told, Aside
<1>8. QED
  BY <1>2, <1>6, <1>7, StoredMoves

LEMMA OpenStep ==
  ASSUME IInv, NEW c \in Callers, Open(c)
  PROVE  IInv'
<1> USE DEF Open
<1> DEFINE s == job[c].source
<1>1. job[c].at = "opening" /\ UNCHANGED <<guards, blocklist, feedState, customFeed, published>>
  BY DEF At
<1>2. TypeOK /\ job[c] \in Job /\ WellFormed(job[c]) /\ s \in CustomFeeds
  BY <1>1, AtWork DEF Aside, Unoccupied, OfCustom
<1>3. Later
  BY <1>2, TroubleStep DEF Kinds
<1>4. CASE (Done(c) \/ Escape(c)) /\ UNCHANGED tangled
  BY <1>1, <1>2, <1>3, <1>4, DoneEnds, EndKeeps DEF Aside, Swapping, Told, tables, feeds
<1>5. CASE /\ customFeed[s] \in {"on", "off"}
           /\ Goto(c, "fetching")
           /\ tangled' = tangled \cup {f \in {s} : \E d \in Callers : Removing(d, f)}
  <2>1. Moved(c, "fetching", job[c].picked)
    BY <1>2, <1>5, GotoMoves DEF Places
  <2>2. Apart(c) /\ Only(c) /\ job'[c].at = "fetching" /\ job'[c].all = job[c].all /\ job'[c].source = s
    BY <2>1, OnlyApart DEF Moved
  <2>3. TypeOK'
    BY <1>1, <1>2, <1>3, <1>5, <2>2 DEF TypeOK, Only, Later, guards
  <2>4. WellFormed(job'[c])
    BY <1>1, <1>2, <2>2 DEF WellFormed, Unoccupied, OfCustom, Holding, Told, Swapping
  <2>5. JobInv'
    BY <2>2, <2>4, JobsKept DEF IInv
  <2>6. GuardInv'
    BY <1>1, <1>3, <2>2, GuardsKept DEF IInv, Syncing
  <2>7. PickInv' /\ SwapInv'
    <3>1. PickedFor(c)' /\ SwapOf(c)'
      BY <2>2 DEF PickedFor, SwapOf, At, Deleting, Told
    <3>2. QED
      BY <1>1, <1>3, <1>5, <2>2, <3>1, RowsKept DEF IInv
  <2>8. \A f : (\E d \in Callers : Removing(d, f)') <=> (\E d \in Callers : Removing(d, f))
    BY <1>1, <2>2 DEF Removing, At, Only
  <2>9. \A f \in Sources : Kept(f)' <=> Kept(f)
    BY <1>1, <2>8 DEF Kept, Removing, At
  <2>10. ASSUME NEW f \in CustomFeeds PROVE RemovalOf(f)'
    <3>1. RemovalOf(f) /\ LiveRows(f)' = LiveRows(f)
      BY <1>1 DEF IInv, RemovalInv, LiveRows
    <3>2. f = s => customFeed[f] \in {"on", "off"} /\ (f \in tangled' <=>
             f \in tangled \/ \E d \in Callers : Removing(d, f))
      BY <1>5
    <3>3. f # s => (f \in tangled' <=> f \in tangled)
      BY <1>5
    <3>4. \A d \in Callers : job'[d].source = f => job[d].source = f /\ (job'[d].at = job[d].at \/ f = s)
      BY <2>2 DEF Only
    <3>5. ASSUME f \notin tangled', customFeed'[f] = "removed" \/ \E d \in Callers : Removing(d, f)'
          PROVE  /\ LiveRows(f)' = {}
                 /\ \A d \in Callers : job'[d].source = f => job'[d].at \in {"opening", "removing"}
      <4>1. customFeed[f] = "removed" \/ \E d \in Callers : Removing(d, f)
        BY <1>1, <2>8, <3>5
      <4>2. f # s
        BY <3>2, <3>5, <4>1
      <4>3. QED
        BY <3>1, <3>3, <3>4, <3>5, <4>1, <4>2 DEF RemovalOf
    <3>6. ASSUME customFeed'[f] = "absent"
          PROVE  /\ feedState'[f] = NoState /\ f \notin tangled'
                 /\ \A d \in Callers : job'[d].source = f => At(d, "opening")'
      BY <1>1, <3>1, <3>2, <3>3, <3>4, <3>6 DEF RemovalOf, At
    <3>7. Uncut' /\ f \in tangled' => ~Kept(f)'
      <4>1. (\E d \in Callers : Removing(d, f)) => ~Kept(f)
        BY DEF Kept, Removing, At
      <4>2. QED
        BY <1>3, <2>9, <3>1, <3>2, <3>3, <4>1, FeedAssumption DEF RemovalOf, Later
    <3>8. QED
      BY <3>5, <3>6, <3>7 DEF RemovalOf
  <2>11. CoreInv'
    <3> SUFFICES ASSUME Locked', Uncut', NEW f \in Sources, feedState'[f] # NoState, Kept(f)'
                 PROVE  Always \subseteq Live(f)' \/ \E d \in Callers : Swaps(d, f)'
      BY DEF CoreInv
    <3>1. Always \subseteq Live(f) \/ \E d \in Callers : Swaps(d, f)
      BY <1>1, <1>3, <2>9 DEF IInv, CoreInv, Later
    <3>2. Live(f)' = Live(f)
      BY <1>1 DEF Live, LiveRows
    <3>3. \A d \in Callers : Swaps(d, f) => Swaps(d, f)'
      BY <1>1, <2>2 DEF Swaps, Only, Swapping, Told
    <3>4. QED
      BY <3>1, <3>2, <3>3
  <2>12. QED
    BY <2>3, <2>5, <2>6, <2>7, <2>10, <2>11 DEF IInv, RemovalInv
<1>6. QED
  BY <1>4, <1>5 DEF Removing

-----------------------------------------------------------------------------
(* Flag and lock.                                                          *)

(* A caller that is at no source neither before nor after disturbs flag    *)
(* and lock at most.                                                       *)
LEMMA OutsideKeeps ==
  ASSUME IInv, Later, UNCHANGED <<tables, published>>, NEW c \in Callers, Only(c),
         job[c].at \in Unoccupied, job'[c].at \in Unoccupied,
         WellFormed(job'[c]),
         inFlight' \in [Processes -> BOOLEAN], lockHolder' \in Callers \cup {NoCaller},
         GuardInv'
  PROVE  IInv'
<1>1. TypeOK'
  BY DEF IInv, TypeOK, Only, Later, tables, feeds
<1>2. JobInv'
  BY OnlyApart, JobsKept DEF IInv
<1>3. PickInv' /\ SwapInv'
  <2>1. PickedFor(c)' /\ SwapOf(c)'
    BY DEF PickedFor, SwapOf, At, Deleting, Told, Unoccupied
  <2>2. QED
    BY <2>1, RowsKept DEF IInv, tables, feeds
<1>4. /\ job[c].at # "removing" /\ job'[c].at # "removing"
      /\ job[c].at \notin Swapping \cup Told
      /\ job'[c].source \notin CustomFeeds
  BY FeedAssumption DEF WellFormed, Unoccupied, Swapping, Told
<1>5. RemovalInv'
  <2>1. \A s \in CustomFeeds : LiveRows(s) = {} =>
           LiveRows(s)' = {} \/ (job[c].source = s /\ job[c].at # "opening")
    BY DEF LiveRows, tables
  <2>2. QED
    BY <1>4, <2>1, OnlyApart, RemovalKept DEF IInv, tables
<1>6. CoreInv'
  <2>1. \A s \in Sources : Live(s) \subseteq Live(s)'
    BY DEF Live, LiveRows, tables
  <2>2. QED
    BY <1>4, <2>1, OnlyApart, CoreKept DEF IInv, tables
<1>7. QED
  BY <1>1, <1>2, <1>3, <1>5, <1>6 DEF IInv

LEMMA StartAllStep ==
  ASSUME IInv, NEW c \in Callers, StartAll(c)
  PROVE  IInv'
<1>1. TypeOK /\ job[c] \in Job /\ WellFormed(job[c]) /\ job[c].at = "idle"
      /\ UNCHANGED <<lockHolder, tables, world>>
      /\ inFlight' = [inFlight EXCEPT ![ProcessOf[c]] = TRUE]
  BY JobTyped DEF IInv, JobInv, At, StartAll
<1>2. Later /\ (Locked' => Locked)
  BY <1>1, NoTrouble DEF world
<1> DEFINE j == [job[c] EXCEPT !.at = "locking", !.all = TRUE]
<1>3. j \in Job
  BY <1>1 DEF Job, Places
<1>4. Only(c) /\ job'[c] = j
  <2>1. job' = [job EXCEPT ![c] = j]
    BY DEF StartAll
  <2>2. QED
    BY <1>1, <1>3, <2>1, OnlyOne
<1>5. job'[c].at = "locking" /\ job'[c].all /\ job'[c].source = job[c].source
  BY <1>1, <1>4 DEF Job
<1>6. WellFormed(job'[c])
  BY <1>1, <1>5 DEF WellFormed, Unoccupied, OfCustom, Holding, Told, Swapping
<1>7. inFlight' \in [Processes -> BOOLEAN]
  BY <1>1 DEF TypeOK
<1>8. GuardInv'
  <2>1. ASSUME NEW p \in Processes, inFlight'[p]
        PROVE  \E d \in Callers : ProcessOf[d] = p /\ job'[d].all
    <3>1. CASE p = ProcessOf[c]
      BY <1>5, <3>1
    <3>2. CASE p # ProcessOf[c]
      <4>1. PICK d \in Callers : ProcessOf[d] = p /\ job[d].all
        BY <1>1, <2>1, <3>2 DEF IInv, GuardInv, TypeOK
      <4>2. QED
        BY <1>4, <1>5, <4>1 DEF Only
    <3>3. QED
      BY <3>1, <3>2
  <2>2. Holds(c)'
    <3>1. lockHolder # c /\ lockHolder' = lockHolder
      BY <1>1 DEF IInv, GuardInv, Holds, At, WellFormed
    <3>2. ~Syncing(c)' /\ ~At(c, "unlocking")'
      BY <1>5 DEF At, Syncing
    <3>3. QED
      BY <3>1, <3>2 DEF Holds
  <2>3. ASSUME NEW d \in Callers, d # c PROVE Holds(d)'
    BY <1>1, <1>2, <1>4, <2>3 DEF IInv, GuardInv, Holds, At, Syncing, Only
  <2>4. QED
    BY <2>1, <2>2, <2>3 DEF GuardInv
<1>9. QED
  BY <1>1, <1>2, <1>4, <1>5, <1>6, <1>7, <1>8, OutsideKeeps DEF Unoccupied, world, TypeOK

(* A flag that is cleared leaves those of the other processes.             *)
LEMMA FlagCleared ==
  ASSUME IInv, NEW c \in Callers, Only(c),
         inFlight' = [inFlight EXCEPT ![ProcessOf[c]] = FALSE]
  PROVE  /\ inFlight' \in [Processes -> BOOLEAN]
         /\ \A p \in Processes : inFlight'[p] => \E d \in Callers : ProcessOf[d] = p /\ job'[d].all
<1>1. TypeOK /\ ProcessOf[c] \in Processes
  BY FeedAssumption DEF IInv
<1>2. inFlight' \in [Processes -> BOOLEAN]
  BY <1>1 DEF TypeOK
<1>3. ASSUME NEW p \in Processes, inFlight'[p]
      PROVE  \E d \in Callers : ProcessOf[d] = p /\ job'[d].all
  <2>1. p # ProcessOf[c] /\ inFlight[p]
    BY <1>1, <1>3 DEF TypeOK
  <2>2. PICK d \in Callers : ProcessOf[d] = p /\ job[d].all
    BY <2>1 DEF IInv, GuardInv
  <2>3. QED
    BY <2>1, <2>2 DEF Only
<1>4. QED
  BY <1>2, <1>3

LEMMA TakeLockStep ==
  ASSUME IInv, NEW c \in Callers, TakeLock(c)
  PROVE  IInv'
<1>1. /\ TypeOK /\ job[c] \in Job /\ WellFormed(job[c]) /\ job[c].at = "locking" /\ job[c].all
      /\ UNCHANGED <<tables, published>>
  BY JobTyped DEF IInv, JobInv, At, TakeLock, WellFormed
<1>2. /\ \A d \in Callers : Holds(d)
      /\ \A p \in Processes : inFlight[p] => \E d \in Callers : ProcessOf[d] = p /\ job[d].all
      /\ lockHolder # c
  BY <1>1 DEF IInv, GuardInv, Holds, At
<1>3. ASSUME Begin(c)
      PROVE  /\ Only(c) /\ job'[c].at = "choosing" /\ job'[c].all /\ job'[c].source = job[c].source
             /\ WellFormed(job'[c])
  <2> DEFINE j == [job[c] EXCEPT !.at = "choosing", !.todo = Sources \ CustomFeeds]
  <2>1. j \in Job
    BY <1>1 DEF Job, Places
  <2>2. job' = [job EXCEPT ![c] = j]
    BY <1>3 DEF Begin
  <2>3. Only(c) /\ job'[c] = j
    BY <1>1, <2>1, <2>2, OnlyOne
  <2>4. job'[c].at = "choosing" /\ job'[c].all /\ job'[c].source = job[c].source
    BY <1>1, <2>3 DEF Job
  <2>5. QED
    BY <1>1, <2>3, <2>4 DEF WellFormed, Unoccupied, OfCustom, Holding, Told, Swapping
<1>4. CASE lockHolder = NoCaller /\ lockHolder' = c /\ Begin(c) /\ UNCHANGED <<inFlight, trouble>>
  <2>1. Later /\ (Locked' => Locked)
    BY <1>1, <1>4, NoTrouble
  <2>2. GuardInv'
    <3>1. \A p \in Processes : inFlight'[p] => \E d \in Callers : ProcessOf[d] = p /\ job'[d].all
      BY <1>2, <1>3, <1>4 DEF Only
    <3>2. ASSUME NEW d \in Callers PROVE Holds(d)'
      <4>1. CASE d = c
        BY <1>3, <1>4, <4>1 DEF Holds, At
      <4>2. CASE d # c
        BY <1>2, <1>3, <1>4, <2>1, <4>2, FeedAssumption DEF Holds, At, Only, Syncing
      <4>3. QED
        BY <4>1, <4>2
    <3>3. QED
      BY <3>1, <3>2 DEF GuardInv
  <2>3. QED
    BY <1>1, <1>3, <1>4, <2>1, <2>2, OutsideKeeps DEF Unoccupied, TypeOK
<1>5. CASE /\ UNCHANGED trouble \/ Happens("fault")
           /\ Refused(c) /\ UNCHANGED lockHolder
  <2>1. Later /\ (Locked' => Locked)
    BY <1>1, <1>5, TroubleStep DEF Kinds, Later
  <2>2. Only(c) /\ job'[c] = Idle
    BY <1>1, <1>5, IdleTyped, OnlyOne DEF Refused
  <2>3. job'[c].at = "idle" /\ WellFormed(job'[c])
    BY <2>2 DEF WellFormed, Unoccupied, OfCustom, Holding, Told, Swapping, Idle
  <2>4. GuardInv' /\ inFlight' \in [Processes -> BOOLEAN]
    <3>1. /\ inFlight' \in [Processes -> BOOLEAN]
          /\ \A p \in Processes : inFlight'[p] => \E d \in Callers : ProcessOf[d] = p /\ job'[d].all
      BY <1>5, <2>2, FlagCleared DEF Refused
    <3>2. ASSUME NEW d \in Callers PROVE Holds(d)'
      <4>1. CASE d = c
        BY <1>2, <1>5, <2>3, <4>1 DEF Holds, At, Syncing
      <4>2. CASE d # c
        BY <1>2, <1>5, <2>1, <2>2, <4>2 DEF Holds, At, Only, Syncing
      <4>3. QED
        BY <4>1, <4>2
    <3>3. QED
      BY <3>1, <3>2 DEF GuardInv
  <2>5. QED
    BY <1>1, <1>5, <2>1, <2>2, <2>3, <2>4, OutsideKeeps DEF Unoccupied, TypeOK
<1>6. CASE Happens("unguarded") /\ Begin(c) /\ UNCHANGED <<inFlight, lockHolder>>
  <2>1. Later /\ ~Locked'
    BY <1>1, <1>6, CountedTrouble DEF Kinds, Locked
  <2>2. GuardInv'
    <3>1. \A p \in Processes : inFlight'[p] => \E d \in Callers : ProcessOf[d] = p /\ job'[d].all
      BY <1>2, <1>3, <1>6 DEF Only
    <3>2. ASSUME NEW d \in Callers PROVE Holds(d)'
      <4>1. CASE d = c
        BY <1>2, <1>3, <1>6, <2>1, <4>1 DEF Holds, At
      <4>2. CASE d # c
        BY <1>2, <1>3, <1>6, <2>1, <4>2 DEF Holds, At, Only, Syncing
      <4>3. QED
        BY <4>1, <4>2
    <3>3. QED
      BY <3>1, <3>2 DEF GuardInv
  <2>3. QED
    BY <1>1, <1>3, <1>6, <2>1, <2>2, OutsideKeeps DEF Unoccupied, TypeOK
<1>7. QED
  BY <1>4, <1>5, <1>6 DEF TakeLock

LEMMA LeaveStep ==
  ASSUME IInv, NEW c \in Callers, Leave(c)
  PROVE  IInv'
<1> USE DEF Leave
<1>1. TypeOK /\ job[c].at = "walking" /\ Holds(c)
  BY DEF IInv, GuardInv, At
<1>2. Later /\ (Locked' => Locked)
  BY <1>1, NoTrouble DEF world
<1> DEFINE j == [Idle EXCEPT !.at = IF lockHolder = c THEN "unlocking" ELSE "idle"]
<1>3. j \in Job
  BY IdleTyped DEF Job, Places
<1>4. Only(c) /\ job'[c] = j
  BY <1>1, <1>3, OnlyOne
<1>5. /\ job'[c].at = IF lockHolder = c THEN "unlocking" ELSE "idle"
      /\ job'[c].all = FALSE /\ job'[c].source = NoSource
  BY <1>4 DEF Idle
<1>6. WellFormed(job'[c])
  BY <1>5 DEF WellFormed, Unoccupied, OfCustom, Holding, Told, Swapping
<1>7. /\ inFlight' \in [Processes -> BOOLEAN]
      /\ \A p \in Processes : inFlight'[p] => \E d \in Callers : ProcessOf[d] = p /\ job'[d].all
  BY <1>4, FlagCleared
<1>8. ASSUME NEW d \in Callers PROVE Holds(d)'
  <2>1. CASE d = c
    BY <1>5, <2>1 DEF Holds, At, Syncing
  <2>2. CASE d # c
    BY <1>2, <1>4, <2>2 DEF IInv, GuardInv, Holds, At, Only, Syncing
  <2>3. QED
    BY <2>1, <2>2
<1>9. GuardInv'
  BY <1>7, <1>8 DEF GuardInv
<1>10. QED
  BY <1>1, <1>2, <1>4, <1>5, <1>6, <1>7, <1>9, OutsideKeeps DEF Unoccupied, TypeOK, world

LEMMA UnlockStep ==
  ASSUME IInv, NEW c \in Callers, Unlock(c)
  PROVE  IInv'
<1> USE DEF Unlock
<1>1. TypeOK /\ job[c].at = "unlocking" /\ WellFormed(job[c]) /\ lockHolder = c
  BY DEF IInv, GuardInv, Holds, JobInv, At
<1>2. Later /\ (Locked' => Locked)
  BY <1>1, NoTrouble DEF world
<1>3. Moved(c, "idle", job[c].picked)
  BY <1>1, GotoMoves DEF Places
<1>4. WellFormed(job'[c])
  BY <1>1, <1>3 DEF Moved, WellFormed, Unoccupied, OfCustom, Holding, Told, Swapping
<1>5. \A p \in Processes : inFlight'[p] => \E d \in Callers : ProcessOf[d] = p /\ job'[d].all
  BY <1>3 DEF IInv, GuardInv, Moved, Only
<1>6. ASSUME NEW d \in Callers PROVE Holds(d)'
  <2>1. lockHolder' # d
    BY FeedAssumption
  <2>2. CASE d = c
    BY <1>3, <2>1, <2>2 DEF Moved, Holds, At, Syncing
  <2>3. CASE d # c
    BY <1>1, <1>2, <1>3, <2>1, <2>3 DEF IInv, GuardInv, Holds, At, Moved, Only, Syncing
  <2>4. QED
    BY <2>2, <2>3
<1>7. GuardInv'
  BY <1>5, <1>6 DEF GuardInv
<1>8. QED
  BY <1>1, <1>2, <1>3, <1>4, <1>7, OutsideKeeps DEF Moved, Unoccupied, TypeOK, world

-----------------------------------------------------------------------------
(* Lists and custom feeds are edited.                                      *)

(* A step that moves nobody and writes no rows.                            *)
LEMMA StillKeeps ==
  ASSUME IInv, Later, UNCHANGED <<job, guards, blocklist, feedState, tangled>>,
         published' \in [Sources -> Contents],
         customFeed' \in [CustomFeeds -> {"absent", "on", "off", "removed"}],
         \A s \in CustomFeeds : customFeed'[s] # customFeed[s] =>
            /\ customFeed[s] \in {"absent", "on", "off"} /\ customFeed'[s] \in {"on", "off"}
  PROVE  IInv'
<1>1. TypeOK'
  BY DEF IInv, TypeOK, Later, guards
<1>2. JobInv'
  BY DEF IInv, JobInv, WellFormed
<1>3. GuardInv'
  BY DEF IInv, GuardInv, Holds, At, Syncing, Later, guards
<1>4. PickInv' /\ SwapInv'
  BY DEF IInv, PickInv, PickedFor, SwapInv, SwapOf, At, Rows, StagedRows, Exactly, Later
<1>5. ASSUME NEW s \in CustomFeeds PROVE RemovalOf(s)' /\ (Kept(s)' => Kept(s) \/ feedState[s] = NoState)
  <2>1. RemovalOf(s) /\ (customFeed'[s] = customFeed[s] \/
           (customFeed[s] \in {"absent", "on", "off"} /\ customFeed'[s] \in {"on", "off"}))
    BY DEF IInv, RemovalInv
  <2>2. /\ LiveRows(s)' = LiveRows(s)
        /\ \A d \in Callers : Removing(d, s)' <=> Removing(d, s)
    BY DEF LiveRows, Removing, At
  <2>3. CASE customFeed'[s] = customFeed[s]
    BY <2>1, <2>2, <2>3 DEF RemovalOf, Later, Kept, Removing, At
  <2>4. CASE customFeed[s] \in {"on", "off"} /\ customFeed'[s] \in {"on", "off"}
    BY <2>1, <2>2, <2>4 DEF RemovalOf, Later, Kept, Removing, At
  <2>5. CASE customFeed[s] = "absent" /\ customFeed'[s] \in {"on", "off"}
    BY <2>1, <2>2, <2>5 DEF RemovalOf, Later, Kept, Removing, At
  <2>6. QED
    BY <2>1, <2>3, <2>4, <2>5
<1>6. CoreInv'
  <2> SUFFICES ASSUME Locked', Uncut', NEW s \in Sources, feedState'[s] # NoState, Kept(s)'
               PROVE  Always \subseteq Live(s)' \/ \E d \in Callers : Swaps(d, s)'
    BY DEF CoreInv
  <2>1. Kept(s)
    BY <1>5 DEF Kept
  <2>2. Always \subseteq Live(s) \/ \E d \in Callers : Swaps(d, s)
    BY <2>1 DEF IInv, CoreInv, Later
  <2>3. QED
    BY <2>2 DEF Live, LiveRows, Swaps
<1>7. QED
  BY <1>1, <1>2, <1>3, <1>4, <1>5, <1>6 DEF IInv, RemovalInv

LEMMA PublishStep ==
  ASSUME IInv, NEW s \in Sources, Publish(s)
  PROVE  IInv'
<1>1. TypeOK /\ UNCHANGED <<job, guards, blocklist, feedState, tangled, customFeed>>
  BY DEF IInv, Publish, tables, feeds
<1>2. Later
  BY <1>1, CountedTrouble DEF Publish, Kinds
<1>3. published' \in [Sources -> Contents]
  BY <1>1 DEF TypeOK, Publish
<1>4. QED
  BY <1>1, <1>2, <1>3, StillKeeps DEF TypeOK

LEMMA AddCustomFeedStep ==
  ASSUME IInv, NEW c \in Callers, NEW s \in CustomFeeds, AddCustomFeed(c, s)
  PROVE  IInv'
<1>1. TypeOK /\ UNCHANGED <<job, guards, blocklist, feedState, tangled>>
  BY DEF IInv, AddCustomFeed
<1>2. Later
  BY <1>1, CountedTrouble DEF AddCustomFeed, Kinds
<1>3. published' \in [Sources -> Contents]
  BY <1>1 DEF TypeOK, AddCustomFeed
<1>4. /\ customFeed' \in [CustomFeeds -> {"absent", "on", "off", "removed"}]
      /\ \A f \in CustomFeeds : customFeed'[f] # customFeed[f] =>
            /\ customFeed[f] \in {"absent", "on", "off"} /\ customFeed'[f] \in {"on", "off"}
  BY <1>1 DEF TypeOK, AddCustomFeed
<1>5. QED
  BY <1>1, <1>2, <1>3, <1>4, StillKeeps

LEMMA UpdateCustomFeedStep ==
  ASSUME IInv, NEW c \in Callers, NEW s \in CustomFeeds, UpdateCustomFeed(c, s)
  PROVE  IInv'
<1>1. TypeOK /\ UNCHANGED <<job, guards, blocklist, feedState, tangled, published>>
  BY DEF IInv, UpdateCustomFeed
<1>2. Later
  BY <1>1, CountedTrouble DEF UpdateCustomFeed, Kinds
<1>3. /\ customFeed' \in [CustomFeeds -> {"absent", "on", "off", "removed"}]
      /\ \A f \in CustomFeeds : customFeed'[f] # customFeed[f] =>
            /\ customFeed[f] \in {"absent", "on", "off"} /\ customFeed'[f] \in {"on", "off"}
  BY <1>1 DEF TypeOK, UpdateCustomFeed
<1>4. QED
  BY <1>1, <1>2, <1>3, StillKeeps DEF TypeOK

LEMMA RemoveRowsStep ==
  ASSUME IInv, NEW c \in Callers, NEW s \in CustomFeeds, RemoveRows(c, s)
  PROVE  IInv'
<1>1. /\ TypeOK /\ job[c] \in Job /\ WellFormed(job[c]) /\ job[c].at = "idle"
      /\ job[c].source = NoSource /\ ~job[c].all
      /\ UNCHANGED <<feedState, customFeed, guards, published>>
      /\ customFeed[s] \in {"on", "off"}
      /\ s \in Sources
  BY JobTyped, FeedAssumption DEF IInv, JobInv, At, RemoveRows, WellFormed, Unoccupied
<1>2. Later
  BY <1>1, CountedTrouble DEF RemoveRows, Kinds
<1> DEFINE j == [job[c] EXCEPT !.at = "removing", !.source = s]
<1>3. j \in Job
  BY <1>1 DEF Job, Places
<1>4. Only(c) /\ job'[c] = j
  <2>1. job' = [job EXCEPT ![c] = j]
    BY DEF RemoveRows
  <2>2. QED
    BY <1>1, <1>3, <2>1, OnlyOne
<1>5. job'[c].at = "removing" /\ job'[c].all = job[c].all /\ job'[c].source = s
  BY <1>1, <1>4 DEF Job
<1>6. WellFormed(job'[c])
  BY <1>1, <1>5, FeedAssumption DEF WellFormed, Unoccupied, OfCustom, Holding, Told, Swapping
<1>7. /\ blocklist' = {r \in blocklist : r.source # s \/ r.staged}
      /\ tangled \subseteq tangled' /\ tangled' \subseteq tangled \cup {s}
      /\ \A d \in Callers : job[d].source = s => s \in tangled'
  BY DEF RemoveRows
<1>8. TypeOK'
  BY <1>1, <1>2, <1>4, <1>7 DEF TypeOK, Only, Later, guards
<1>9. JobInv'
  BY <1>4, <1>6, OnlyApart, JobsKept DEF IInv
<1>10. GuardInv'
  BY <1>1, <1>2, <1>4, <1>5, OnlyApart, GuardsKept DEF IInv, Syncing
<1>11. PickInv'
  <2> SUFFICES ASSUME Locked', NEW d \in Callers PROVE PickedFor(d)'
    BY DEF PickInv
  <2>1. CASE d = c
    BY <1>5, <2>1 DEF PickedFor, Deleting
  <2>2. CASE d # c
    BY <1>2, <1>4, <1>7, <2>2 DEF IInv, PickInv, PickedFor, Only, At, Later
  <2>3. QED
    BY <2>1, <2>2
<1>12. \A f : f # s => Rows(f)' = Rows(f) /\ StagedRows(f)' = StagedRows(f) /\ LiveRows(f)' = LiveRows(f)
  BY <1>7 DEF Rows, StagedRows, LiveRows
<1>13. SwapInv'
  <2> SUFFICES ASSUME Locked', NEW d \in Callers, job'[d].source \notin tangled' PROVE SwapOf(d)'
    BY DEF SwapInv
  <2>1. CASE d = c
    BY <1>5, <2>1 DEF SwapOf, At, Told
  <2>2. CASE d # c
    <3>1. job'[d] = job[d] /\ SwapOf(d)
      BY <1>2, <1>4, <1>7, <2>2 DEF IInv, SwapInv, Only, Later
    <3>2. PICK f : f = job[d].source
      OBVIOUS
    <3>3. f # s
      BY <1>7, <2>2, <3>1, <3>2
    <3>4. Rows(f)' = Rows(f) /\ StagedRows(f)' = StagedRows(f)
      BY <1>12, <3>3
    <3>5. QED
      BY <3>1, <3>2, <3>4 DEF SwapOf, At, Exactly, Rows, StagedRows
  <2>3. QED
    BY <2>1, <2>2
<1>14. ASSUME NEW f \in CustomFeeds PROVE RemovalOf(f)'
  <2>1. RemovalOf(f)
    BY DEF IInv, RemovalInv
  <2>2. CASE f = s
    <3>1. LiveRows(s)' = {}
      BY <1>7 DEF LiveRows
    <3>2. s \notin tangled' => \A d \in Callers : job'[d].source = s => job'[d].at = "removing"
      BY <1>4, <1>5, <1>7 DEF Only
    <3>3. ~Kept(s)'
      BY <1>5 DEF Kept, At
    <3>4. customFeed'[s] # "absent"
      BY <1>1
    <3>5. QED
      BY <2>2, <3>1, <3>2, <3>3, <3>4 DEF RemovalOf
  <2>3. CASE f # s
    <3>1. LiveRows(f)' = LiveRows(f) /\ (f \in tangled' <=> f \in tangled)
      BY <1>7, <1>12, <2>3
    <3>2. \A d \in Callers : job'[d].source = f => job[d].source = f /\ job'[d].at = job[d].at
      BY <1>4, <1>5, <2>3 DEF Only
    <3>3. \A d \in Callers : Removing(d, f)' <=> Removing(d, f)
      BY <1>1, <1>4, <1>5, <2>3 DEF Only, Removing, At
    <3>4. Kept(f)' <=> Kept(f)
      BY <1>1, <3>3 DEF Kept, Removing, At
    <3>5. QED
      BY <1>1, <1>2, <2>1, <3>1, <3>2, <3>3, <3>4 DEF RemovalOf, At, Later
  <2>4. QED
    BY <2>2, <2>3
<1>15. CoreInv'
  <2> SUFFICES ASSUME Locked', Uncut', NEW f \in Sources, feedState'[f] # NoState, Kept(f)'
               PROVE  Always \subseteq Live(f)' \/ \E d \in Callers : Swaps(d, f)'
    BY DEF CoreInv
  <2>1. f # s /\ Kept(f)
    BY <1>1, <1>4, <1>5 DEF Kept, At, Only
  <2>2. Always \subseteq Live(f) \/ \E d \in Callers : Swaps(d, f)
    BY <1>1, <1>2, <2>1 DEF IInv, CoreInv, Later
  <2>3. Live(f)' = Live(f)
    BY <1>12, <2>1 DEF Live
  <2>4. \A d \in Callers : Swaps(d, f) => Swaps(d, f)'
    BY <1>1, <1>4 DEF Swaps, Only, Swapping, Told
  <2>5. QED
    BY <2>2, <2>3, <2>4
<1>16. QED
  BY <1>8, <1>9, <1>10, <1>11, <1>13, <1>14, <1>15 DEF IInv, RemovalInv

LEMMA RemoveFeedStep ==
  ASSUME IInv, NEW c \in Callers, RemoveFeed(c)
  PROVE  IInv'
<1>1. /\ TypeOK /\ job[c] \in Job /\ WellFormed(job[c]) /\ job[c].at = "removing"
      /\ UNCHANGED <<blocklist, feedState, tangled, guards, published>>
  BY JobTyped DEF IInv, JobInv, At, RemoveFeed
<1>2. job[c].source \in CustomFeeds /\ job[c].all = FALSE
  BY <1>1 DEF WellFormed, OfCustom, Job
<1>3. Later
  BY <1>1, TroubleStep DEF RemoveFeed, Kinds
<1>4. Only(c) /\ job'[c] = Idle
  BY <1>1, IdleTyped, OnlyOne DEF RemoveFeed
<1>5. job'[c].at = "idle" /\ job'[c].all = FALSE /\ job'[c].source = NoSource /\ WellFormed(job'[c])
  BY <1>4 DEF Idle, WellFormed, Unoccupied, OfCustom, Holding, Told, Swapping
<1>6. /\ customFeed' \in [CustomFeeds -> {"absent", "on", "off", "removed"}]
      /\ \A f \in CustomFeeds : f # job[c].source => customFeed'[f] = customFeed[f]
      /\ \/ customFeed'[job[c].source] = "removed"
         \/ customFeed' = customFeed /\ ~Uncut'
  BY <1>1, <1>2, Faulted DEF RemoveFeed, TypeOK
<1>7. TypeOK'
  BY <1>1, <1>3, <1>4, <1>6 DEF TypeOK, Only, Later, guards
<1>8. JobInv'
  BY <1>4, <1>5, OnlyApart, JobsKept DEF IInv
<1>9. GuardInv'
  BY <1>1, <1>2, <1>3, <1>4, <1>5, OnlyApart, GuardsKept DEF IInv, Syncing
<1>10. PickInv' /\ SwapInv'
  <2>1. PickedFor(c)' /\ SwapOf(c)'
    BY <1>5 DEF PickedFor, SwapOf, At, Deleting, Told
  <2>2. QED
    BY <1>1, <1>3, <1>4, <2>1, RowsKept DEF IInv
<1>11. ASSUME NEW f \in CustomFeeds PROVE RemovalOf(f)'
  <2>1. RemovalOf(f) /\ LiveRows(f)' = LiveRows(f) /\ NoSource \notin CustomFeeds
    BY <1>1, FeedAssumption DEF IInv, RemovalInv, LiveRows
  <2>2. \A d \in Callers : job'[d].source = f => job[d].source = f /\ job'[d].at = job[d].at
    BY <1>4, <1>5, <2>1 DEF Only
  <2>3. \A d \in Callers : Removing(d, f)' => Removing(d, f)
    BY <2>2 DEF Removing, At
  <2>4. CASE f # job[c].source
    <3>1. \A d \in Callers : Removing(d, f) => Removing(d, f)'
      BY <1>4, <2>4 DEF Removing, At, Only
    <3>2. customFeed'[f] = customFeed[f]
      BY <1>6, <2>4
    <3>3. Kept(f)' <=> Kept(f)
      BY <2>3, <3>1, <3>2 DEF Kept, Removing, At
    <3>4. QED
      BY <1>1, <1>3, <2>1, <2>2, <2>3, <3>2, <3>3 DEF RemovalOf, At, Later
  <2>5. CASE f = job[c].source
    <3>1. Removing(c, f)
      BY <1>1, <2>5 DEF Removing, At
    <3>2. customFeed'[f] # "absent"
      BY <1>1, <1>6, <2>1, <2>5 DEF RemovalOf, At
    <3>3. Uncut' => ~Kept(f)'
      BY <1>6, <2>5 DEF Kept
    <3>4. QED
      BY <1>1, <2>1, <2>2, <3>1, <3>2, <3>3 DEF RemovalOf
  <2>6. QED
    BY <2>4, <2>5
<1>12. CoreInv'
  <2> SUFFICES ASSUME Locked', Uncut', NEW f \in Sources, feedState'[f] # NoState, Kept(f)'
               PROVE  Always \subseteq Live(f)' \/ \E d \in Callers : Swaps(d, f)'
    BY DEF CoreInv
  <2>1. f # job[c].source
    BY <1>2, <1>6 DEF Kept
  <2>2. Kept(f)
    BY <1>4, <1>6, <2>1 DEF Kept, At, Only
  <2>3. Always \subseteq Live(f) \/ \E d \in Callers : Swaps(d, f)
    BY <1>1, <1>3, <2>2 DEF IInv, CoreInv, Later
  <2>4. Live(f)' = Live(f)
    BY <1>1 DEF Live, LiveRows
  <2>5. \A d \in Callers : Swaps(d, f) => Swaps(d, f)'
    BY <1>1, <1>4 DEF Swaps, Only, Swapping, Told
  <2>6. QED
    BY <2>3, <2>4, <2>5
<1>13. QED
  BY <1>7, <1>8, <1>9, <1>10, <1>11, <1>12 DEF IInv, RemovalInv

LEMMA RestartStep ==
  ASSUME IInv, NEW p \in Processes, Restart(p)
  PROVE  IInv'
<1> USE DEF Restart
<1>1. /\ TypeOK /\ UNCHANGED <<blocklist, feedState, customFeed, tangled, published>>
      /\ ProcessOf \in [Callers -> Processes]
  BY FeedAssumption DEF IInv, tables, feeds
<1>2. Later /\ ~Uncut'
  BY <1>1, CountedTrouble DEF Kinds, Uncut
<1>3. \A d \in Callers : job'[d] = job[d] \/ (job'[d] = Idle /\ ProcessOf[d] = p)
  OBVIOUS
<1>4. \A d \in Callers : ProcessOf[d] # p => job'[d] = job[d]
  OBVIOUS
<1>5. /\ Idle.at = "idle" /\ Idle.all = FALSE /\ Idle.source = NoSource
      /\ WellFormed(Idle) /\ NoSource \notin CustomFeeds
  BY FeedAssumption DEF Idle, WellFormed, Unoccupied, OfCustom, Holding, Told, Swapping
<1>6. TypeOK'
  BY <1>1, <1>2, IdleTyped DEF TypeOK, Later
<1>7. JobInv'
  BY <1>3, <1>5 DEF IInv, JobInv
<1>8. GuardInv'
  <2>1. ASSUME NEW q \in Processes, inFlight'[q]
        PROVE  \E d \in Callers : ProcessOf[d] = q /\ job'[d].all
    <3>1. q # p /\ inFlight[q]
      BY <1>1, <2>1 DEF TypeOK
    <3>2. PICK d \in Callers : ProcessOf[d] = q /\ job[d].all
      BY <3>1 DEF IInv, GuardInv
    <3>3. QED
      BY <1>4, <3>1, <3>2
  <2>2. ASSUME NEW d \in Callers PROVE Holds(d)'
    <3>1. Holds(d)
      BY DEF IInv, GuardInv
    <3>2. CASE ProcessOf[d] = p
      <4>1. job'[d] = Idle /\ lockHolder' # d
        BY <3>2, FeedAssumption
      <4>2. QED
        BY <1>5, <4>1 DEF Holds, At, Syncing
    <3>3. CASE ProcessOf[d] # p
      <4>1. job'[d] = job[d] /\ (lockHolder' = d <=> lockHolder = d)
        BY <3>3, FeedAssumption
      <4>2. QED
        BY <1>2, <3>1, <4>1 DEF Holds, At, Syncing, Later
    <3>4. QED
      BY <3>2, <3>3
  <2>3. QED
    BY <2>1, <2>2 DEF GuardInv
<1>9. PickInv'
  <2> SUFFICES ASSUME Locked', NEW d \in Callers PROVE PickedFor(d)'
    BY DEF PickInv
  <2>1. CASE job'[d] = Idle
    BY <1>5, <2>1 DEF PickedFor, Deleting
  <2>2. CASE job'[d] = job[d]
    BY <1>1, <1>2, <2>2 DEF IInv, PickInv, PickedFor, At, Later
  <2>3. QED
    BY <1>3, <2>1, <2>2
<1>10. SwapInv'
  <2> SUFFICES ASSUME Locked', NEW d \in Callers, job'[d].source \notin tangled' PROVE SwapOf(d)'
    BY DEF SwapInv
  <2>1. CASE job'[d] = Idle
    BY <1>5, <2>1 DEF SwapOf, At, Told
  <2>2. CASE job'[d] = job[d]
    <3>1. SwapOf(d)
      BY <1>1, <1>2, <2>2 DEF IInv, SwapInv, Later
    <3>2. QED
      BY <1>1, <2>2, <3>1 DEF SwapOf, At, Rows, StagedRows, Exactly
  <2>3. QED
    BY <1>3, <2>1, <2>2
<1>11. ASSUME NEW f \in CustomFeeds PROVE RemovalOf(f)'
  <2>1. RemovalOf(f) /\ LiveRows(f)' = LiveRows(f)
    BY <1>1 DEF IInv, RemovalInv, LiveRows
  <2>2. \A d \in Callers : job'[d].source = f => job'[d] = job[d]
    BY <1>3, <1>5
  <2>3. \A d \in Callers : Removing(d, f)' => Removing(d, f)
    BY <2>2 DEF Removing, At
  <2>4. QED
    BY <1>1, <1>2, <2>1, <2>2, <2>3 DEF RemovalOf, At
<1>12. CoreInv'
  BY <1>2 DEF CoreInv
<1>13. QED
  BY <1>6, <1>7, <1>8, <1>9, <1>10, <1>11, <1>12 DEF IInv, RemovalInv

-----------------------------------------------------------------------------
(* New rows get new ids: the ids in use are numbered anew, in their order, *)
(* and the new ones follow.                                                *)

LEMMA IdsFinite ==
  ASSUME TypeOK
  PROVE  /\ IdsInUse \subseteq RowIds /\ IsFiniteSet(IdsInUse)
         /\ Cardinality(IdsInUse) \in Nat
<1>1. IdsInUse \subseteq RowIds
  BY DEF IdsInUse, TypeOK, Row, Job
<1>2. IsFiniteSet(RowIds)
  BY FS_Interval, FeedAssumption DEF RowIds
<1>3. IsFiniteSet(IdsInUse)
  BY <1>1, <1>2, FS_Subset
<1>4. QED
  BY <1>1, <1>3, FS_CardinalityType

LEMMA RenumberedInOrder ==
  ASSUME TypeOK, NEW i \in IdsInUse
  PROVE  /\ Renumbered(i) \in 1..Cardinality(IdsInUse)
         /\ \A k \in IdsInUse : Renumbered(i) = Renumbered(k) => i = k
<1> DEFINE Below(k) == {h \in IdsInUse : h <= k}
<1>1. /\ IdsInUse \subseteq RowIds /\ IsFiniteSet(IdsInUse)
      /\ Cardinality(IdsInUse) \in Nat /\ RowIds \subseteq Int
  BY IdsFinite, FeedAssumption DEF RowIds
<1>2. ASSUME NEW k \in IdsInUse
      PROVE  /\ IsFiniteSet(Below(k)) /\ Cardinality(Below(k)) \in Nat
             /\ Cardinality(Below(k)) <= Cardinality(IdsInUse) /\ k \in Below(k)
  <2>1. Below(k) \in SUBSET IdsInUse
    OBVIOUS
  <2>2. IsFiniteSet(Below(k)) /\ Cardinality(Below(k)) <= Cardinality(IdsInUse)
    BY <1>1, <2>1, FS_Subset
  <2>3. k \in Below(k)
    BY <1>1
  <2>4. QED
    BY <2>2, <2>3, FS_CardinalityType
<1>3. Cardinality(Below(i)) # 0
  BY <1>2, FS_EmptySet
<1>4. ASSUME NEW k \in IdsInUse, NEW h \in IdsInUse, k < h
      PROVE  Cardinality(Below(k)) # Cardinality(Below(h))
  <2>1. Below(k) \in SUBSET Below(h) /\ h \notin Below(k)
    <3>1. \A x \in IdsInUse : x \in Int
      BY <1>1
    <3>2. \A x \in IdsInUse : x <= k => x <= h
      BY <1>4, <3>1
    <3>3. ~(h <= k)
      BY <1>4, <3>1
    <3>4. QED
      BY <3>2, <3>3
  <2>2. Below(k) # Below(h)
    BY <1>2, <2>1
  <2>3. QED
    BY <1>2, <2>1, <2>2, FS_Subset
<1>5. \A k : Renumbered(k) = Cardinality(Below(k))
  BY DEF Renumbered
<1>6. Renumbered(i) \in 1..Cardinality(IdsInUse)
  BY <1>1, <1>2, <1>3, <1>5
<1> HIDE DEF Below
<1>7. ASSUME NEW k \in IdsInUse, Renumbered(i) = Renumbered(k) PROVE i = k
  <2>1. ~(i < k) /\ ~(k < i)
    BY <1>4, <1>5, <1>7
  <2>2. QED
    BY <1>1, <2>1
<1>8. QED
  BY <1>6, <1>7

LEMMA FreshIds ==
  ASSUME NEW n \in Nat, NEW batch, IsFiniteSet(batch)
  PROVE  LET id == CHOOSE f \in Injection(batch, (n + 1)..(n + Cardinality(batch))) : TRUE IN
         /\ \A v \in batch : id[v] \in (n + 1)..(n + Cardinality(batch))
         /\ \A v, w \in batch : id[v] = id[w] => v = w
<1> DEFINE fresh == (n + 1)..(n + Cardinality(batch))
<1>1. Cardinality(batch) \in Nat
  BY FS_CardinalityType
<1>2. IsFiniteSet(fresh) /\ Cardinality(fresh) = Cardinality(batch)
  <2>1. PICK k \in Nat : k = Cardinality(batch)
    BY <1>1
  <2>2. n + 1 \in Int /\ n + k \in Int
    OBVIOUS
  <2>3. IsFiniteSet((n + 1)..(n + k)) /\ Cardinality((n + 1)..(n + k)) = k
    BY <2>2, FS_Interval
  <2>4. QED
    BY <2>1, <2>3
<1>3. ExistsBijection(batch, fresh)
  BY <1>2, FS_SameCardinalityBij
<1>4. Injection(batch, fresh) # {}
  BY <1>3 DEF ExistsBijection, Bijection
<1>5. (CHOOSE f \in Injection(batch, fresh) : TRUE) \in Injection(batch, fresh)
  BY <1>4
<1> DEFINE id == CHOOSE f \in Injection(batch, fresh) : TRUE
<1>6. id \in [batch -> fresh] /\ IsInjective(id)
  BY <1>5 DEF Injection
<1> HIDE DEF id
<1>7. /\ \A v \in batch : id[v] \in fresh
      /\ \A v, w \in batch : id[v] = id[w] => v = w
  BY <1>6 DEF IsInjective
<1>8. QED
  BY <1>7 DEF id

\* A row under its new number, and a new row.
Anew(r) == [r EXCEPT !.id = Renumbered(@)]

NewRow(c, i, v) == [id |-> i, source |-> job[c].source, staged |-> TRUE, value |-> v]

LEMMA StageStep ==
  ASSUME IInv, NEW c \in Callers, Stage(c)
  PROVE  IInv'
<1> DEFINE s == job[c].source
           n == Cardinality(IdsInUse)
<1>1. job[c].at = "staging" /\ UNCHANGED <<feedState, feeds, guards, world>>
  BY DEF At, Stage
<1>2. /\ TypeOK /\ job[c] \in Job /\ WellFormed(job[c]) /\ job[c].data \in Contents
      /\ s \in Sources /\ job[c].left \subseteq job[c].data
      /\ n \in Nat
  BY <1>1, AtWork, IdsFinite DEF Aside, Unoccupied, Holding, WellFormed
<1>3. PICK batch \in Batches(job[c].left) :
         /\ batch # {}
         /\ LET fresh == (n + 1)..(n + Cardinality(batch))
                id    == CHOOSE f \in Injection(batch, fresh) : TRUE IN
            /\ fresh \subseteq RowIds
            /\ blocklist' = {[r EXCEPT !.id = Renumbered(@)] : r \in blocklist} \cup
                  {[id |-> id[v], source |-> s, staged |-> TRUE, value |-> v] : v \in batch}
            /\ job' = [d \in Callers |->
                  [job[d] EXCEPT !.picked = {Renumbered(i) : i \in @},
                                 !.left = IF d = c THEN @ \ batch ELSE @]]
  BY DEF Stage
<1> DEFINE fresh == (n + 1)..(n + Cardinality(batch))
           id    == CHOOSE f \in Injection(batch, fresh) : TRUE
<1>4. batch \subseteq job[c].left /\ batch \subseteq Values /\ IsFiniteSet(batch)
  <2>1. batch \subseteq job[c].left /\ batch \subseteq Values
    BY <1>2 DEF Batches, kSubset, Job
  <2>2. QED
    BY <2>1, FS_Subset, FeedAssumption
<1>5. Cardinality(batch) \in Nat /\ Cardinality(batch) # 0
  BY <1>3, <1>4, FS_CardinalityType, FS_EmptySet
<1>6. /\ \A v \in batch : id[v] \in fresh
      /\ \A v, w \in batch : id[v] = id[w] => v = w
  BY <1>2, <1>4, FreshIds
<1>7. /\ fresh \subseteq RowIds
      /\ blocklist' = {Anew(r) : r \in blocklist} \cup {NewRow(c, id[v], v) : v \in batch}
  BY <1>3 DEF Anew, NewRow
<1>8. /\ \A q \in blocklist' : \/ \E r \in blocklist : q = Anew(r)
                               \/ \E v \in batch : q = NewRow(c, id[v], v)
      /\ \A r \in blocklist : Anew(r) \in blocklist'
      /\ \A v \in batch : NewRow(c, id[v], v) \in blocklist'
  <2> HIDE DEF id, fresh, n
  <2>1. QED
    BY <1>7
<1>9. job' = [d \in Callers |->
                [job[d] EXCEPT !.picked = {Renumbered(i) : i \in @},
                               !.left = IF d = c THEN @ \ batch ELSE @]]
  BY <1>3
<1>10. 1..n \subseteq RowIds /\ \A i \in fresh : i \notin 1..n
  <2>1. PICK k \in Nat : k = Cardinality(batch) /\ k # 0
    BY <1>5
  <2>2. n + k \in (n + 1)..(n + k)
    BY <1>2, <2>1
  <2>3. n + k \in RowIds
    BY <1>7, <2>1, <2>2
  <2>4. n + k <= MaxRows
    BY <2>3 DEF RowIds
  <2>5. 1..n \subseteq RowIds
    BY <1>2, <2>1, <2>4, FeedAssumption DEF RowIds
  <2>6. QED
    BY <1>2, <2>1, <2>5
<1> HIDE DEF id, fresh, n
<1>11. \A r \in blocklist :
          /\ Anew(r) \in Row /\ Anew(r).id = Renumbered(r.id) /\ Anew(r).id \in 1..n
          /\ Anew(r).source = r.source /\ Anew(r).staged = r.staged /\ Anew(r).value = r.value
  <2> SUFFICES ASSUME NEW r \in blocklist
               PROVE  /\ Anew(r) \in Row /\ Anew(r).id = Renumbered(r.id) /\ Anew(r).id \in 1..n
                      /\ Anew(r).source = r.source /\ Anew(r).staged = r.staged /\ Anew(r).value = r.value
    OBVIOUS
  <2>1. r \in Row /\ r.id \in IdsInUse
    BY <1>2 DEF TypeOK, IdsInUse
  <2>2. Renumbered(r.id) \in 1..n
    BY <1>2, <2>1, RenumberedInOrder DEF n
  <2>3. PICK i \in RowIds : i = Renumbered(r.id)
    BY <1>10, <2>2
  <2>4. Anew(r) = [r EXCEPT !.id = i]
    BY <2>3 DEF Anew
  <2>5. /\ Anew(r) \in Row /\ Anew(r).id = i
        /\ Anew(r).source = r.source /\ Anew(r).staged = r.staged /\ Anew(r).value = r.value
    BY <2>1, <2>4 DEF Row
  <2>6. QED
    BY <2>2, <2>3, <2>5
<1>12. \A v \in batch :
          /\ NewRow(c, id[v], v) \in Row /\ NewRow(c, id[v], v).id = id[v]
          /\ NewRow(c, id[v], v).source = s /\ NewRow(c, id[v], v).staged
          /\ NewRow(c, id[v], v).value = v
  BY <1>2, <1>4, <1>6, <1>7 DEF NewRow, Row
<1>13. blocklist' \subseteq Row
  BY <1>8, <1>11, <1>12
<1>14. \A p, q \in blocklist' : p.id = q.id => p = q
  <2> SUFFICES ASSUME NEW p \in blocklist', NEW q \in blocklist', p.id = q.id PROVE p = q
    OBVIOUS
  <2>1. CASE \E r \in blocklist : p = Anew(r)
    <3>1. PICK r \in blocklist : p = Anew(r)
      BY <2>1
    <3>2. PICK t \in blocklist : q = Anew(t)
      BY <1>6, <1>8, <1>10, <1>11, <1>12, <3>1
    <3>3. r.id \in IdsInUse /\ t.id \in IdsInUse /\ Renumbered(r.id) = Renumbered(t.id)
      BY <1>11, <3>1, <3>2 DEF IdsInUse
    <3>4. r.id = t.id
      BY <1>2, <3>3, RenumberedInOrder
    <3>5. QED
      BY <1>2, <3>1, <3>2, <3>4 DEF TypeOK
  <2>2. CASE \E v \in batch : p = NewRow(c, id[v], v)
    <3>1. PICK v \in batch : p = NewRow(c, id[v], v)
      BY <2>2
    <3>2. PICK w \in batch : q = NewRow(c, id[w], w)
      BY <1>6, <1>8, <1>10, <1>11, <1>12, <3>1
    <3>3. v = w
      BY <1>6, <1>12, <3>1, <3>2
    <3>4. QED
      BY <3>1, <3>2, <3>3
  <2>3. QED
    BY <1>8, <2>1, <2>2
<1>15. /\ Apart(c)
       /\ job'[c].at = "staging" /\ job'[c].all = job[c].all /\ job'[c].source = s
       /\ job'[c].data = job[c].data /\ job'[c].left = job[c].left \ batch
  <2>1. ASSUME NEW d \in Callers
        PROVE  /\ job'[d] \in Job
               /\ job'[d].at = job[d].at /\ job'[d].all = job[d].all
               /\ job'[d].source = job[d].source /\ job'[d].data = job[d].data
               /\ job'[d].left = IF d = c THEN job[d].left \ batch ELSE job[d].left
    <3>1. job[d] \in Job
      BY <1>2, JobTyped
    <3>2. {Renumbered(i) : i \in job[d].picked} \subseteq RowIds
      <4>1. job[d].picked \subseteq IdsInUse
        BY DEF IdsInUse
      <4>2. \A i \in IdsInUse : Renumbered(i) \in 1..n
        BY <1>2, RenumberedInOrder DEF n
      <4>3. QED
        BY <1>10, <4>1, <4>2
    <3>3. PICK ids \in SUBSET RowIds : ids = {Renumbered(i) : i \in job[d].picked}
      BY <3>2
    <3>4. job'[d] = [job[d] EXCEPT !.picked = ids,
                                   !.left = IF d = c THEN job[d].left \ batch ELSE job[d].left]
      BY <1>9, <3>3
    <3>5. QED
      BY <3>1, <3>4 DEF Job
  <2>2. job' \in [Callers -> Job]
    BY <1>9, <2>1
  <2>3. QED
    BY <1>1, <2>1, <2>2 DEF Apart
<1>16. WellFormed(job'[c])
  BY <1>1, <1>2, <1>15 DEF WellFormed, Unoccupied, OfCustom, Holding, Told, Swapping
<1>17. PickedFor(c)'
  BY <1>15 DEF PickedFor, Deleting
<1>18. Locked' /\ s \notin tangled => SwapOf(c)'
  <2> SUFFICES ASSUME Locked', s \notin tangled PROVE SwapOf(c)'
    OBVIOUS
  <2>1. Exactly(StagedRows(s), job[c].data \ job[c].left)
    BY <1>1, <1>2, NoTrouble DEF IInv, SwapInv, SwapOf, At, world
  <2> DEFINE rows == {q \in blocklist' : q.source = s /\ q.staged}
  <2>2. \A q \in rows : \/ \E r \in StagedRows(s) : q = Anew(r) /\ q.value = r.value
                        \/ \E v \in batch : q = NewRow(c, id[v], v) /\ q.value = v
    BY <1>8, <1>11, <1>12 DEF StagedRows
  <2>3. \A r \in StagedRows(s) : Anew(r) \in rows /\ Anew(r).value = r.value
    BY <1>8, <1>11 DEF StagedRows
  <2>4. \A v \in batch : NewRow(c, id[v], v) \in rows /\ NewRow(c, id[v], v).value = v
    BY <1>8, <1>12
  <2> HIDE DEF rows
  <2>5. /\ \A r \in StagedRows(s) : r.value \in job[c].data /\ r.value \notin batch
        /\ \A v \in job[c].data \ job[c].left : \E r \in StagedRows(s) : r.value = v
        /\ \A r, t \in StagedRows(s) : r.value = t.value => r = t
    BY <1>4, <2>1 DEF Exactly
  <2>6. {q.value : q \in rows} = job[c].data \ (job[c].left \ batch)
    <3>1. \A q \in rows : q.value \in job[c].data \ (job[c].left \ batch)
      BY <1>2, <1>4, <2>1, <2>2 DEF Exactly
    <3>2. \A v \in job[c].data \ (job[c].left \ batch) : \E q \in rows : q.value = v
      BY <2>3, <2>4, <2>5
    <3>3. QED
      BY <3>1, <3>2
  <2>7. \A p, q \in rows : p.value = q.value => p = q
    BY <2>2, <2>5
  <2>8. Exactly(rows, job[c].data \ (job[c].left \ batch))
    BY <2>6, <2>7 DEF Exactly
  <2>9. QED
    BY <1>15, <2>8 DEF SwapOf, At, Told, StagedRows, Exactly, rows
<1>19. \A f \in CustomFeeds : LiveRows(f) = {} => LiveRows(f)' = {}
  <2> SUFFICES ASSUME NEW f \in CustomFeeds, LiveRows(f) = {}, NEW q \in blocklist', q.source = f
               PROVE  q.staged
    BY DEF LiveRows
  <2>1. CASE \E r \in blocklist : q = Anew(r)
    BY <1>11, <2>1 DEF LiveRows
  <2>2. CASE \E v \in batch : q = NewRow(c, id[v], v)
    BY <1>12, <2>2
  <2>3. QED
    BY <1>8, <2>1, <2>2
<1>20. \A f \in Sources : Live(f) \subseteq Live(f)'
  <2> SUFFICES ASSUME NEW f \in Sources, NEW r \in LiveRows(f)
               PROVE  \E q \in LiveRows(f)' : q.value = r.value
    BY DEF Live
  <2>1. r \in blocklist /\ r.source = f /\ ~r.staged
    BY DEF LiveRows
  <2>2. Anew(r).source = f /\ ~Anew(r).staged /\ Anew(r).value = r.value
    BY <1>11, <2>1
  <2>3. QED
    BY <1>8, <2>1, <2>2 DEF LiveRows
<1>21. /\ job[c].at \in Holding /\ job'[c].at \in Holding
       /\ job[c].at \notin Swapping \cup Told
  BY <1>1, <1>15 DEF Holding, Swapping, Told
<1>22. QED
  BY <1>1, <1>13, <1>14, <1>15, <1>16, <1>17, <1>18, <1>19, <1>20, <1>21, WriteKeeps DEF feeds

-----------------------------------------------------------------------------
(* The invariant.                                                          *)

LEMMA InitIInv == Init => IInv
<1> SUFFICES ASSUME Init PROVE IInv
  OBVIOUS
<1> USE DEF Init
<1>1. TypeOK
  BY IdleTyped DEF TypeOK
<1>2. /\ Idle.at = "idle" /\ Idle.all = FALSE /\ Idle.source = NoSource
      /\ WellFormed(Idle)
  BY DEF Idle, WellFormed, Unoccupied, OfCustom, Holding, Told, Swapping
<1>3. \A c \in Callers : job[c] = Idle
  OBVIOUS
<1>4. JobInv
  BY <1>2, <1>3 DEF JobInv
<1>5. GuardInv
  BY <1>2, <1>3, FeedAssumption DEF GuardInv, Holds, At, Syncing
<1>6. PickInv /\ SwapInv
  BY <1>2, <1>3 DEF PickInv, PickedFor, Deleting, SwapInv, SwapOf, At, Told
<1>7. RemovalInv
  BY <1>2, <1>3, FeedAssumption DEF RemovalInv, RemovalOf, Removing, At, LiveRows
<1>8. CoreInv
  BY DEF CoreInv
<1>9. QED
  BY <1>1, <1>4, <1>5, <1>6, <1>7, <1>8 DEF IInv

LEMMA NextKeeps == IInv /\ [Next]_vars => IInv'
<1> SUFFICES ASSUME IInv, [Next]_vars PROVE IInv'
  OBVIOUS
<1>1. ASSUME NEW c \in Callers, Step(c) PROVE IInv'
  <2>1. CASE TakeLock(c) \/ Choose(c) \/ ListFeeds(c) \/ Leave(c) \/ Unlock(c)
    BY <2>1, TakeLockStep, ChooseStep, ListFeedsStep, LeaveStep, UnlockStep
  <2>2. CASE Open(c) \/ Report(c) \/ ReportFailure(c) \/ RemoveFeed(c)
    BY <2>2, OpenStep, ReportStep, RemoveFeedStep
  <2>3. CASE Fetch(c) \/ Compare(c) \/ Count(c)
    BY <2>3, FetchStep, CompareStep, CountStep
  <2>4. CASE PickStaged(c) \/ Stage(c) \/ PickLive(c) \/ Delete(c)
    BY <2>4, PickStagedStep, StageStep, PickLiveStep, DeleteStep
  <2>5. CASE PickPromoted(c) \/ Rename(c) \/ ForgetState(c) \/ RecordState(c)
    BY <2>5, PickPromotedStep, RenameStep, ForgetStateStep, RecordStateStep
  <2>6. QED
    BY <1>1, <2>1, <2>2, <2>3, <2>4, <2>5 DEF Step
<1>2. ASSUME NEW c \in Callers, StartAll(c) \/ Throw(c) PROVE IInv'
  BY <1>2, StartAllStep, ThrowStep
<1>3. ASSUME NEW c \in Callers, NEW s \in Sources, StartOne(c, s) PROVE IInv'
  BY <1>3, StartOneStep
<1>4. ASSUME NEW c \in Callers, NEW s \in CustomFeeds,
             AddCustomFeed(c, s) \/ UpdateCustomFeed(c, s) \/ RemoveRows(c, s)
      PROVE  IInv'
  BY <1>4, AddCustomFeedStep, UpdateCustomFeedStep, RemoveRowsStep
<1>5. ASSUME NEW p \in Processes, Restart(p) PROVE IInv'
  BY <1>5, RestartStep
<1>6. ASSUME NEW s \in Sources, Publish(s) PROVE IInv'
  BY <1>6, PublishStep
<1>7. CASE UNCHANGED vars
  <2>1. UNCHANGED <<job, guards, blocklist, feedState, tangled, published, customFeed, trouble>>
    BY <1>7 DEF vars, guards
  <2>2. TypeOK /\ Later
    BY <2>1, NoTrouble DEF IInv
  <2>3. QED
    BY <2>1, <2>2, StillKeeps DEF TypeOK
<1>8. QED
  BY <1>1, <1>2, <1>3, <1>4, <1>5, <1>6, <1>7 DEF Next

(* The parts of the invariant hold of every run of syncs and of edits of   *)
(* the table of custom feeds, whatever fails or restarts meanwhile.        *)
THEOREM Invariance == Spec => []IInv
<1>1. Init => IInv
  BY InitIInv
<1>2. IInv /\ [Next]_vars => IInv'
  BY NextKeeps
<1>3. QED
  BY <1>1, <1>2, PTL DEF Spec

-----------------------------------------------------------------------------
(* Why an unchanged list is skipped rightly: what hash, live rows and the  *)
(* lines a sync has read have to do with each other, by parts.  A removed  *)
(* feed may have lost rows meanwhile, so that they are within the lines    *)
(* rather than exactly the lines; the count tells the two apart.           *)

\* None but these lines have a row among these, and none has two.
Within(some, lines) ==
    /\ \A r \in some : r.value \in lines
    /\ \A r, q \in some : r.value = q.value => r = q

\* What the swap has of the lines so far, whatever a removed feed has lost of it.
HalfOf(c) ==
    LET s == job[c].source IN
    /\ At(c, "staging") => Within(StagedRows(s), job[c].data \ job[c].left)
    /\ job[c].at \in {"retiring", "deletingLive"} => Within(StagedRows(s), job[c].data)
    /\ job[c].at \in {"promoting", "renaming"} \cup Told => Within(Rows(s), job[c].data)

HalfInv ==
    Locked => /\ \A s \in Sources : Within(LiveRows(s), Values)
              /\ \A c \in Callers : HalfOf(c)

AbsentInv == \A s \in CustomFeeds : customFeed[s] = "absent" => Rows(s) = {}

\* Nothing of the source is of other lines than these.
Stems(s, lines) == feedState[s] \in {NoState, lines} /\ Within(LiveRows(s), lines)

Read(c, s) == job[c].source = s /\ job[c].at \in Holding

\* Before a list changes, everything is of that list; after its first change a sync that
\* still has the old one finds nothing of the new one, and what is recorded of the new
\* one is live.
ChangeOf(s) ==
    /\ feedState[s] = published[s] => Within(LiveRows(s), published[s])
    /\ \A c \in Callers : Read(c, s) /\ job[c].data # published[s] => Stems(s, job[c].data)
    /\ trouble["change"] = 0 =>
          /\ Stems(s, published[s])
          /\ \A c \in Callers : Read(c, s) => job[c].data = published[s]

ChangeInv == Locked /\ trouble["change"] <= 1 => \A s \in Sources : ChangeOf(s)

CompareInv == Locked => \A c \in Callers : At(c, "counting") => feedState[job[c].source] = job[c].data

UncutInv ==
    Locked /\ Uncut =>
       /\ \A c \in Callers : At(c, "recording") => feedState[job[c].source] = NoState
       /\ \A s \in Sources : feedState[s] # NoState =>
             Within(LiveRows(s), feedState[s]) \/ \E c \in Callers : Swaps(c, s)

SkipInv == HalfInv /\ AbsentInv /\ ChangeInv /\ CompareInv /\ UncutInv

LEMMA FewerWithin ==
  ASSUME NEW some, NEW lines, Within(some, lines), NEW fewer, fewer \subseteq some
  PROVE  Within(fewer, lines)
BY DEF Within

LEMMA WithinMore ==
  ASSUME NEW some, NEW lines, Within(some, lines), NEW more, lines \subseteq more
  PROVE  Within(some, more)
BY DEF Within

LEMMA NothingWithin == \A lines : Within({}, lines)
BY DEF Within

\* No list has been changed.
LEMMA SameLists ==
  ASSUME TypeOK, UNCHANGED trouble \/ \E kind \in Kinds \ {"change"} : Happens(kind)
  PROVE  Later /\ trouble'["change"] = trouble["change"]
<1>1. Later
  BY TroubleStep
<1>2. ASSUME NEW kind \in Kinds \ {"change"}, Happens(kind) PROVE trouble'["change"] = trouble["change"]
  BY <1>2 DEF TypeOK, Happens
<1>3. QED
  BY <1>1, <1>2

\* What a step may do to a caller.
Follows(d) ==
    /\ Locked' => /\ HalfOf(d)'
                  /\ At(d, "counting")' => feedState[job'[d].source] = job'[d].data
    /\ job'[d].at \in Holding =>
          \/ /\ job[d].at \in Holding
             /\ job'[d].source = job[d].source /\ job'[d].data = job[d].data
          \/ job'[d].data = published[job'[d].source]
    /\ Locked' /\ Uncut' =>
          /\ At(d, "recording")' => feedState[job'[d].source] = NoState
          /\ job[d].at \in Swapping \cup Told =>
                job'[d].at \in Swapping \cup Told /\ job'[d].source = job[d].source

\* What it may do to the live rows: take some away, or promote the lines of a sync.
Fewer(new, old) == \A lines : Within(old, lines) => Within(new, lines)

Promotes(c, s) ==
    /\ job[c].source = s /\ job'[c].source = s
    /\ job[c].at \in Holding /\ job'[c].at \in Swapping
    /\ job'[c].data = job[c].data
    /\ Within(LiveRows(s)', job[c].data)

RowsFollow(s) == Fewer(LiveRows(s)', LiveRows(s)) \/ \E c \in Callers : Promotes(c, s)

(* A step that follows keeps the invariant.                                *)
LEMMA FollowKeeps ==
  ASSUME IInv, SkipInv, Later, UNCHANGED <<feedState, published>>,
         trouble'["change"] = trouble["change"],
         \A d \in Callers : Follows(d),
         Locked' => \A s \in Sources : RowsFollow(s),
         \A s \in CustomFeeds : customFeed'[s] = "absent" =>
            customFeed[s] = "absent" /\ (Rows(s) = {} => Rows(s)' = {})
  PROVE  SkipInv'
<1>1. TypeOK /\ (Locked' => Locked) /\ (Uncut' => Uncut)
  BY DEF IInv, Later
<1>2. HalfInv'
  <2> SUFFICES ASSUME Locked', NEW s \in Sources PROVE Within(LiveRows(s)', Values)
    BY DEF HalfInv, Follows
  <2>1. Within(LiveRows(s), Values)
    BY <1>1 DEF SkipInv, HalfInv
  <2>2. CASE \E c \in Callers : Promotes(c, s)
    <3>1. PICK c \in Callers : Promotes(c, s)
      BY <2>2
    <3>2. job[c].data \in SUBSET Values
      BY <1>1, JobTyped DEF Job
    <3>3. QED
      BY <3>1, <3>2, WithinMore DEF Promotes
  <2>3. QED
    BY <2>1, <2>2 DEF RowsFollow, Fewer
<1>3. AbsentInv'
  BY DEF SkipInv, AbsentInv
<1>4. CompareInv'
  BY DEF CompareInv, Follows
<1>5. ASSUME Locked', trouble["change"] <= 1, NEW s \in Sources PROVE ChangeOf(s)'
  <2>1. ChangeOf(s) /\ published[s] \in Contents
    BY <1>1, <1>5 DEF SkipInv, ChangeInv, TypeOK
  <2>2. ASSUME NEW d \in Callers, Read(d, s)'
        PROVE  (Read(d, s) /\ job'[d].data = job[d].data) \/ job'[d].data = published[s]
    BY <2>2 DEF Follows, Read
  <2>3. CASE Fewer(LiveRows(s)', LiveRows(s))
    <3>1. \A lines : Stems(s, lines) => Stems(s, lines)'
      BY <2>3 DEF Stems, Fewer
    <3>2. (feedState[s] = published[s] => Within(LiveRows(s), published[s]))'
      BY <2>1, <2>3 DEF ChangeOf, Fewer
    <3>3. ASSUME NEW d \in Callers, Read(d, s)', job'[d].data # published[s]
          PROVE  Stems(s, job[d].data)'
      BY <2>1, <2>2, <2>3, <3>3 DEF ChangeOf, Stems, Fewer
    <3>4. ASSUME trouble["change"] = 0
          PROVE  Stems(s, published[s])' /\ \A d \in Callers : Read(d, s)' => job'[d].data = published[s]
      BY <2>1, <2>2, <3>1, <3>4 DEF ChangeOf
    <3>5. QED
      BY <3>2, <3>3, <3>4 DEF ChangeOf
  <2>4. ASSUME NEW c \in Callers, Promotes(c, s) PROVE ChangeOf(s)'
    <3>1. Read(c, s) /\ Within(LiveRows(s)', job[c].data)
      BY <2>4 DEF Promotes, Read
    <3>2. job[c].data \in Contents
      BY <3>1, AtWork DEF Read, Aside, Unoccupied, Holding, Swapping, Told
    <3>3. feedState[s] \in {NoState, job[c].data} \/ job[c].data = published[s]
      BY <2>1, <3>1 DEF ChangeOf, Stems
    <3>4. (feedState[s] = published[s] => Within(LiveRows(s), published[s]))'
      BY <2>1, <3>1, <3>3, FeedAssumption
    <3>5. ASSUME NEW d \in Callers, Read(d, s)', job'[d].data # published[s]
          PROVE  Stems(s, job[d].data)'
      <4>1. Read(d, s) /\ job'[d].data = job[d].data
        BY <2>2, <3>5
      <4>2. Syncing(d) /\ Syncing(c)
        BY <3>1, <4>1 DEF Read, Syncing, Holding, Swapping, Told
      <4>3. d = c
        BY <1>1, <1>5, <4>2, Alone DEF IInv
      <4>4. QED
        BY <2>1, <3>1, <3>5, <4>1, <4>3 DEF ChangeOf, Stems
    <3>6. ASSUME trouble["change"] = 0
          PROVE  Stems(s, published[s])' /\ \A d \in Callers : Read(d, s)' => job'[d].data = published[s]
      <4>1. job[c].data = published[s] /\ feedState[s] \in {NoState, published[s]}
        BY <2>1, <3>1, <3>6 DEF ChangeOf, Stems
      <4>2. Stems(s, published[s])'
        BY <3>1, <4>1 DEF Stems
      <4>3. QED
        BY <2>1, <2>2, <3>6, <4>2 DEF ChangeOf
    <3>7. QED
      BY <3>4, <3>5, <3>6 DEF ChangeOf
  <2>5. QED
    BY <1>5, <2>3, <2>4 DEF RowsFollow
<1>6. ChangeInv'
  BY <1>5 DEF ChangeInv
<1>7. UncutInv'
  <2> SUFFICES ASSUME Locked', Uncut', NEW s \in Sources, feedState[s] # NoState
               PROVE  Within(LiveRows(s)', feedState[s]) \/ \E c \in Callers : Swaps(c, s)'
    BY DEF UncutInv, Follows
  <2>1. Within(LiveRows(s), feedState[s]) \/ \E c \in Callers : Swaps(c, s)
    BY <1>1 DEF SkipInv, UncutInv
  <2>2. \A c \in Callers : Swaps(c, s) => Swaps(c, s)'
    BY DEF Follows, Swaps
  <2>3. \A c \in Callers : Promotes(c, s) => Swaps(c, s)'
    BY DEF Promotes, Swaps
  <2>4. QED
    BY <2>1, <2>2, <2>3 DEF RowsFollow, Fewer
<1>8. QED
  BY <1>2, <1>3, <1>4, <1>6, <1>7 DEF SkipInv

\* All callers but one stay where they are, and so follow.
LEMMA StaysFollow ==
  ASSUME SkipInv, Later, blocklist' \subseteq blocklist, NEW d \in Callers, job'[d] = job[d]
  PROVE  Follows(d)
<1>1. Locked' => HalfOf(d)'
  <2> SUFFICES ASSUME Locked' PROVE HalfOf(d)'
    OBVIOUS
  <2>1. HalfOf(d)
    BY DEF SkipInv, HalfInv, Later
  <2> DEFINE s == job[d].source
  <2>2. StagedRows(s)' \subseteq StagedRows(s) /\ Rows(s)' \subseteq Rows(s)
    BY DEF StagedRows, Rows
  <2>3. QED
    BY <2>1, <2>2, FewerWithin DEF HalfOf, At
<1>2. /\ Locked' => Locked
      /\ Uncut' => Uncut
  BY DEF Later
<1>3. QED
  BY <1>1, <1>2 DEF Follows, At, SkipInv, CompareInv, UncutInv

LEMMA OutsideFollows ==
  ASSUME NEW d \in Callers, job'[d].at \notin Holding, Uncut' => job[d].at \notin Swapping \cup Told
  PROVE  Follows(d)
<1>1. job'[d].at \notin {"staging", "counting", "recording"} \cup Swapping \cup Told
  BY DEF Holding, Told
<1>2. HalfOf(d)'
  BY <1>1 DEF HalfOf, At, Swapping
<1>3. QED
  BY <1>1, <1>2 DEF Follows, At

\* A caller goes on, and rows may go, but no other are there.
LEMMA CallerKeeps ==
  ASSUME IInv, SkipInv, Later, UNCHANGED <<feedState, published>>,
         trouble'["change"] = trouble["change"],
         blocklist' \subseteq blocklist,
         \A s \in CustomFeeds : customFeed'[s] = "absent" => customFeed[s] = "absent",
         NEW c \in Callers, \A d \in Callers \ {c} : job'[d] = job[d], Follows(c)
  PROVE  SkipInv'
<1>1. \A d \in Callers : Follows(d)
  BY StaysFollow
<1>2. ASSUME NEW s PROVE LiveRows(s)' \subseteq LiveRows(s) /\ Rows(s)' \subseteq Rows(s)
  BY DEF LiveRows, Rows
<1>3. \A s \in Sources : RowsFollow(s)
  BY <1>2, FewerWithin DEF RowsFollow, Fewer
<1>4. \A s \in CustomFeeds : Rows(s) = {} => Rows(s)' = {}
  BY <1>2
<1>5. QED
  BY <1>1, <1>3, <1>4, FollowKeeps

\* The same for a step that touches nothing but a caller which is not at work before or after.
LEMMA OutsideSkips ==
  ASSUME IInv, SkipInv, UNCHANGED <<feedState, published>>,
         UNCHANGED trouble \/ \E kind \in Kinds \ {"change"} : Happens(kind),
         blocklist' \subseteq blocklist,
         \A s \in CustomFeeds : customFeed'[s] = "absent" => customFeed[s] = "absent",
         NEW c \in Callers, \A d \in Callers \ {c} : job'[d] = job[d],
         job'[c].at \notin Holding, Uncut' => job[c].at \notin Swapping \cup Told
  PROVE  SkipInv'
<1>1. Later /\ trouble'["change"] = trouble["change"]
  BY SameLists DEF IInv
<1>2. QED
  BY <1>1, OutsideFollows, CallerKeeps

LEMMA AwaySkips ==
  ASSUME IInv, SkipInv, NEW c \in Callers,
         \/ StartAll(c) \/ TakeLock(c) \/ Choose(c) \/ ListFeeds(c) \/ Leave(c) \/ Unlock(c)
         \/ \E s \in Sources : StartOne(c, s)
  PROVE  SkipInv'
<1>1. TypeOK /\ job[c] \in Job /\ job \in [Callers -> Job] /\ Kinds = {"change", "unguarded", "fault", "restart", "edit"}
  BY JobTyped DEF IInv, TypeOK, Kinds
<1>2. /\ UNCHANGED <<feedState, published, blocklist, customFeed>>
      /\ UNCHANGED trouble \/ \E kind \in Kinds \ {"change"} : Happens(kind)
  BY <1>1 DEF StartAll, TakeLock, Choose, ListFeeds, Leave, Unlock, StartOne, tables, feeds, world
<1>3. job[c].at \notin Swapping \cup Told
  BY DEF StartAll, TakeLock, Choose, ListFeeds, Leave, Unlock, StartOne, At, Swapping, Told
<1>4. /\ \A d \in Callers \ {c} : job'[d] = job[d]
      /\ job'[c].at \in {"idle", "locking", "choosing", "walking", "opening", "fetching", "unlocking"}
  <2>1. CASE StartAll(c)
    BY <1>1, <2>1 DEF StartAll, Job
  <2>2. CASE TakeLock(c)
    BY <1>1, <2>2 DEF TakeLock, Begin, Refused, Job, Idle
  <2>3. CASE Choose(c)
    <3>1. PICK s \in job[c].todo :
             job' = [job EXCEPT ![c].at = IF s \in CustomFeeds THEN "opening" ELSE "fetching",
                                ![c].source = s, ![c].todo = @ \ {s}]
      BY <2>3 DEF Choose
    <3>2. \A d \in Callers \ {c} : job'[d] = job[d]
      BY <1>1, <3>1
    <3> DEFINE j == [job[c] EXCEPT !.at = IF s \in CustomFeeds THEN "opening" ELSE "fetching",
                                   !.source = s, !.todo = @ \ {s}]
    <3>3. job'[c] = j
      BY <1>1, <3>1
    <3>4. job'[c].at = IF s \in CustomFeeds THEN "opening" ELSE "fetching"
      BY <1>1, <3>3 DEF Job
    <3>5. QED
      BY <3>2, <3>4
  <2>4. CASE ListFeeds(c)
    BY <1>1, <2>4 DEF ListFeeds, Goto, Job
  <2>5. CASE Leave(c)
    BY <1>1, <2>5 DEF Leave, Job, Idle
  <2>6. CASE Unlock(c)
    BY <1>1, <2>6 DEF Unlock, Goto, Job
  <2>7. CASE \E s \in Sources : StartOne(c, s)
    BY <1>1, <2>7 DEF StartOne, Job
  <2>8. QED
    BY <2>1, <2>2, <2>3, <2>4, <2>5, <2>6, <2>7
<1>5. job'[c].at \notin Holding
  BY <1>4 DEF Holding, Swapping, Told
<1>6. QED
  BY <1>2, <1>3, <1>4, <1>5, OutsideSkips

LEMMA FeedsSkip ==
  ASSUME IInv, SkipInv, NEW c \in Callers,
         Open(c) \/ Report(c) \/ ReportFailure(c) \/ RemoveFeed(c) \/ Throw(c)
  PROVE  SkipInv'
<1>1. TypeOK /\ job[c] \in Job /\ job \in [Callers -> Job] /\ Kinds = {"change", "unguarded", "fault", "restart", "edit"}
  BY JobTyped DEF IInv, TypeOK, Kinds
<1>2. /\ UNCHANGED <<feedState, published, blocklist>>
      /\ UNCHANGED trouble \/ \E kind \in Kinds \ {"change"} : Happens(kind)
  BY <1>1 DEF Open, Report, ReportFailure, RemoveFeed, Throw, tables, feeds, world
<1>3. \A s \in CustomFeeds : customFeed'[s] = "absent" => customFeed[s] = "absent"
  <2>1. CASE RemoveFeed(c)
    BY <1>1, <2>1 DEF RemoveFeed, TypeOK
  <2>2. CASE ~RemoveFeed(c)
    BY <2>2 DEF Open, Report, ReportFailure, Throw, tables, feeds, world
  <2>3. QED
    BY <2>1, <2>2
<1>4. Uncut' => job[c].at \notin Swapping \cup Told
  <2>1. CASE Throw(c)
    BY <1>1, <2>1, Faulted DEF Throw
  <2>2. CASE ~Throw(c)
    BY <2>2 DEF Open, Report, ReportFailure, RemoveFeed, At, Swapping, Told
  <2>3. QED
    BY <2>1, <2>2
<1>5. \A d \in Callers \ {c} : job'[d] = job[d]
  BY <1>1 DEF Open, Report, ReportFailure, RemoveFeed, Throw, Goto, Done, Escape
<1>6. job'[c].at \notin Holding
  <2>1. CASE Done(c) \/ Escape(c)
    BY <1>1, <2>1, DoneEnds DEF Ended, Holding, Swapping, Told
  <2>2. CASE Goto(c, "fetching") \/ Goto(c, "failing")
    BY <1>1, <2>2, GotoMoves DEF Moved, Places, Holding, Swapping, Told
  <2>3. CASE job' = [job EXCEPT ![c] = Idle]
    BY <1>1, <2>3 DEF Idle, Holding, Swapping, Told
  <2>4. QED
    BY <2>1, <2>2, <2>3 DEF Open, Report, ReportFailure, RemoveFeed, Throw
<1>7. QED
  BY <1>2, <1>3, <1>4, <1>5, <1>6, OutsideSkips

LEMMA EditsSkip ==
  ASSUME IInv, SkipInv, NEW c \in Callers, NEW s \in CustomFeeds,
         UpdateCustomFeed(c, s) \/ RemoveRows(c, s)
  PROVE  SkipInv'
<1>1. TypeOK /\ job[c] \in Job /\ job \in [Callers -> Job] /\ Kinds = {"change", "unguarded", "fault", "restart", "edit"}
  BY JobTyped DEF IInv, TypeOK, Kinds
<1>2. /\ UNCHANGED <<feedState, published>>
      /\ blocklist' \subseteq blocklist
      /\ UNCHANGED trouble \/ \E kind \in Kinds \ {"change"} : Happens(kind)
      /\ job[c].at = "idle"
  BY <1>1 DEF UpdateCustomFeed, RemoveRows, At
<1>3. \A f \in CustomFeeds : customFeed'[f] = "absent" => customFeed[f] = "absent"
  BY <1>1 DEF UpdateCustomFeed, RemoveRows, TypeOK
<1>4. /\ \A d \in Callers \ {c} : job'[d] = job[d]
      /\ job'[c].at \in {"idle", "removing"}
  <2>1. CASE UpdateCustomFeed(c, s)
    BY <1>2, <2>1 DEF UpdateCustomFeed
  <2>2. CASE RemoveRows(c, s)
    BY <1>1, <2>2 DEF RemoveRows, Job
  <2>3. QED
    BY <2>1, <2>2
<1>5. job[c].at \notin Swapping \cup Told /\ job'[c].at \notin Holding
  BY <1>2, <1>4 DEF Holding, Swapping, Told
<1>6. QED
  BY <1>2, <1>3, <1>4, <1>5, OutsideSkips

LEMMA RestartSkips ==
  ASSUME IInv, SkipInv, NEW p \in Processes, Restart(p)
  PROVE  SkipInv'
<1>1. TypeOK /\ Kinds = {"change", "unguarded", "fault", "restart", "edit"}
  BY DEF IInv, Kinds
<1>2. Later /\ trouble'["change"] = trouble["change"] /\ ~Uncut'
  BY <1>1, SameLists, CountedTrouble DEF Restart, Uncut
<1>3. UNCHANGED <<feedState, published, blocklist, customFeed>>
  BY DEF Restart, tables, feeds
<1>4. ASSUME NEW d \in Callers PROVE Follows(d)
  <2>1. CASE job'[d] = job[d]
    BY <1>2, <1>3, <2>1, StaysFollow
  <2>2. CASE job'[d] = Idle
    BY <1>2, <2>2, OutsideFollows DEF Idle, Holding, Swapping, Told
  <2>3. QED
    BY <2>1, <2>2 DEF Restart
<1>5. \A s \in Sources : RowsFollow(s)
  BY <1>3 DEF RowsFollow, Fewer, LiveRows
<1>6. \A s \in CustomFeeds : Rows(s)' = Rows(s)
  BY <1>3 DEF Rows
<1>7. QED
  BY <1>2, <1>3, <1>4, <1>5, <1>6, FollowKeeps

\* A caller goes on with its source.
LEMMA GoesOn ==
  ASSUME IInv, SkipInv, Later, UNCHANGED <<feedState, published, customFeed>>,
         trouble'["change"] = trouble["change"],
         blocklist' \subseteq blocklist,
         NEW c \in Callers, job[c].at \in Holding,
         NEW place \in Holding \ {"recording"}, NEW ids, Moved(c, place, ids),
         Locked' => HalfOf(c)',
         Locked' /\ place = "counting" => feedState[job[c].source] = job[c].data,
         job[c].at \in Swapping \cup Told => place \in Swapping \cup Told
  PROVE  SkipInv'
<1>1. Follows(c)
  BY DEF Moved, Follows, At
<1>2. QED
  BY <1>1, CallerKeeps DEF Moved, Only

LEMMA FetchSkips ==
  ASSUME IInv, SkipInv, NEW c \in Callers, Fetch(c)
  PROVE  SkipInv'
<1>1. /\ TypeOK /\ job[c] \in Job /\ WellFormed(job[c])
      /\ UNCHANGED <<blocklist, feedState, customFeed, published, trouble>>
      /\ job[c].at = "fetching"
  BY JobTyped DEF IInv, JobInv, Fetch, At, tables, feeds, world
<1>2. Later
  BY <1>1, SameLists
<1>3. job[c].source \in Sources
  BY <1>1 DEF WellFormed, Job, Unoccupied
<1>4. PICK lines \in Contents : lines = published[job[c].source]
  BY <1>1, <1>3 DEF TypeOK
<1> DEFINE j == [job[c] EXCEPT !.at = "comparing", !.data = lines]
<1>5. j \in Job
  BY <1>1, FeedAssumption DEF Job, Places
<1>6. job' = [job EXCEPT ![c] = j]
  BY <1>4 DEF Fetch
<1>7. Only(c) /\ job'[c] = j
  BY <1>1, <1>5, <1>6, OnlyOne
<1>8. job'[c].at = "comparing" /\ job'[c].data = lines /\ job'[c].source = job[c].source
  BY <1>1, <1>7, ZenonT(60) DEF Job
<1>9. HalfOf(c)'
  BY <1>8 DEF HalfOf, At, Told
<1>10. Follows(c)
  BY <1>1, <1>4, <1>8, <1>9 DEF Follows, At, Swapping, Told
<1>11. QED
  BY <1>1, <1>2, <1>7, <1>10, CallerKeeps DEF Only

LEMMA CompareSkips ==
  ASSUME IInv, SkipInv, NEW c \in Callers, Compare(c)
  PROVE  SkipInv'
<1>1. /\ TypeOK /\ job[c].at = "comparing"
      /\ UNCHANGED <<blocklist, feedState, customFeed, published>>
      /\ job[c].at \in Holding /\ job[c].at \notin Swapping \cup Told
  BY DEF IInv, Compare, At, tables, feeds, Holding, Swapping, Told
<1>2. Later /\ trouble'["change"] = trouble["change"]
  BY <1>1, SameLists DEF Compare, Kinds
<1>3. CASE feedState[job[c].source] = job[c].data /\ Goto(c, "counting")
  <2>1. Moved(c, "counting", job[c].picked)
    BY <1>1, <1>3, GotoMoves DEF Places
  <2>2. HalfOf(c)'
    BY <2>1 DEF Moved, HalfOf, At, Told
  <2>3. QED
    BY <1>1, <1>2, <1>3, <2>1, <2>2, GoesOn DEF Holding
<1>4. CASE Goto(c, "unstaging")
  <2>1. Moved(c, "unstaging", job[c].picked)
    BY <1>1, <1>4, GotoMoves DEF Places
  <2>2. HalfOf(c)'
    BY <2>1 DEF Moved, HalfOf, At, Told
  <2>3. QED
    BY <1>1, <1>2, <2>1, <2>2, GoesOn DEF Holding
<1>5. QED
  BY <1>3, <1>4 DEF Compare

LEMMA CountSkips ==
  ASSUME IInv, SkipInv, NEW c \in Callers, Count(c)
  PROVE  SkipInv'
<1>1. /\ TypeOK /\ job[c].at = "counting" /\ job \in [Callers -> Job]
      /\ UNCHANGED <<blocklist, feedState, customFeed, published, trouble>>
      /\ job[c].at \in Holding /\ job[c].at \notin Swapping \cup Told
  BY DEF IInv, TypeOK, Count, At, tables, feeds, world, Holding, Swapping, Told
<1>2. Later
  BY <1>1, SameLists
<1>3. CASE Stored(c)
  <2>1. Ended(c) \/ Moved(c, "reporting", job[c].picked)
    BY <1>1, <1>3, StoredMoves
  <2>2. job'[c].at \notin Holding /\ \A d \in Callers \ {c} : job'[d] = job[d]
    BY <2>1 DEF Ended, Moved, Only, Holding, Swapping, Told
  <2>3. QED
    BY <1>1, <2>2, OutsideSkips
<1>4. CASE Goto(c, "unstaging")
  <2>1. Moved(c, "unstaging", job[c].picked)
    BY <1>1, <1>4, GotoMoves DEF Places
  <2>2. HalfOf(c)'
    BY <2>1 DEF Moved, HalfOf, At, Told
  <2>3. QED
    BY <1>1, <1>2, <2>1, <2>2, GoesOn DEF Holding
<1>5. QED
  BY <1>3, <1>4 DEF Count

LEMMA PickStagedSkips ==
  ASSUME IInv, SkipInv, NEW c \in Callers, PickStaged(c)
  PROVE  SkipInv'
<1>1. /\ TypeOK /\ job[c].at = "unstaging" /\ job[c] \in Job
      /\ UNCHANGED <<blocklist, feedState, customFeed, published, trouble>>
      /\ job[c].at \in Holding /\ job[c].at \notin Swapping \cup Told
  BY JobTyped DEF IInv, PickStaged, At, tables, feeds, world, Holding, Swapping, Told
<1>2. Later
  BY <1>1, SameLists
<1>3. CASE KeyIds(job[c].source, TRUE) = {} /\
           job' = [job EXCEPT ![c].at = "staging", ![c].left = job[c].data]
  <2> DEFINE j == [job[c] EXCEPT !.at = "staging", !.left = job[c].data]
  <2>1. j \in Job
    BY <1>1 DEF Job, Places
  <2>2. job' = [job EXCEPT ![c] = j]
    BY <1>3
  <2>3. Only(c) /\ job'[c] = j
    BY <1>1, <2>1, <2>2, OnlyOne
  <2>4. /\ job'[c].at = "staging" /\ job'[c].data = job[c].data /\ job'[c].source = job[c].source
    BY <1>1, <2>3 DEF Job
  <2>5. {r \in blocklist' : r.source = job'[c].source /\ r.staged} = {}
    BY <1>1, <1>3, <2>4, NoneOfKey, ZenonT(60)
  <2>6. HalfOf(c)'
    BY <2>4, <2>5 DEF HalfOf, At, Told, StagedRows, Within
  <2>7. Follows(c)
    BY <1>1, <2>4, <2>6 DEF Follows, At
  <2>8. QED
    BY <1>1, <1>2, <2>3, <2>7, CallerKeeps DEF Only
<1>4. CASE GotoWith(c, "deletingStaged", Chunk(KeyIds(job[c].source, TRUE)))
  <2> DEFINE ids == Chunk(KeyIds(job[c].source, TRUE))
  <2>1. Moved(c, "deletingStaged", ids)
    BY <1>1, <1>4, StagedChunk, GotoWithMoves DEF Places
  <2> HIDE DEF ids
  <2>2. HalfOf(c)'
    BY <2>1 DEF Moved, HalfOf, At, Told
  <2>3. QED
    BY <1>1, <1>2, <2>1, <2>2, GoesOn DEF Holding
<1>5. QED
  BY <1>3, <1>4 DEF PickStaged

LEMMA PickLiveSkips ==
  ASSUME IInv, SkipInv, NEW c \in Callers, PickLive(c)
  PROVE  SkipInv'
<1> DEFINE s == job[c].source
<1>1. /\ TypeOK /\ job[c].at \in {"retiring", "staging"} /\ job[c] \in Job
      /\ UNCHANGED <<blocklist, feedState, customFeed, published, trouble>>
      /\ job[c].at \in Holding
  BY JobTyped DEF IInv, PickLive, At, tables, feeds, world, Holding, Swapping
<1>2. Later
  BY <1>1, SameLists
<1>3. Locked' => Within(StagedRows(s), job[c].data)
  <2> SUFFICES ASSUME Locked' PROVE Within(StagedRows(s), job[c].data)
    OBVIOUS
  <2>1. HalfOf(c)
    BY <1>2 DEF SkipInv, HalfInv, Later
  <2>2. CASE At(c, "retiring")
    BY <2>1, <2>2 DEF HalfOf, At
  <2>3. CASE At(c, "staging")
    BY <2>1, <2>3, WithinMore DEF HalfOf
  <2>4. QED
    BY <1>1, <2>2, <2>3 DEF At
<1>4. CASE KeyIds(s, FALSE) = {} /\ GotoWith(c, "promoting", {})
  <2>1. Moved(c, "promoting", {})
    BY <1>1, <1>4, GotoWithMoves DEF Places
  <2>2. Rows(s) = StagedRows(s)
    BY <1>1, <1>4, NoneOfKey, ZenonT(60) DEF Rows, StagedRows, TypeOK, Row
  <2>3. Locked' => HalfOf(c)'
    BY <1>1, <1>3, <2>1, <2>2 DEF Moved, HalfOf, At, Rows, Within
  <2>4. QED
    BY <1>1, <1>2, <2>1, <2>3, GoesOn DEF Holding, Swapping, Told
<1>5. CASE GotoWith(c, "deletingLive", Chunk(KeyIds(s, FALSE)))
  <2> DEFINE ids == Chunk(KeyIds(s, FALSE))
  <2>1. Moved(c, "deletingLive", ids)
    BY <1>1, <1>5, LiveChunk, GotoWithMoves DEF Places
  <2> HIDE DEF ids
  <2>2. Locked' => HalfOf(c)'
    BY <1>1, <1>3, <2>1 DEF Moved, HalfOf, At, Told, StagedRows, Within
  <2>3. QED
    BY <1>1, <1>2, <2>1, <2>2, GoesOn DEF Holding, Swapping, Told
<1>6. QED
  BY <1>4, <1>5 DEF PickLive

LEMMA PickPromotedSkips ==
  ASSUME IInv, SkipInv, NEW c \in Callers, PickPromoted(c)
  PROVE  SkipInv'
<1> DEFINE s == job[c].source
<1>1. /\ TypeOK /\ job[c].at = "promoting" /\ job[c] \in Job
      /\ UNCHANGED <<blocklist, feedState, customFeed, published, trouble>>
      /\ job[c].at \in Holding
  BY JobTyped DEF IInv, PickPromoted, At, tables, feeds, world, Holding, Swapping
<1>2. Later
  BY <1>1, SameLists
<1>3. Locked' => Within(Rows(s), job[c].data)
  BY <1>1, <1>2 DEF SkipInv, HalfInv, HalfOf, Later
<1>4. CASE GotoWith(c, "forgetting", {})
  <2>1. Moved(c, "forgetting", {})
    BY <1>1, <1>4, GotoWithMoves DEF Places
  <2>2. Locked' => HalfOf(c)'
    BY <1>1, <1>3, <2>1 DEF Moved, HalfOf, At, Rows, Within
  <2>3. QED
    BY <1>1, <1>2, <2>1, <2>2, GoesOn DEF Holding, Swapping, Told
<1>5. CASE GotoWith(c, "renaming", Chunk(KeyIds(s, TRUE)))
  <2> DEFINE ids == Chunk(KeyIds(s, TRUE))
  <2>1. Moved(c, "renaming", ids)
    BY <1>1, <1>5, StagedChunk, GotoWithMoves DEF Places
  <2> HIDE DEF ids
  <2>2. Locked' => HalfOf(c)'
    BY <1>1, <1>3, <2>1 DEF Moved, HalfOf, At, Told, Rows, Within
  <2>3. QED
    BY <1>1, <1>2, <2>1, <2>2, GoesOn DEF Holding, Swapping, Told
<1>6. QED
  BY <1>4, <1>5 DEF PickPromoted

LEMMA DeleteSkips ==
  ASSUME IInv, SkipInv, NEW c \in Callers, Delete(c)
  PROVE  SkipInv'
<1> DEFINE place == IF At(c, "deletingStaged") THEN "unstaging" ELSE "retiring"
           s == job[c].source
<1>1. /\ TypeOK /\ job[c].at \in {"deletingStaged", "deletingLive"} /\ job[c] \in Job
      /\ UNCHANGED <<feedState, customFeed, published, trouble>>
      /\ blocklist' \subseteq blocklist
      /\ job[c].at \in Holding
  BY JobTyped DEF IInv, Delete, feeds, world, Holding, Swapping
<1>2. Later
  BY <1>1, SameLists
<1>3. Moved(c, place, {})
  BY <1>1, GotoWithMoves DEF Places, Delete
<1>4. Locked' => HalfOf(c)'
  <2> SUFFICES ASSUME Locked' PROVE HalfOf(c)'
    OBVIOUS
  <2>1. CASE At(c, "deletingStaged")
    BY <1>3, <2>1 DEF Moved, HalfOf, At, Told
  <2>2. CASE At(c, "deletingLive")
    <3>1. Within(StagedRows(s), job[c].data)
      BY <1>2, <2>2 DEF SkipInv, HalfInv, HalfOf, At, Later
    <3>2. Within({r \in blocklist' : r.source = s /\ r.staged}, job[c].data)
      BY <1>1, <3>1 DEF Within, StagedRows
    <3>3. QED
      BY <1>3, <2>2, <3>2 DEF Moved, HalfOf, At, Told, StagedRows, Within
  <2>3. QED
    BY <1>1, <2>1, <2>2 DEF At
<1>5. place \in Holding \ {"recording", "counting"} /\ (job[c].at \in Swapping \cup Told => place \in Swapping)
  BY <1>1 DEF Holding, Swapping, Told, At
<1> HIDE DEF place
<1>6. QED
  BY <1>1, <1>2, <1>3, <1>4, <1>5, GoesOn

LEMMA WriteSkips ==
  ASSUME IInv, SkipInv, UNCHANGED <<feedState, feeds, world>>,
         NEW c \in Callers, Apart(c),
         job'[c].source = job[c].source, job'[c].data = job[c].data,
         job[c].at \in Holding, job'[c].at \in Holding \ {"counting", "recording"},
         job[c].at \in Swapping \cup Told => job'[c].at \in Swapping,
         Locked' => HalfOf(c)',
         Locked' => \A s \in Sources : RowsFollow(s),
         \A s \in CustomFeeds : Rows(s) = {} => Rows(s)' = {} \/ job[c].source = s
  PROVE  SkipInv'
<1>1. /\ TypeOK /\ Syncing(c) /\ job[c].at # "opening"
      /\ UNCHANGED <<feedState, customFeed, published, trouble>>
  BY DEF IInv, feeds, world, Syncing, Holding, Swapping, Told
<1>2. Later /\ trouble'["change"] = trouble["change"]
  BY <1>1, SameLists
<1>3. Follows(c)
  BY DEF Follows, At
<1>4. ASSUME NEW d \in Callers \ {c} PROVE Follows(d)
  <2>1. /\ job'[d].at = job[d].at /\ job'[d].source = job[d].source /\ job'[d].data = job[d].data
    BY DEF Apart
  <2>2. Locked' => HalfOf(d)' /\ ~At(d, "counting")'
    <3> SUFFICES ASSUME Locked' PROVE HalfOf(d)' /\ ~At(d, "counting")'
      OBVIOUS
    <3>1. ~Syncing(d)
      BY <1>1, <1>2, Alone DEF IInv, Later
    <3>2. job'[d].at \notin {"counting", "staging"} \cup Swapping \cup Told
      BY <2>1, <3>1 DEF Syncing, Swapping, Told
    <3>3. QED
      BY <3>2 DEF HalfOf, At, Swapping
  <2>3. Locked' /\ Uncut' => (At(d, "recording")' => feedState[job'[d].source] = NoState)
    BY <1>2, <2>1 DEF SkipInv, UncutInv, Later, At
  <2>4. QED
    BY <2>1, <2>2, <2>3 DEF Follows
<1>5. ASSUME NEW s \in CustomFeeds, customFeed'[s] = "absent"
      PROVE  customFeed[s] = "absent" /\ (Rows(s) = {} => Rows(s)' = {})
  BY <1>1, <1>5 DEF IInv, RemovalInv, RemovalOf, At
<1>6. QED
  BY <1>1, <1>2, <1>3, <1>4, <1>5, FollowKeeps

LEMMA RenameSkips ==
  ASSUME IInv, SkipInv, NEW c \in Callers, Rename(c)
  PROVE  SkipInv'
<1> DEFINE s == job[c].source
<1>1. job[c].at = "renaming" /\ UNCHANGED <<feedState, feeds, guards, world>>
  BY DEF At, Rename
<1>2. /\ TypeOK /\ job[c] \in Job /\ s \in Sources
  BY <1>1, AtWork DEF Aside, Unoccupied, Holding, Swapping
<1>3. Moved(c, "promoting", {})
  BY <1>2, GotoWithMoves DEF Places, Rename
<1>4. /\ Apart(c) /\ job'[c].at = "promoting" /\ job'[c].source = s /\ job'[c].data = job[c].data
  BY <1>3, OnlyApart DEF Moved
<1>5. /\ job[c].at \in Holding /\ job'[c].at \in Holding \ {"counting", "recording"}
      /\ job'[c].at \in Swapping
  BY <1>1, <1>4 DEF Holding, Swapping, Told
<1>6. \A r \in blocklist :
         /\ Promoted(c, r).value = r.value
         /\ Promoted(c, r).source = IF r.id \in job[c].picked THEN s ELSE r.source
         /\ Promoted(c, r).staged <=> r.staged /\ r.id \notin job[c].picked
  BY <1>2 DEF TypeOK, Row, Promoted
<1>7. \A q \in blocklist' : \E r \in blocklist : q = Promoted(c, r)
  BY DEF Promoted, Rename
<1>8. Locked' => Locked /\ PickedFor(c) /\ HalfOf(c)
  BY <1>1, <1>2, NoTrouble DEF IInv, PickInv, SkipInv, HalfInv, world
<1>9. Locked' => \A r \in blocklist : Promoted(c, r).source = r.source
  BY <1>1, <1>6, <1>8 DEF PickedFor
<1>10. Locked' => Within({q \in blocklist' : q.source = s}, job[c].data)
  <2> SUFFICES ASSUME Locked' PROVE Within({q \in blocklist' : q.source = s}, job[c].data)
    OBVIOUS
  <2>1. Within(Rows(s), job[c].data)
    BY <1>1, <1>8 DEF HalfOf, At
  <2> DEFINE rows == {q \in blocklist' : q.source = s}
  <2>2. \A q \in rows : \E r \in Rows(s) : q = Promoted(c, r) /\ q.value = r.value
    BY <1>6, <1>7, <1>9 DEF Rows
  <2> HIDE DEF rows
  <2>3. Within(rows, job[c].data)
    BY <2>1, <2>2 DEF Within
  <2>4. QED
    BY <2>3 DEF rows
<1>11. Locked' => HalfOf(c)'
  BY <1>4, <1>10 DEF HalfOf, At, Rows, Within
<1>12. ASSUME Locked', NEW f \in Sources PROVE RowsFollow(f)
  <2>1. CASE f = s
    <3>1. Within({q \in blocklist' : q.source = s /\ ~q.staged}, job[c].data)
      BY <1>10, <1>12 DEF Within
    <3>2. Promotes(c, f)
      BY <1>4, <1>5, <2>1, <3>1 DEF Promotes, LiveRows
    <3>3. QED
      BY <3>2 DEF RowsFollow
  <2>2. CASE f # s
    <3>1. ASSUME NEW q \in LiveRows(f)' PROVE q \in LiveRows(f)
      <4>1. q \in blocklist' /\ q.source = f /\ ~q.staged
        BY <3>1 DEF LiveRows
      <4>2. PICK r \in blocklist : q = Promoted(c, r)
        BY <1>7, <4>1
      <4>3. r.source = f /\ r.id \notin job[c].picked
        BY <1>1, <1>6, <1>8, <1>12, <2>2, <4>1, <4>2 DEF PickedFor
      <4>4. r \in Row
        BY <1>2 DEF TypeOK
      <4>5. Promoted(c, r) = r
        BY <4>3, <4>4 DEF Promoted, Row
      <4>6. QED
        BY <4>1, <4>2, <4>5 DEF LiveRows
    <3>2. QED
      BY <3>1, FewerWithin DEF RowsFollow, Fewer
  <2>3. QED
    BY <2>1, <2>2
<1>13. ASSUME NEW f \in CustomFeeds, Rows(f) = {}, f # s PROVE Rows(f)' = {}
  <2>1. ASSUME NEW q \in blocklist', q.source = f PROVE FALSE
    <3>1. PICK r \in blocklist : q = Promoted(c, r)
      BY <1>7
    <3>2. QED
      BY <1>6, <1>13, <2>1, <3>1 DEF Rows
  <2>2. QED
    BY <2>1 DEF Rows
<1>14. QED
  BY <1>1, <1>4, <1>5, <1>11, <1>12, <1>13, WriteSkips

LEMMA StageSkips ==
  ASSUME IInv, SkipInv, NEW c \in Callers, Stage(c)
  PROVE  SkipInv'
<1> DEFINE s == job[c].source
           n == Cardinality(IdsInUse)
<1>1. job[c].at = "staging" /\ UNCHANGED <<feedState, feeds, guards, world>>
  BY DEF At, Stage
<1>2. /\ TypeOK /\ job[c] \in Job /\ WellFormed(job[c]) /\ s \in Sources
      /\ job[c].left \subseteq job[c].data
  BY <1>1, AtWork DEF Aside, Unoccupied, Holding, WellFormed
<1>3. PICK batch \in Batches(job[c].left) :
         LET fresh == (n + 1)..(n + Cardinality(batch))
             id    == CHOOSE f \in Injection(batch, fresh) : TRUE IN
         /\ blocklist' = {[r EXCEPT !.id = Renumbered(@)] : r \in blocklist} \cup
               {[id |-> id[v], source |-> s, staged |-> TRUE, value |-> v] : v \in batch}
         /\ job' = [d \in Callers |->
               [job[d] EXCEPT !.picked = {Renumbered(i) : i \in @},
                              !.left = IF d = c THEN @ \ batch ELSE @]]
  BY DEF Stage
<1> DEFINE id == CHOOSE f \in Injection(batch, (n + 1)..(n + Cardinality(batch))) : TRUE
<1>4. batch \subseteq job[c].left
  BY <1>2 DEF Batches, kSubset, Job
<1>5. blocklist' = {Anew(r) : r \in blocklist} \cup {NewRow(c, id[v], v) : v \in batch}
  BY <1>3 DEF Anew, NewRow
<1>6. job' = [d \in Callers |->
                [job[d] EXCEPT !.picked = {Renumbered(i) : i \in @},
                               !.left = IF d = c THEN @ \ batch ELSE @]]
  BY <1>3
<1> HIDE DEF id, n
<1>7. \A q \in blocklist' : \/ \E r \in blocklist : q = Anew(r)
                            \/ \E v \in batch : q = NewRow(c, id[v], v)
  BY <1>5
<1>8. \A r \in blocklist :
          Anew(r).source = r.source /\ Anew(r).staged = r.staged /\ Anew(r).value = r.value
  <2> SUFFICES ASSUME NEW r \in blocklist
               PROVE  Anew(r).source = r.source /\ Anew(r).staged = r.staged /\ Anew(r).value = r.value
    OBVIOUS
  <2>1. r \in Row
    BY <1>2 DEF TypeOK
  <2> DEFINE i == Renumbered(r.id)
  <2>2. Anew(r) = [r EXCEPT !.id = i]
    BY DEF Anew
  <2> HIDE DEF i
  <2>3. QED
    BY <2>1, <2>2 DEF Row
<1>9. \A v \in batch :
          /\ NewRow(c, id[v], v).source = s /\ NewRow(c, id[v], v).staged
          /\ NewRow(c, id[v], v).value = v
  BY DEF NewRow
<1>10. /\ Apart(c)
      /\ job'[c].at = "staging" /\ job'[c].source = s
      /\ job'[c].data = job[c].data /\ job'[c].left = job[c].left \ batch
  <2>1. ASSUME NEW d \in Callers
        PROVE  /\ job'[d].at = job[d].at /\ job'[d].all = job[d].all
               /\ job'[d].source = job[d].source /\ job'[d].data = job[d].data
               /\ job'[d].left = IF d = c THEN job[d].left \ batch ELSE job[d].left
    <3>1. job[d] \in Job
      BY <1>2, JobTyped
    <3> DEFINE ids == {Renumbered(i) : i \in job[d].picked}
    <3>2. job'[d] = [job[d] EXCEPT !.picked = ids,
                                   !.left = IF d = c THEN job[d].left \ batch ELSE job[d].left]
      BY <1>6
    <3> HIDE DEF ids
    <3>3. QED
      BY <3>1, <3>2 DEF Job
  <2>2. job' \in [Callers -> Job]
    BY StageStep DEF IInv, TypeOK
  <2>3. QED
    BY <1>1, <2>1, <2>2 DEF Apart
<1>11. Locked' => HalfOf(c)'
  <2> SUFFICES ASSUME Locked' PROVE HalfOf(c)'
    OBVIOUS
  <2>1. Within(StagedRows(s), job[c].data \ job[c].left)
    BY <1>1, <1>2, NoTrouble DEF SkipInv, HalfInv, HalfOf, At, world
  <2> DEFINE rows == {q \in blocklist' : q.source = s /\ q.staged}
  <2>2. \A q \in rows : \/ \E r \in StagedRows(s) : q = Anew(r) /\ q.value = r.value
                        \/ \E v \in batch : q = NewRow(c, id[v], v) /\ q.value = v
    BY <1>7, <1>8, <1>9 DEF StagedRows
  <2> HIDE DEF rows
  <2>3. \A q \in rows : q.value \in job[c].data \ (job[c].left \ batch)
    BY <1>2, <1>4, <2>1, <2>2 DEF Within
  <2>4. \A r \in StagedRows(s) : r.value \notin batch
    BY <1>4, <2>1 DEF Within
  <2>5. \A p, q \in rows : p.value = q.value => p = q
    BY <2>1, <2>2, <2>4 DEF Within
  <2>6. Within(rows, job[c].data \ (job[c].left \ batch))
    BY <2>3, <2>5 DEF Within
  <2>7. QED
    BY <1>10, <2>6 DEF HalfOf, At, Told, StagedRows, Within, rows
<1>12. \A f \in Sources : RowsFollow(f)
  <2> SUFFICES ASSUME NEW f \in Sources, NEW lines, Within(LiveRows(f), lines)
               PROVE  Within(LiveRows(f)', lines)
    BY DEF RowsFollow, Fewer
  <2>1. \A q \in LiveRows(f)' : \E r \in LiveRows(f) : q = Anew(r) /\ q.value = r.value
    BY <1>7, <1>8, <1>9 DEF LiveRows
  <2>2. QED
    BY <2>1 DEF Within
<1>13. ASSUME NEW f \in CustomFeeds, Rows(f) = {}, f # s PROVE Rows(f)' = {}
  <2>1. ASSUME NEW q \in blocklist', q.source = f PROVE FALSE
    <3>1. CASE \E r \in blocklist : q = Anew(r)
      BY <1>8, <1>13, <2>1, <3>1 DEF Rows
    <3>2. CASE \E v \in batch : q = NewRow(c, id[v], v)
      BY <1>9, <1>13, <2>1, <3>2
    <3>3. QED
      BY <1>7, <3>1, <3>2
  <2>2. QED
    BY <2>1 DEF Rows
<1>14. /\ job[c].at \in Holding /\ job'[c].at \in Holding \ {"counting", "recording"}
       /\ job[c].at \notin Swapping \cup Told
  BY <1>1, <1>10 DEF Holding, Swapping, Told
<1>15. QED
  BY <1>1, <1>10, <1>11, <1>12, <1>13, <1>14, WriteSkips

LEMMA StateSkips ==
  ASSUME IInv, SkipInv, Later, UNCHANGED <<blocklist, customFeed, published>>,
         trouble'["change"] = trouble["change"],
         NEW c \in Callers, Only(c), job[c].at \in Told,
         \/ job'[c].at \notin Holding
         \/ /\ job'[c].at = "recording"
            /\ job'[c].source = job[c].source /\ job'[c].data = job[c].data,
         \A f \in Sources : f # job[c].source => feedState'[f] = feedState[f],
         \/ feedState'[job[c].source] \in {NoState, feedState[job[c].source]}
         \/ feedState'[job[c].source] = job[c].data /\ job'[c].at \notin Holding,
         Locked' /\ Uncut' => feedState'[job[c].source] = IF job'[c].at \in Holding THEN NoState ELSE job[c].data
  PROVE  SkipInv'
<1> DEFINE s == job[c].source
<1>1. /\ TypeOK /\ s \in Sources /\ Syncing(c) /\ job[c].at \in Holding /\ job'[c].at # "counting"
  BY AtWork DEF Aside, Unoccupied, Holding, Told, Syncing
<1>2. \A d \in Callers \ {c} : job'[d] = job[d]
  BY DEF Only
<1>3. Locked' => \A d \in Callers \ {c} : ~Syncing(d)
  BY <1>1, Alone DEF IInv, Later
<1>4. Locked' => Within(Rows(s), job[c].data)
  BY DEF SkipInv, HalfInv, HalfOf, Later
<1>5. HalfInv'
  <2>1. ASSUME Locked', NEW f \in Sources PROVE Within(LiveRows(f)', Values)
    <3>1. LiveRows(f)' = LiveRows(f)
      BY DEF LiveRows
    <3>2. QED
      BY <2>1, <3>1 DEF SkipInv, HalfInv, Later
  <2>2. ASSUME Locked', NEW d \in Callers PROVE HalfOf(d)'
    <3>1. CASE d # c
      <4>1. job'[d].at \notin {"staging"} \cup Swapping \cup Told
        BY <1>2, <1>3, <2>2, <3>1 DEF Syncing, Swapping, Told
      <4>2. QED
        BY <4>1 DEF HalfOf, At, Swapping
    <3>2. CASE d = c
      <4>1. CASE job'[c].at \notin Holding
        BY <3>2, <4>1 DEF HalfOf, At, Holding, Swapping
      <4>2. CASE job'[c].at = "recording" /\ job'[c].source = job[c].source /\ job'[c].data = job[c].data
        BY <1>4, <2>2, <3>2, <4>2 DEF HalfOf, At, Rows, Within
      <4>3. QED
        BY <4>1, <4>2
    <3>3. QED
      BY <3>1, <3>2
  <2>3. QED
    BY <2>1, <2>2 DEF HalfInv
<1>6. AbsentInv'
  BY DEF SkipInv, AbsentInv, Rows
<1>7. CompareInv'
  <2>1. ASSUME Locked', NEW d \in Callers PROVE ~At(d, "counting")'
    BY <1>1, <1>2, <1>3, <2>1 DEF At, Syncing
  <2>2. QED
    BY <2>1 DEF CompareInv
<1>8. ASSUME Locked', trouble["change"] <= 1, NEW f \in Sources PROVE ChangeOf(f)'
  <2>1. ChangeOf(f) /\ published[f] \in Contents
    BY <1>1, <1>8 DEF SkipInv, ChangeInv, Later, TypeOK
  <2>2. LiveRows(f)' = LiveRows(f)
    BY DEF LiveRows
  <2>3. ASSUME NEW d \in Callers, Read(d, f)'
        PROVE  Read(d, f) /\ job'[d].data = job[d].data /\ d = c /\ job'[c].at \in Holding
    <3>1. Read(d, f) /\ job'[d].data = job[d].data /\ job'[d].at \in Holding
      BY <1>1, <1>2, <2>3 DEF Read
    <3>2. Syncing(d)
      BY <3>1 DEF Read, Syncing, Holding, Swapping, Told
    <3>3. QED
      BY <1>3, <1>8, <3>1, <3>2
  <2>4. CASE feedState'[f] \in {NoState, feedState[f]}
    <3>1. \A lines : Stems(f, lines) => Stems(f, lines)'
      BY <2>2, <2>4 DEF Stems
    <3>2. feedState'[f] = published'[f] => Within(LiveRows(f)', published'[f])
      BY <2>1, <2>2, <2>4, FeedAssumption DEF ChangeOf
    <3>3. ASSUME NEW d \in Callers, Read(d, f)', job'[d].data # published'[f]
          PROVE  Stems(f, job[d].data)'
      BY <2>1, <2>3, <3>1, <3>3 DEF ChangeOf
    <3>4. ASSUME trouble["change"] = 0
          PROVE  Stems(f, published[f])' /\ \A d \in Callers : Read(d, f)' => job'[d].data = published[f]
      BY <2>1, <2>3, <3>1, <3>4 DEF ChangeOf
    <3>5. QED
      BY <2>3, <3>2, <3>3, <3>4 DEF ChangeOf
  <2>5. CASE f = s /\ feedState'[s] = job[c].data /\ job'[c].at \notin Holding
    <3>1. \A d \in Callers : ~Read(d, f)'
      BY <2>3, <2>5
    <3>2. Within(LiveRows(f), job[c].data) /\ Read(c, f)
      BY <1>1, <1>4, <1>8, <2>5 DEF Within, Rows, LiveRows, Read
    <3>3. trouble["change"] = 0 => job[c].data = published[f]
      BY <2>1, <3>2 DEF ChangeOf
    <3>4. QED
      BY <2>2, <2>5, <3>1, <3>2, <3>3 DEF ChangeOf, Stems
  <2>6. QED
    BY <2>4, <2>5
<1>9. ChangeInv'
  BY <1>8 DEF ChangeInv
<1>10. UncutInv'
  <2> SUFFICES ASSUME Locked', Uncut' PROVE UncutInv'
    BY DEF UncutInv
  <2>1. ASSUME NEW d \in Callers, At(d, "recording")' PROVE feedState'[job'[d].source] = NoState
    <3>1. d = c
      BY <1>2, <1>3, <2>1 DEF At, Syncing
    <3>2. QED
      BY <2>1, <3>1 DEF At, Holding, Told
  <2>2. ASSUME NEW f \in Sources, feedState'[f] # NoState
        PROVE  Within(LiveRows(f)', feedState'[f]) \/ \E d \in Callers : Swaps(d, f)'
    <3>1. LiveRows(f)' = LiveRows(f)
      BY DEF LiveRows
    <3>2. CASE f = s
      <4>1. feedState'[f] = job[c].data
        BY <2>2, <3>2
      <4>2. Within(LiveRows(f), job[c].data)
        BY <1>4, <3>2 DEF Within, Rows, LiveRows
      <4>3. QED
        BY <3>1, <4>1, <4>2
    <3>3. CASE f # s
      <4>1. feedState[f] = feedState'[f]
        BY <3>3
      <4>2. Within(LiveRows(f), feedState[f]) \/ \E d \in Callers : Swaps(d, f)
        BY <2>2, <4>1 DEF SkipInv, UncutInv, Later
      <4>3. \A d \in Callers : Swaps(d, f) => Swaps(d, f)'
        BY <1>2, <3>3 DEF Swaps
      <4>4. QED
        BY <3>1, <4>1, <4>2, <4>3
    <3>4. QED
      BY <3>2, <3>3
  <2>3. QED
    BY <2>1, <2>2 DEF UncutInv
<1>11. QED
  BY <1>5, <1>6, <1>7, <1>9, <1>10 DEF SkipInv

LEMMA ForgetStateSkips ==
  ASSUME IInv, SkipInv, NEW c \in Callers, ForgetState(c)
  PROVE  SkipInv'
<1>1. /\ job[c].at \in Told /\ UNCHANGED <<blocklist, customFeed, published>>
      /\ UNCHANGED trouble \/ Happens("fault")
  BY DEF ForgetState, At, Told, feeds
<1>2. TypeOK /\ job[c].source \in Sources
  BY <1>1, AtWork DEF Aside, Unoccupied, Told
<1>3. Later /\ trouble'["change"] = trouble["change"]
  BY <1>1, <1>2, SameLists DEF Kinds
<1>4. Moved(c, "recording", job[c].picked)
  BY <1>2, GotoMoves DEF Places, ForgetState
<1>5. /\ \A f \in Sources : f # job[c].source => feedState'[f] = feedState[f]
      /\ feedState'[job[c].source] \in {NoState, feedState[job[c].source]}
  BY <1>2 DEF TypeOK, ForgetState
<1>6. Uncut' => feedState'[job[c].source] = NoState
  BY <1>2, Faulted DEF ForgetState, TypeOK
<1>7. QED
  BY <1>1, <1>3, <1>4, <1>5, <1>6, StateSkips DEF Moved, Holding, Told

LEMMA RecordStateSkips ==
  ASSUME IInv, SkipInv, NEW c \in Callers, RecordState(c)
  PROVE  SkipInv'
<1>1. /\ job[c].at = "recording" /\ UNCHANGED <<blocklist, customFeed, published>>
      /\ UNCHANGED trouble \/ Happens("fault")
  BY DEF RecordState, At, feeds
<1>2. TypeOK /\ job[c].source \in Sources
  BY <1>1, AtWork DEF Aside, Unoccupied
<1>3. Later /\ trouble'["change"] = trouble["change"]
  BY <1>1, <1>2, SameLists DEF Kinds
<1>4. Only(c) /\ job'[c].at \notin Holding
  BY <1>2, StoredMoves DEF RecordState, Ended, Moved, Holding, Swapping, Told
<1>5. /\ \A f \in Sources : f # job[c].source => feedState'[f] = feedState[f]
      /\ feedState'[job[c].source] \in {job[c].data, feedState[job[c].source]}
  BY <1>2 DEF TypeOK, RecordState
<1>6. Locked' /\ Uncut' => feedState'[job[c].source] = job[c].data
  <2>1. Locked' /\ Uncut' => feedState[job[c].source] = NoState
    BY <1>1, <1>3 DEF SkipInv, UncutInv, Later, At
  <2>2. QED
    BY <1>2, <2>1, Faulted DEF RecordState, TypeOK
<1>7. QED
  BY <1>1, <1>3, <1>4, <1>5, <1>6, StateSkips DEF Told

\* Lists change, and no row.
LEMMA StillSkips ==
  ASSUME SkipInv, Later, UNCHANGED <<job, blocklist, feedState>>,
         \A s \in CustomFeeds : customFeed'[s] = "absent" => customFeed[s] = "absent",
         Locked' /\ trouble'["change"] <= 1 => \A s \in Sources : ChangeOf(s)'
  PROVE  SkipInv'
<1>1. HalfInv'
  BY DEF SkipInv, HalfInv, HalfOf, At, LiveRows, StagedRows, Rows, Within, Later
<1>2. AbsentInv'
  BY DEF SkipInv, AbsentInv, Rows
<1>3. ChangeInv'
  BY DEF ChangeInv
<1>4. CompareInv'
  BY DEF SkipInv, CompareInv, At, Later
<1>5. UncutInv'
  BY DEF SkipInv, UncutInv, Swaps, At, LiveRows, Within, Later
<1>6. QED
  BY <1>1, <1>2, <1>3, <1>4, <1>5 DEF SkipInv

LEMMA PublishSkips ==
  ASSUME IInv, SkipInv, NEW s \in Sources, Publish(s)
  PROVE  SkipInv'
<1>1. /\ TypeOK /\ UNCHANGED <<job, blocklist, feedState, customFeed>>
      /\ trouble'["change"] = trouble["change"] + 1 /\ trouble["change"] \in Nat
  BY DEF IInv, TypeOK, Publish, Happens, tables, feeds, Kinds
<1>2. Later
  BY <1>1, CountedTrouble DEF Publish, Kinds
<1>3. PICK content \in Contents \ {published[s]} : published' = [published EXCEPT ![s] = content]
  BY DEF Publish
<1>4. /\ published'[s] = content
      /\ \A f \in Sources : f # s => published'[f] = published[f]
  BY <1>1, <1>3 DEF TypeOK
<1>5. ASSUME Locked', trouble'["change"] <= 1, NEW f \in Sources PROVE ChangeOf(f)'
  <2>1. trouble["change"] = 0 /\ trouble'["change"] # 0
    BY <1>1, <1>5
  <2>2. ChangeOf(f)
    BY <1>2, <1>5, <2>1 DEF SkipInv, ChangeInv, Later
  <2>3. Stems(f, published[f]) /\ \A d \in Callers : Read(d, f) => job[d].data = published[f]
    BY <2>1, <2>2 DEF ChangeOf
  <2>4. (\A d \in Callers : Read(d, f)' <=> Read(d, f)) /\ LiveRows(f)' = LiveRows(f)
    BY <1>1 DEF Read, LiveRows
  <2>5. feedState'[f] = published'[f] => Within(LiveRows(f)', published'[f])
    <3>1. CASE f = s
      BY <1>1, <1>3, <1>4, <2>3, <3>1, FeedAssumption DEF Stems
    <3>2. CASE f # s
      BY <1>1, <1>4, <2>3, <2>4, <3>2 DEF Stems, TypeOK, FeedAssumption
    <3>3. QED
      BY <3>1, <3>2
  <2>6. \A d \in Callers : Read(d, f)' => Stems(f, job[d].data)'
    BY <1>1, <2>3, <2>4 DEF Stems
  <2>7. QED
    BY <2>1, <2>5, <2>6 DEF ChangeOf
<1>6. QED
  BY <1>1, <1>2, <1>5, StillSkips

LEMMA AddCustomFeedSkips ==
  ASSUME IInv, SkipInv, NEW c \in Callers, NEW s \in CustomFeeds, AddCustomFeed(c, s)
  PROVE  SkipInv'
<1>1. /\ TypeOK /\ UNCHANGED <<job, blocklist, feedState>>
      /\ customFeed[s] = "absent" /\ Happens("edit") /\ s \in Sources
  BY FeedAssumption DEF IInv, AddCustomFeed
<1>2. Later /\ trouble'["change"] = trouble["change"]
  BY <1>1, SameLists DEF Kinds
<1>3. \A f \in CustomFeeds : customFeed'[f] = "absent" => customFeed[f] = "absent"
  BY <1>1 DEF AddCustomFeed, TypeOK
<1>4. /\ published'[s] \in Contents
      /\ \A f \in Sources : f # s => published'[f] = published[f]
  BY <1>1 DEF AddCustomFeed, TypeOK
<1>5. feedState[s] = NoState /\ Rows(s) = {} /\ \A d \in Callers : ~Read(d, s)
  BY <1>1 DEF IInv, RemovalInv, RemovalOf, SkipInv, AbsentInv, Read, At, Holding, Swapping, Told
<1>6. ASSUME Locked', trouble'["change"] <= 1, NEW f \in Sources PROVE ChangeOf(f)'
  <2>1. ChangeOf(f)
    BY <1>2, <1>6 DEF SkipInv, ChangeInv, Later
  <2>2. (\A d \in Callers : Read(d, f)' <=> Read(d, f)) /\ LiveRows(f)' = LiveRows(f)
    BY <1>1 DEF Read, LiveRows
  <2>3. CASE f = s
    <3>1. LiveRows(s)' = {}
      BY <1>5, <2>2, <2>3 DEF Rows, LiveRows
    <3>2. \A lines : Stems(s, lines)'
      BY <1>1, <1>5, <3>1, NothingWithin DEF Stems
    <3>3. QED
      BY <1>1, <1>4, <1>5, <2>2, <2>3, <3>2, FeedAssumption DEF ChangeOf
  <2>4. CASE f # s
    <3>1. \A lines : Stems(f, lines) => Stems(f, lines)'
      BY <1>1, <2>2 DEF Stems
    <3>2. published'[f] = published[f]
      BY <1>4, <2>4
    <3>3. QED
      BY <1>1, <1>2, <2>1, <2>2, <3>1, <3>2 DEF ChangeOf
  <2>5. QED
    BY <2>3, <2>4
<1>7. QED
  BY <1>1, <1>2, <1>3, <1>6, StillSkips

LEMMA InitSkipInv == Init => SkipInv
<1> SUFFICES ASSUME Init PROVE SkipInv
  OBVIOUS
<1> USE DEF Init
<1>1. \A c \in Callers : job[c].at = "idle"
  BY DEF Idle
<1>2. \A s : LiveRows(s) = {} /\ Rows(s) = {}
  BY DEF LiveRows, Rows
<1>3. HalfInv
  BY <1>1, <1>2, NothingWithin DEF HalfInv, HalfOf, At, Told
<1>4. AbsentInv
  BY <1>2 DEF AbsentInv
<1>5. ChangeInv
  BY <1>1, <1>2, NothingWithin DEF ChangeInv, ChangeOf, Stems, Read, Holding, Swapping, Told
<1>6. CompareInv /\ UncutInv
  BY <1>1 DEF CompareInv, UncutInv, At
<1>7. QED
  BY <1>3, <1>4, <1>5, <1>6 DEF SkipInv

LEMMA NextSkips == IInv /\ SkipInv /\ [Next]_vars => SkipInv'
<1> SUFFICES ASSUME IInv, SkipInv, [Next]_vars PROVE SkipInv'
  OBVIOUS
<1>1. ASSUME NEW c \in Callers, Step(c) PROVE SkipInv'
  <2>1. CASE TakeLock(c) \/ Choose(c) \/ ListFeeds(c) \/ Leave(c) \/ Unlock(c)
    BY <2>1, AwaySkips
  <2>2. CASE Open(c) \/ Report(c) \/ ReportFailure(c) \/ RemoveFeed(c)
    BY <2>2, FeedsSkip
  <2>3. CASE Fetch(c) \/ Compare(c) \/ Count(c)
    BY <2>3, FetchSkips, CompareSkips, CountSkips
  <2>4. CASE PickStaged(c) \/ Stage(c) \/ PickLive(c) \/ Delete(c)
    BY <2>4, PickStagedSkips, StageSkips, PickLiveSkips, DeleteSkips
  <2>5. CASE PickPromoted(c) \/ Rename(c) \/ ForgetState(c) \/ RecordState(c)
    BY <2>5, PickPromotedSkips, RenameSkips, ForgetStateSkips, RecordStateSkips
  <2>6. QED
    BY <1>1, <2>1, <2>2, <2>3, <2>4, <2>5 DEF Step
<1>2. ASSUME NEW c \in Callers, StartAll(c) \/ Throw(c) PROVE SkipInv'
  BY <1>2, AwaySkips, FeedsSkip
<1>3. ASSUME NEW c \in Callers, NEW s \in Sources, StartOne(c, s) PROVE SkipInv'
  BY <1>3, AwaySkips
<1>4. ASSUME NEW c \in Callers, NEW s \in CustomFeeds,
             AddCustomFeed(c, s) \/ UpdateCustomFeed(c, s) \/ RemoveRows(c, s)
      PROVE  SkipInv'
  BY <1>4, AddCustomFeedSkips, EditsSkip
<1>5. ASSUME NEW p \in Processes, Restart(p) PROVE SkipInv'
  BY <1>5, RestartSkips
<1>6. ASSUME NEW s \in Sources, Publish(s) PROVE SkipInv'
  BY <1>6, PublishSkips
<1>7. CASE UNCHANGED vars
  <2>1. UNCHANGED <<job, blocklist, feedState, published, customFeed, trouble>>
    BY <1>7 DEF vars
  <2>2. Later
    BY <2>1, NoTrouble DEF IInv
  <2>3. Locked' /\ trouble'["change"] <= 1 => \A s \in Sources : ChangeOf(s)'
    BY <2>1 DEF SkipInv, ChangeInv, ChangeOf, Read, Stems, LiveRows, Within, Locked
  <2>4. QED
    BY <2>1, <2>2, <2>3, StillSkips
<1>8. QED
  BY <1>1, <1>2, <1>3, <1>4, <1>5, <1>6, <1>7 DEF Next

-----------------------------------------------------------------------------
(* What is stored under a staging key is somebody's work, unless a sync    *)
(* was cut short.                                                          *)
StagePlaces == {"staging"} \cup Swapping

Stages(c, s) == job[c].source = s /\ job[c].at \in StagePlaces

StagingInv ==
    Locked /\ Uncut => \A s \in Sources : StagedRows(s) # {} => \E c \in Callers : Stages(c, s)

LEMMA StagingKept ==
  ASSUME StagingInv, Later,
         \A s \in Sources : StagedRows(s) = {} => StagedRows(s)' = {} \/ \E c \in Callers : Stages(c, s)',
         \A s \in Sources, c \in Callers : Uncut' /\ Stages(c, s) => Stages(c, s)' \/ StagedRows(s)' = {}
  PROVE  StagingInv'
BY DEF StagingInv, Later

\* A caller that stores nothing at the moment goes on, or one that does goes on doing so.
LEMMA OthersStage ==
  ASSUME StagingInv, Later, blocklist' \subseteq blocklist,
         NEW c \in Callers, \A d \in Callers \ {c} : job'[d] = job[d],
         Uncut' => \A s \in Sources : Stages(c, s) => Stages(c, s)' \/ StagedRows(s)' = {}
  PROVE  StagingInv'
<1>1. \A s \in Sources : StagedRows(s)' \subseteq StagedRows(s)
  BY DEF StagedRows
<1>2. ASSUME NEW s \in Sources, NEW d \in Callers, Uncut', Stages(d, s)
      PROVE  Stages(d, s)' \/ StagedRows(s)' = {}
  BY <1>2 DEF Stages
<1>3. QED
  BY <1>1, <1>2, StagingKept

LEMMA AwayStages ==
  ASSUME IInv, StagingInv, NEW c \in Callers,
         \/ StartAll(c) \/ TakeLock(c) \/ Choose(c) \/ ListFeeds(c) \/ Leave(c) \/ Unlock(c)
         \/ \E s \in Sources : StartOne(c, s)
  PROVE  StagingInv'
<1>1. TypeOK /\ job \in [Callers -> Job] /\ Kinds = {"change", "unguarded", "fault", "restart", "edit"}
  BY DEF IInv, TypeOK, Kinds
<1>2. UNCHANGED blocklist /\ (UNCHANGED trouble \/ \E kind \in Kinds : Happens(kind))
  BY <1>1 DEF StartAll, TakeLock, Choose, ListFeeds, Leave, Unlock, StartOne, tables, world
<1>3. job[c].at \notin StagePlaces
  BY DEF StartAll, TakeLock, Choose, ListFeeds, Leave, Unlock, StartOne, At, StagePlaces, Swapping
<1>4. \A d \in Callers \ {c} : job'[d] = job[d]
  BY <1>1 DEF StartAll, TakeLock, Choose, ListFeeds, Leave, Unlock, StartOne, Begin, Refused, Goto
<1>5. QED
  BY <1>1, <1>2, <1>3, <1>4, TroubleStep, OthersStage DEF Stages

LEMMA FeedsStage ==
  ASSUME IInv, StagingInv, NEW c \in Callers,
         Open(c) \/ Report(c) \/ ReportFailure(c) \/ RemoveFeed(c)
  PROVE  StagingInv'
<1>1. TypeOK /\ job \in [Callers -> Job] /\ Kinds = {"change", "unguarded", "fault", "restart", "edit"}
  BY DEF IInv, TypeOK, Kinds
<1>2. UNCHANGED blocklist /\ (UNCHANGED trouble \/ \E kind \in Kinds : Happens(kind))
  BY <1>1 DEF Open, Report, ReportFailure, RemoveFeed, tables, feeds, world
<1>3. job[c].at \notin StagePlaces
  BY DEF Open, Report, ReportFailure, RemoveFeed, At, StagePlaces, Swapping
<1>4. \A d \in Callers \ {c} : job'[d] = job[d]
  BY <1>1 DEF Open, Report, ReportFailure, RemoveFeed, Goto, Done, Escape
<1>5. QED
  BY <1>1, <1>2, <1>3, <1>4, TroubleStep, OthersStage DEF Stages

LEMMA ReadsStage ==
  ASSUME IInv, StagingInv, NEW c \in Callers,
         Fetch(c) \/ Compare(c) \/ Count(c) \/ ForgetState(c) \/ RecordState(c)
  PROVE  StagingInv'
<1>1. TypeOK /\ job \in [Callers -> Job] /\ Kinds = {"change", "unguarded", "fault", "restart", "edit"}
  BY DEF IInv, TypeOK, Kinds
<1>2. UNCHANGED blocklist /\ (UNCHANGED trouble \/ \E kind \in Kinds : Happens(kind))
  BY <1>1 DEF Fetch, Compare, Count, ForgetState, RecordState, tables, feeds, world
<1>3. job[c].at \notin StagePlaces
  BY DEF Fetch, Compare, Count, ForgetState, RecordState, At, StagePlaces, Swapping
<1>4. \A d \in Callers \ {c} : job'[d] = job[d]
  BY <1>1 DEF Fetch, Compare, Count, ForgetState, RecordState, Stored, Goto, Done
<1>5. QED
  BY <1>1, <1>2, <1>3, <1>4, TroubleStep, OthersStage DEF Stages

LEMMA EditsStage ==
  ASSUME IInv, StagingInv, NEW c \in Callers, NEW s \in CustomFeeds,
         AddCustomFeed(c, s) \/ UpdateCustomFeed(c, s) \/ RemoveRows(c, s)
  PROVE  StagingInv'
<1>1. TypeOK /\ job \in [Callers -> Job] /\ "edit" \in Kinds
  BY DEF IInv, TypeOK, Kinds
<1>2. blocklist' \subseteq blocklist /\ Happens("edit") /\ job[c].at = "idle"
      /\ \A d \in Callers \ {c} : job'[d] = job[d]
  BY <1>1 DEF AddCustomFeed, UpdateCustomFeed, RemoveRows, At
<1>3. QED
  BY <1>1, <1>2, TroubleStep, OthersStage DEF Stages, StagePlaces, Swapping

\* Somebody with rows under the staging key goes from place to place.
LEMMA MovedStages ==
  ASSUME IInv, StagingInv, NEW c \in Callers, UNCHANGED trouble, blocklist' \subseteq blocklist,
         NEW place, NEW ids, Moved(c, place, ids),
         job[c].at \in StagePlaces => place \in StagePlaces \/ StagedRows(job[c].source)' = {}
  PROVE  StagingInv'
<1>1. TypeOK
  BY DEF IInv
<1>2. ASSUME NEW s \in Sources, Stages(c, s)
      PROVE  Stages(c, s)' \/ StagedRows(s)' = {}
  BY <1>2 DEF Stages, Moved
<1>3. QED
  BY <1>1, <1>2, NoTrouble, OthersStage DEF Moved, Only

LEMMA PickStagedStages ==
  ASSUME IInv, StagingInv, NEW c \in Callers, PickStaged(c)
  PROVE  StagingInv'
<1>1. TypeOK /\ job \in [Callers -> Job] /\ UNCHANGED <<blocklist, trouble>>
      /\ job[c].at \notin StagePlaces
  BY DEF IInv, TypeOK, PickStaged, tables, world, At, StagePlaces, Swapping
<1>2. \A d \in Callers \ {c} : job'[d] = job[d]
  BY <1>1 DEF PickStaged, GotoWith
<1>3. QED
  BY <1>1, <1>2, NoTrouble, OthersStage DEF Stages

LEMMA PickLiveStages ==
  ASSUME IInv, StagingInv, NEW c \in Callers, PickLive(c)
  PROVE  StagingInv'
<1>1. TypeOK /\ UNCHANGED <<blocklist, trouble>>
  BY DEF IInv, PickLive, tables, world
<1>2. CASE GotoWith(c, "promoting", {})
  <2>1. Moved(c, "promoting", {})
    BY <1>1, <1>2, GotoWithMoves DEF Places
  <2>2. QED
    BY <1>1, <2>1, MovedStages DEF StagePlaces, Swapping
<1>3. CASE GotoWith(c, "deletingLive", Chunk(KeyIds(job[c].source, FALSE)))
  <2> DEFINE ids == Chunk(KeyIds(job[c].source, FALSE))
  <2>1. Moved(c, "deletingLive", ids)
    BY <1>1, <1>3, LiveChunk, GotoWithMoves DEF Places
  <2> HIDE DEF ids
  <2>2. QED
    BY <1>1, <2>1, MovedStages DEF StagePlaces, Swapping
<1>4. QED
  BY <1>2, <1>3 DEF PickLive

LEMMA PickPromotedStages ==
  ASSUME IInv, StagingInv, NEW c \in Callers, PickPromoted(c)
  PROVE  StagingInv'
<1>1. TypeOK /\ UNCHANGED <<blocklist, trouble>>
  BY DEF IInv, PickPromoted, tables, world
<1>2. CASE KeyIds(job[c].source, TRUE) = {} /\ GotoWith(c, "forgetting", {})
  <2>1. Moved(c, "forgetting", {})
    BY <1>1, <1>2, GotoWithMoves DEF Places
  <2>2. {r \in blocklist : r.source = job[c].source /\ r.staged} = {}
    BY <1>1, <1>2, NoneOfKey, ZenonT(60)
  <2>3. {r \in blocklist' : r.source = job[c].source /\ r.staged} = {}
    BY <1>1, <2>2
  <2>4. \A s : s = job[c].source => StagedRows(s)' = {}
    BY <2>3 DEF StagedRows
  <2>5. ASSUME NEW s \in Sources, Stages(c, s) PROVE StagedRows(s)' = {}
    BY <2>4, <2>5 DEF Stages
  <2>6. QED
    BY <1>1, <2>1, <2>5, NoTrouble, OthersStage DEF Moved, Only
<1>3. CASE GotoWith(c, "renaming", Chunk(KeyIds(job[c].source, TRUE)))
  <2> DEFINE ids == Chunk(KeyIds(job[c].source, TRUE))
  <2>1. Moved(c, "renaming", ids)
    BY <1>1, <1>3, StagedChunk, GotoWithMoves DEF Places
  <2> HIDE DEF ids
  <2>2. QED
    BY <1>1, <2>1, MovedStages DEF StagePlaces, Swapping
<1>4. QED
  BY <1>2, <1>3 DEF PickPromoted

LEMMA DeleteStages ==
  ASSUME IInv, StagingInv, NEW c \in Callers, Delete(c)
  PROVE  StagingInv'
<1> DEFINE place == IF At(c, "deletingStaged") THEN "unstaging" ELSE "retiring"
<1>1. /\ TypeOK /\ UNCHANGED trouble
      /\ blocklist' \subseteq blocklist
      /\ job[c].at \in {"deletingStaged", "deletingLive"}
  BY DEF IInv, Delete, world
<1>2. Moved(c, place, {})
  BY <1>1, GotoWithMoves DEF Places, Delete
<1>3. job[c].at \in StagePlaces => place \in StagePlaces
  BY DEF StagePlaces, Swapping, At
<1> HIDE DEF place
<1>4. QED
  BY <1>1, <1>2, <1>3, MovedStages

LEMMA RenameStages ==
  ASSUME IInv, StagingInv, NEW c \in Callers, Rename(c)
  PROVE  StagingInv'
<1>1. TypeOK /\ UNCHANGED trouble
  BY DEF IInv, Rename, world
<1>2. Moved(c, "promoting", {})
  BY <1>1, GotoWithMoves DEF Places, Rename
<1>3. \A r \in blocklist : Promoted(c, r).staged =>
         r.staged /\ Promoted(c, r).source = r.source
  BY <1>1 DEF TypeOK, Row, Promoted
<1>4. \A q \in blocklist' : \E r \in blocklist : q = Promoted(c, r)
  BY DEF Promoted, Rename
<1>5. ASSUME NEW s \in Sources, StagedRows(s) = {}
      PROVE  StagedRows(s)' = {}
  <2>1. ASSUME NEW q \in blocklist', q.source = s, q.staged PROVE FALSE
    BY <1>3, <1>4, <1>5, <2>1 DEF StagedRows
  <2>2. QED
    BY <2>1 DEF StagedRows
<1>6. ASSUME NEW s \in Sources, NEW d \in Callers, Stages(d, s)
      PROVE  Stages(d, s)'
  BY <1>2, <1>6 DEF Moved, Only, Stages, StagePlaces, Swapping
<1>7. QED
  BY <1>1, <1>5, <1>6, NoTrouble, StagingKept

LEMMA StageStages ==
  ASSUME IInv, StagingInv, NEW c \in Callers, Stage(c)
  PROVE  StagingInv'
<1> DEFINE s == job[c].source
           n == Cardinality(IdsInUse)
<1>1. TypeOK /\ UNCHANGED trouble /\ job[c].at = "staging"
  BY DEF IInv, Stage, At, world
<1>2. PICK batch \in Batches(job[c].left) :
         LET fresh == (n + 1)..(n + Cardinality(batch))
             id    == CHOOSE f \in Injection(batch, fresh) : TRUE IN
         /\ blocklist' = {[r EXCEPT !.id = Renumbered(@)] : r \in blocklist} \cup
               {[id |-> id[v], source |-> s, staged |-> TRUE, value |-> v] : v \in batch}
         /\ job' = [d \in Callers |->
               [job[d] EXCEPT !.picked = {Renumbered(i) : i \in @},
                              !.left = IF d = c THEN @ \ batch ELSE @]]
  BY DEF Stage
<1> DEFINE id == CHOOSE f \in Injection(batch, (n + 1)..(n + Cardinality(batch))) : TRUE
<1>3. blocklist' = {Anew(r) : r \in blocklist} \cup {NewRow(c, id[v], v) : v \in batch}
  BY <1>2 DEF Anew, NewRow
<1>4. job' = [d \in Callers |->
                [job[d] EXCEPT !.picked = {Renumbered(i) : i \in @},
                               !.left = IF d = c THEN @ \ batch ELSE @]]
  BY <1>2
<1> HIDE DEF id, n
<1>5. \A q \in blocklist' : \/ \E r \in blocklist : q = Anew(r)
                            \/ \E v \in batch : q = NewRow(c, id[v], v)
  BY <1>3
<1>6. ASSUME NEW r \in blocklist PROVE Anew(r).source = r.source /\ Anew(r).staged = r.staged
  <2>1. r \in Row
    BY <1>1 DEF TypeOK
  <2> DEFINE i == Renumbered(r.id)
  <2>2. Anew(r) = [r EXCEPT !.id = i]
    BY DEF Anew
  <2> HIDE DEF i
  <2>3. QED
    BY <2>1, <2>2 DEF Row
<1>7. \A v \in batch : NewRow(c, id[v], v).source = s
  BY DEF NewRow
<1>8. ASSUME NEW d \in Callers PROVE job'[d].at = job[d].at /\ job'[d].source = job[d].source
  <2>1. job[d] \in Job
    BY <1>1, JobTyped
  <2> DEFINE ids == {Renumbered(i) : i \in job[d].picked}
  <2>2. job'[d] = [job[d] EXCEPT !.picked = ids,
                                 !.left = IF d = c THEN job[d].left \ batch ELSE job[d].left]
    BY <1>4
  <2> HIDE DEF ids
  <2>3. QED
    BY <2>1, <2>2 DEF Job
<1>9. ASSUME NEW f \in Sources, StagedRows(f) = {}, f # s
      PROVE  StagedRows(f)' = {}
  <2>1. ASSUME NEW q \in blocklist', q.source = f, q.staged PROVE FALSE
    BY <1>5, <1>6, <1>7, <1>9, <2>1 DEF StagedRows
  <2>2. QED
    BY <2>1 DEF StagedRows
<1>10. ASSUME NEW f \in Sources, NEW d \in Callers, Stages(d, f)
       PROVE  Stages(d, f)'
  BY <1>8, <1>10 DEF Stages
<1>11. Stages(c, s)
  BY <1>1 DEF Stages, StagePlaces
<1>12. ASSUME NEW f \in Sources, StagedRows(f) = {}
       PROVE  StagedRows(f)' = {} \/ \E d \in Callers : Stages(d, f)'
  BY <1>9, <1>10, <1>11, <1>12
<1>13. QED
  BY <1>1, <1>10, <1>12, NoTrouble, StagingKept

LEMMA CutStages ==
  ASSUME StagingInv, ~Uncut'
  PROVE  StagingInv'
BY DEF StagingInv

LEMMA StagingStep == IInv /\ StagingInv /\ [Next]_vars => StagingInv'
<1> SUFFICES ASSUME IInv, StagingInv, [Next]_vars PROVE StagingInv'
  OBVIOUS
<1>1. ASSUME NEW c \in Callers, Step(c) PROVE StagingInv'
  <2>1. CASE TakeLock(c) \/ Choose(c) \/ ListFeeds(c) \/ Leave(c) \/ Unlock(c)
    BY <2>1, AwayStages
  <2>2. CASE Open(c) \/ Report(c) \/ ReportFailure(c) \/ RemoveFeed(c)
    BY <2>2, FeedsStage
  <2>3. CASE Fetch(c) \/ Compare(c) \/ Count(c) \/ ForgetState(c) \/ RecordState(c)
    BY <2>3, ReadsStage
  <2>4. CASE PickStaged(c) \/ Stage(c) \/ PickLive(c) \/ Delete(c) \/ PickPromoted(c) \/ Rename(c)
    BY <2>4, PickStagedStages, StageStages, PickLiveStages, DeleteStages, PickPromotedStages,
       RenameStages
  <2>5. QED
    BY <1>1, <2>1, <2>2, <2>3, <2>4 DEF Step
<1>2. ASSUME NEW c \in Callers, StartAll(c) PROVE StagingInv'
  BY <1>2, AwayStages
<1>3. ASSUME NEW c \in Callers, Throw(c) PROVE StagingInv'
  BY <1>3, Faulted, CutStages DEF IInv, Throw
<1>4. ASSUME NEW c \in Callers, NEW s \in Sources, StartOne(c, s) PROVE StagingInv'
  BY <1>4, AwayStages
<1>5. ASSUME NEW c \in Callers, NEW s \in CustomFeeds,
             AddCustomFeed(c, s) \/ UpdateCustomFeed(c, s) \/ RemoveRows(c, s)
      PROVE  StagingInv'
  BY <1>5, EditsStage
<1>6. ASSUME NEW p \in Processes, Restart(p) PROVE StagingInv'
  <2>1. ~Uncut'
    BY <1>6, CountedTrouble DEF IInv, Restart, Uncut, Kinds
  <2>2. QED
    BY <2>1, CutStages
<1>7. ASSUME NEW s \in Sources, Publish(s) PROVE StagingInv'
  <2>1. TypeOK /\ Happens("change") /\ "change" \in Kinds /\ UNCHANGED <<blocklist, job>>
    BY <1>7 DEF IInv, Publish, Kinds, tables
  <2>2. Later
    BY <2>1, CountedTrouble
  <2>3. QED
    BY <2>1, <2>2 DEF StagingInv, StagedRows, Stages, Later
<1>8. CASE UNCHANGED vars
  BY <1>8 DEF vars, StagingInv, StagedRows, Stages, Locked, Uncut
<1>9. QED
  BY <1>1, <1>2, <1>3, <1>4, <1>5, <1>6, <1>7, <1>8 DEF Next

LEMMA StagedByWork == Spec => []StagingInv
<1>1. Init => StagingInv
  BY DEF Init, StagingInv, StagedRows
<1>2. QED
  BY <1>1, StagingStep, Invariance, PTL DEF Spec

-----------------------------------------------------------------------------
(* What follows from it.                                                   *)

(* Every table, flag and local variable keeps its type, and no two rows    *)
(* share an id.                                                            *)
THEOREM TypeCorrect == Spec => []TypeOK
<1>1. IInv => TypeOK
  BY DEF IInv
<1>2. QED
  BY <1>1, Invariance, PTL

(* Of the syncs that take flag and lock one is at work at a time.          *)
THEOREM MutualExclusion == Spec => []OneSyncAtATime
<1>1. IInv => OneSyncAtATime
  BY Alone DEF IInv, OneSyncAtATime
<1>2. QED
  BY <1>1, Invariance, PTL

(* Neither the flag nor the lock outlives the sync that took it.           *)
THEOREM GuardsAreLetGo == Spec => []NoGuardLeftBehind
<1>1. IInv => NoGuardLeftBehind
  <2> SUFFICES ASSUME IInv, lockHolder # NoCaller
               PROVE  job[lockHolder].at \notin {"idle", "locking"}
    BY DEF NoGuardLeftBehind, IInv, GuardInv
  <2>1. PICK c \in Callers : c = lockHolder
    BY DEF IInv, TypeOK
  <2>2. (job[c].all /\ ~At(c, "locking")) \/ At(c, "unlocking")
    BY <2>1 DEF IInv, GuardInv, Holds
  <2>3. WellFormed(job[c])
    BY DEF IInv, JobInv
  <2>4. QED
    BY <2>1, <2>2, <2>3 DEF At, WellFormed
<1>2. QED
  BY <1>1, Invariance, PTL

(* As many rows as values, if no value has two rows.                       *)
LEMMA OneRowEach ==
  ASSUME NEW s, IsFiniteSet(Live(s)),
         \A r, q \in LiveRows(s) : r.value = q.value => r = q
  PROVE  Cardinality(LiveRows(s)) = Cardinality(Live(s))
<1> DEFINE rowOf == [v \in Live(s) |-> CHOOSE r \in LiveRows(s) : r.value = v]
<1>1. \A v \in Live(s) : rowOf[v] \in LiveRows(s) /\ rowOf[v].value = v
  BY DEF Live
<1>2. \A r \in LiveRows(s) : r.value \in Live(s) /\ rowOf[r.value] = r
  BY <1>1 DEF Live
<1>3. rowOf \in [Live(s) -> LiveRows(s)]
  BY <1>1
<1> HIDE DEF rowOf
<1>4. rowOf \in Injection(Live(s), LiveRows(s))
  BY <1>1, <1>3 DEF Injection, IsInjective
<1>5. rowOf \in Surjection(Live(s), LiveRows(s))
  BY <1>2, <1>3 DEF Surjection
<1>6. ExistsBijection(Live(s), LiveRows(s))
  BY <1>4, <1>5 DEF ExistsBijection, Bijection
<1>7. QED
  BY <1>6, FS_Bijection

(* A sync that comes to record the hash has put exactly the lines in place *)
(* of the source's rows.                                                   *)
THEOREM SwapsAreExact == Spec => []SwapExact
<1>1. IInv => SwapExact
  <2> SUFFICES ASSUME IInv, Locked, NEW c \in Callers,
                      job[c].at \in {"forgetting", "recording"}, job[c].source \notin tangled
               PROVE  /\ Live(job[c].source) = job[c].data
                      /\ Cardinality(LiveRows(job[c].source)) = Cardinality(Live(job[c].source))
                      /\ KeyIds(job[c].source, TRUE) = {}
    BY DEF SwapExact
  <2> DEFINE s == job[c].source
  <2>1. TypeOK /\ job[c].data \in Contents
    BY AtWork DEF Aside, Unoccupied, Holding, Told
  <2>2. Exactly(Rows(s), job[c].data) /\ StagedRows(s) = {}
    BY DEF IInv, SwapInv, SwapOf, Told
  <2>3. LiveRows(s) = Rows(s)
    BY <2>2 DEF LiveRows, Rows, StagedRows
  <2>4. Live(s) = job[c].data
    BY <2>2, <2>3 DEF Exactly, Live
  <2>5. IsFiniteSet(Live(s))
    BY <2>1, <2>4, FS_Subset, FeedAssumption
  <2>6. Cardinality(LiveRows(s)) = Cardinality(Live(s))
    BY <2>2, <2>3, <2>5, OneRowEach DEF Exactly
  <2>7. KeyIds(s, TRUE) = {}
    BY <2>2 DEF KeyIds, StagedRows
  <2>8. QED
    BY <2>4, <2>6, <2>7
<1>2. QED
  BY <1>1, Invariance, PTL

(* As long as no sync is cut short, an entry that never leaves the list is *)
(* found at any moment of any sync.                                        *)
THEOREM NeverMissing == Spec => []NeverAbsentUncut
<1>1. IInv => NeverAbsentUncut
  <2> SUFFICES ASSUME IInv, Locked, Uncut, NEW s \in Sources, feedState[s] # NoState, Kept(s)
               PROVE  Always \subseteq Listed(s)
    BY DEF NeverAbsentUncut, NeverAbsent, Always
  <2>1. CASE Always \subseteq Live(s)
    BY <2>1 DEF Live, LiveRows, Listed
  <2>2. ASSUME NEW c \in Callers, Swaps(c, s) PROVE Always \subseteq Listed(s)
    <3>1. job[c].data \in Contents
      BY <2>2, AtWork DEF Swaps, Aside, Unoccupied, Holding, Swapping, Told
    <3>2. s \notin tangled
      BY DEF IInv, RemovalInv, RemovalOf, TypeOK
    <3>3. SwapOf(c) /\ job[c].source = s
      BY <2>2, <3>2 DEF IInv, SwapInv, Swaps
    <3>4. Exactly(StagedRows(s), job[c].data) \/ Exactly(Rows(s), job[c].data)
      BY <2>2, <3>3 DEF Swaps, Swapping, Told, SwapOf, At
    <3>5. job[c].data \subseteq Listed(s)
      BY <3>4 DEF Exactly, StagedRows, Rows, Listed
    <3>6. Always \subseteq job[c].data
      BY <3>1 DEF Always
    <3>7. QED
      BY <3>5, <3>6
  <2>3. QED
    BY <2>1, <2>2 DEF IInv, CoreInv
<1>2. QED
  BY <1>1, Invariance, PTL

(* A custom feed that is gone has no live rows, and if no sync was ever    *)
(* cut short none that the scoring finds.                                  *)
THEOREM RemovedFeedsLeave == Spec => []RemovedFeedLeaves
<1>1. IInv /\ StagingInv => RemovedFeedLeaves
  <2> SUFFICES ASSUME IInv, StagingInv,
                      NEW s \in CustomFeeds, customFeed[s] = "removed", s \notin tangled
               PROVE  LiveRows(s) = {} /\ (Locked /\ Uncut => Listed(s) = {})
    BY DEF RemovedFeedLeaves
  <2>1. /\ LiveRows(s) = {}
        /\ \A c \in Callers : job[c].source = s => job[c].at \in {"opening", "removing"}
    BY DEF IInv, RemovalInv, RemovalOf
  <2>2. ASSUME Locked, Uncut PROVE Listed(s) = {}
    <3>1. \A c \in Callers : ~Stages(c, s)
      BY <2>1 DEF Stages, StagePlaces, Swapping
    <3>2. StagedRows(s) = {}
      BY <2>2, <3>1, FeedAssumption DEF StagingInv
    <3>3. QED
      BY <2>1, <3>2 DEF Listed, LiveRows, StagedRows
  <2>3. QED
    BY <2>1, <2>2
<1>2. QED
  BY <1>1, Invariance, StagedByWork, PTL

(* A sync that finds the hash it expects and as many rows as lines, and    *)
(* skips the list, has the very lines before it: of a list that was        *)
(* changed once at most, whatever fails or restarts, and of any list if    *)
(* nothing did.                                                            *)
THEOREM SkipsAreRight == Spec => []SkipIsRightLocked
<1>1. Init => SkipInv
  BY InitSkipInv
<1>2. IInv /\ SkipInv /\ [Next]_vars => SkipInv'
  BY NextSkips
<1>3. IInv /\ SkipInv => SkipIsRightLocked
  <2> SUFFICES ASSUME IInv, SkipInv, Locked, Uncut \/ trouble["change"] <= 1,
                      NEW c \in Callers, At(c, "counting"),
                      Cardinality(LiveRows(job[c].source)) = Cardinality(job[c].data)
               PROVE  Live(job[c].source) = job[c].data
    BY DEF SkipIsRightLocked, SkipIsRight
  <2> DEFINE s == job[c].source
  <2>1. TypeOK /\ s \in Sources /\ job[c].data \in Contents /\ job[c].at \in Holding
    BY AtWork DEF At, Aside, Unoccupied, Holding
  <2>2. feedState[s] = job[c].data /\ feedState[s] # NoState
    BY <2>1, FeedAssumption DEF SkipInv, CompareInv
  <2>3. Within(LiveRows(s), job[c].data)
    <3>1. CASE Uncut
      <4>1. ASSUME NEW d \in Callers, Swaps(d, s) PROVE FALSE
        <5>1. Syncing(c) /\ Syncing(d)
          BY <4>1 DEF Swaps, At, Syncing, Swapping, Told
        <5>2. d = c
          BY <5>1, Alone DEF IInv
        <5>3. QED
          BY <4>1, <5>2 DEF Swaps, At, Swapping, Told
      <4>2. QED
        BY <2>1, <2>2, <3>1, <4>1 DEF SkipInv, UncutInv
    <3>2. CASE trouble["change"] <= 1
      <4>1. ChangeOf(s) /\ Read(c, s)
        BY <2>1, <3>2 DEF SkipInv, ChangeInv, Read
      <4>2. QED
        BY <2>2, <4>1 DEF ChangeOf, Stems
    <3>3. QED
      BY <3>1, <3>2
  <2>4. /\ Live(s) \subseteq job[c].data
        /\ \A r, q \in LiveRows(s) : r.value = q.value => r = q
    BY <2>3 DEF Within, Live
  <2>5. IsFiniteSet(job[c].data)
    BY <2>1, FS_Subset, FeedAssumption
  <2>6. IsFiniteSet(Live(s))
    BY <2>4, <2>5, FS_Subset
  <2>7. Cardinality(Live(s)) = Cardinality(job[c].data)
    BY <2>4, <2>6, OneRowEach
  <2>8. QED
    BY <2>4, <2>5, <2>7, FS_Subset
<1>4. QED
  BY <1>1, <1>2, <1>3, Invariance, PTL DEF Spec

=============================================================================
