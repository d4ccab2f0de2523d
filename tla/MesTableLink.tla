----------------------------- MODULE MesTableLink -----------------------------
(***************************************************************************)
(* The link to the MES through the interface table mode (MES_MODE=table).  *)
(* AIVIS writes one row of mes_quality_if per inspection row, the MES      *)
(* polls the rows that are not consumed, loads them into its own database, *)
(* and marks those consumed that have not changed since it read them.  A   *)
(* person may review an inspection at any time: the verdict of the staged  *)
(* row is then changed and the row offered again.                          *)
(*                                                                         *)
(* Actors: the API's handlers (services/api/core/inspection_service.py,    *)
(* routers/inspection.py), the watchdog that stages what was stored        *)
(* without a staged row (services/api/mes/adapter.py), the MES's poller    *)
(* (services/mes/mes_app/intake.py).  Each reads rows in one statement and *)
(* writes them in a later one, under READ COMMITTED; SQLAlchemy writes the *)
(* columns whose value differs from the one that was read.                 *)
(*                                                                         *)
(* Time stamps (updated_at) are the order numbers of the reviews, 0 is     *)
(* NULL.  A poll reads every row that waits: fewer than its limit of 500.  *)
(***************************************************************************)
EXTENDS Naturals, FiniteSets

CONSTANTS
    Results,      \* rows of the table inspection
    Reviewers,    \* PATCH /inspection/{id}/review requests at a time
    Verdicts,     \* OK, NG
    None,         \* no manual verdict
    MaxReviews    \* bound on the reviews made

ASSUME NoneAssumption == None \notin Verdicts
ASSUME ReviewsAssumption == MaxReviews \in Nat

VARIABLES
    stored,     \* results with a row in inspection
    manual,     \* inspection.manual_verdict
    synced,     \* inspection.mes_synced
    staged,     \* results with a row in mes_quality_if
    verdict,    \* mes_quality_if.manual_verdict
    updated,    \* mes_quality_if.updated_at
    consumed,   \* mes_quality_if.consumed
    review,     \* what each review has read so far
    watch,      \* what the watchdog has read of the row it works on
    poll,       \* what the MES's poller has read
    mes,        \* the manual verdict in the MES's own quality record
    clock,      \* the last time stamp
    raced       \* history: rows changed by one actor under the eyes of another

aivisVars == <<stored, manual, synced, staged, verdict, updated, consumed>>
mesVars == <<poll, mes>>
vars == <<aivisVars, review, watch, mesVars, clock, raced>>

Manual == Verdicts \cup {None}

\* "row": how restage_after_review found the staged row.  "keep" - none, or
\* with the new verdict already; "waiting", "taken" - not yet, already consumed.
Idle == [step |-> "idle"]
Reviews ==
    {Idle}
    \cup [step : {"read"}, of : Results, new : Verdicts, old : Manual]
    \cup [step : {"write"}, of : Results, new : Verdicts, old : Manual,
          row : {"keep", "waiting", "taken"}, stamp : 0 .. MaxReviews]

NotWatching == [busy |-> FALSE]
Watches == {NotWatching} \cup [busy : {TRUE}, of : Results, old : Manual]

\* "seen": the results whose staged rows the poll has read, with their values.
Polls == [stage : {"idle", "load", "mark"}, seen : SUBSET Results,
          verdict : [Results -> Manual], updated : [Results -> 0 .. MaxReviews]]

TypeOK ==
    /\ stored \in SUBSET Results
    /\ manual \in [Results -> Manual]
    /\ staged \in SUBSET stored
    /\ synced \in SUBSET staged
    /\ verdict \in [Results -> Manual]
    /\ updated \in [Results -> 0 .. MaxReviews]
    /\ consumed \in SUBSET staged
    /\ review \in [Reviewers -> Reviews]
    /\ watch \in Watches
    /\ watch.busy => watch.of \in stored
    /\ poll \in Polls
    /\ mes \in [Results -> Manual]
    /\ clock \in 0 .. MaxReviews
    /\ raced \in SUBSET Results

Init ==
    /\ stored = {} /\ synced = {} /\ staged = {} /\ consumed = {}
    /\ manual = [k \in Results |-> None]
    /\ verdict = [k \in Results |-> None]
    /\ updated = [k \in Results |-> 0]
    /\ review = [p \in Reviewers |-> Idle]
    /\ watch = NotWatching
    /\ poll = [stage |-> "idle", seen |-> {}, verdict |-> verdict, updated |-> updated]
    /\ mes = [k \in Results |-> None]
    /\ clock = 0
    /\ raced = {}

-----------------------------------------------------------------------------
(* Who has read row k and not written yet *)

Reviewing(p, k) == review[p].step # "idle" /\ review[p].of = k

Writing(p, k) == review[p].step = "write" /\ review[p].of = k

Watching(k) == watch.busy /\ watch.of = k

-----------------------------------------------------------------------------
(* The API *)

\* POST /inspection: the staged row belongs to the transaction of the row.
StoreStaged(k) ==
    /\ k \notin stored
    /\ stored' = stored \cup {k}
    /\ staged' = staged \cup {k}
    /\ synced' = synced \cup {k}
    /\ UNCHANGED <<manual, verdict, updated, consumed, review, watch, mesVars, clock, raced>>

\* Faulty variant: a row without a staged row is marked as handed over.
StoreOnlySynced(k) ==
    /\ k \notin stored
    /\ stored' = stored \cup {k}
    /\ synced' = synced \cup {k}
    /\ UNCHANGED <<manual, staged, verdict, updated, consumed, review, watch,
                   mesVars, clock, raced>>

\* A row stored while the link was configured otherwise has no staged row.
StoreOnly(k) ==
    /\ k \notin stored
    /\ stored' = stored \cup {k}
    /\ UNCHANGED <<manual, synced, staged, verdict, updated, consumed, review, watch,
                   mesVars, clock, raced>>

\* review_inspection reads the inspection row ...
ReadResult(p, k, v) ==
    /\ review[p].step = "idle"
    /\ k \in stored
    /\ clock + Cardinality({q \in Reviewers : review[q].step = "read"}) < MaxReviews
    /\ review' = [review EXCEPT ![p] = [step |-> "read", of |-> k, new |-> v, old |-> manual[k]]]
    /\ UNCHANGED <<aivisVars, watch, mesVars, clock, raced>>

\* ... and restage_after_review the staged one; the changes are flushed later.
ReadStaged(p) ==
    /\ review[p].step = "read"
    /\ clock < MaxReviews
    /\ clock' = clock + 1
    /\ review' = [review EXCEPT ![p] =
           [step |-> "write", of |-> @.of, new |-> @.new, old |-> @.old, stamp |-> clock',
            row |-> IF @.of \notin staged \/ verdict[@.of] = @.new THEN "keep"
                    ELSE IF @.of \in consumed THEN "taken" ELSE "waiting"]]
    /\ UNCHANGED <<aivisVars, watch, mesVars, raced>>

\* The rest of a review's row is done by somebody else meanwhile.
Overlap(p, k) == Watching(k) \/ \E q \in Reviewers \ {p} : Reviewing(q, k)

\* Faulty variant: the row is not offered again.
CommitReviewKeepingConsumed(p) ==
    LET r == review[p] IN
    /\ r.step = "write"
    /\ manual' = [manual EXCEPT ![r.of] = r.new]
    /\ IF r.row = "keep"
       THEN UNCHANGED <<verdict, updated>>
       ELSE /\ verdict' = [verdict EXCEPT ![r.of] = r.new]
            /\ updated' = [updated EXCEPT ![r.of] = r.stamp]
    /\ review' = [review EXCEPT ![p] = Idle]
    /\ raced' = IF Overlap(p, r.of) THEN raced \cup {r.of} ELSE raced
    /\ UNCHANGED <<stored, synced, staged, consumed, watch, mesVars, clock>>

\* The flush and commit: consumed is written as FALSE only if it was read as
\* TRUE, manual_verdict only if it was read as another one.
CommitReview(p) ==
    LET r == review[p] IN
    /\ r.step = "write"
    /\ manual' = IF r.new # r.old THEN [manual EXCEPT ![r.of] = r.new] ELSE manual
    /\ IF r.row = "keep"
       THEN UNCHANGED <<verdict, updated, consumed>>
       ELSE /\ verdict' = [verdict EXCEPT ![r.of] = r.new]
            /\ updated' = [updated EXCEPT ![r.of] = r.stamp]
            /\ consumed' = IF r.row = "taken" THEN consumed \ {r.of} ELSE consumed
    /\ review' = [review EXCEPT ![p] = Idle]
    /\ raced' = IF Overlap(p, r.of) THEN raced \cup {r.of} ELSE raced
    /\ UNCHANGED <<stored, synced, staged, watch, mesVars, clock>>

\* An error, a crash or a lost connection before the commit.
AbortReview(p) ==
    /\ review[p].step # "idle"
    /\ review' = [review EXCEPT ![p] = Idle]
    /\ UNCHANGED <<aivisVars, watch, mesVars, clock, raced>>

-----------------------------------------------------------------------------
(* The watchdog: sync_row in table mode *)

WatchRead(k) ==
    /\ watch = NotWatching
    /\ k \in stored \ synced
    /\ watch' = [busy |-> TRUE, of |-> k, old |-> manual[k]]
    /\ UNCHANGED <<aivisVars, review, mesVars, clock, raced>>

\* ensure_staged inserts the row with the values read, unless there is one.
WatchStage ==
    /\ watch.busy
    /\ watch' = NotWatching
    /\ synced' = synced \cup {watch.of}
    /\ IF watch.of \in staged
       THEN UNCHANGED <<staged, verdict, raced>>
       ELSE /\ staged' = staged \cup {watch.of}
            /\ verdict' = [verdict EXCEPT ![watch.of] = watch.old]
            /\ raced' = IF \E p \in Reviewers : Reviewing(p, watch.of)
                        THEN raced \cup {watch.of} ELSE raced
    /\ UNCHANGED <<stored, manual, updated, consumed, review, mesVars, clock>>

\* An error: the row stays for the next round.
WatchFails ==
    /\ watch.busy
    /\ watch' = NotWatching
    /\ UNCHANGED <<aivisVars, review, mesVars, clock, raced>>

-----------------------------------------------------------------------------
(* The MES: InterfaceReader.poll_once *)

PollRead ==
    /\ poll.stage = "idle"
    /\ staged \ consumed # {}
    /\ poll' = [stage |-> "load", seen |-> staged \ consumed,
                verdict |-> verdict, updated |-> updated]
    /\ UNCHANGED <<aivisVars, review, watch, mes, clock, raced>>

EndPoll == poll' = [poll EXCEPT !.stage = "idle", !.seen = {}]

\* upsert_record of every row, one transaction of the MES's database.
PollLoad ==
    /\ poll.stage = "load"
    /\ mes' = [k \in Results |-> IF k \in poll.seen THEN poll.verdict[k] ELSE mes[k]]
    /\ poll' = [poll EXCEPT !.stage = "mark"]
    /\ UNCHANGED <<aivisVars, review, watch, clock, raced>>

\* Faulty variant: no condition on updated_at.
UnchangedOrNot == {k \in poll.seen : k \notin consumed}

\* Faulty variant: updated_at = NULL is never true.
UnchangedNotNull ==
    {k \in poll.seen : k \notin consumed /\ updated[k] = poll.updated[k] /\ updated[k] # 0}

\* The rows the poll may mark: not consumed, and not changed since it read them.
Unchanged == {k \in poll.seen : k \notin consumed /\ updated[k] = poll.updated[k]}

PollMark ==
    /\ poll.stage = "mark"
    /\ consumed' = consumed \cup Unchanged
    /\ EndPoll
    /\ raced' = raced \cup {k \in Unchanged : \E p \in Reviewers : Writing(p, k)}
    /\ UNCHANGED <<stored, manual, synced, staged, verdict, updated, review, watch, mes, clock>>

\* The load or the marking fails and is rolled back, or the MES stops.
PollFails ==
    /\ poll.stage # "idle"
    /\ EndPoll
    /\ UNCHANGED <<aivisVars, review, watch, mes, clock, raced>>

-----------------------------------------------------------------------------
ReviewNext ==
    \E p \in Reviewers :
        \/ \E k \in Results, v \in Verdicts : ReadResult(p, k, v)
        \/ ReadStaged(p) \/ CommitReview(p) \/ AbortReview(p)

WatchNext == (\E k \in Results : WatchRead(k)) \/ WatchStage

Next ==
    \/ \E k \in Results : StoreStaged(k) \/ StoreOnly(k)
    \/ ReviewNext
    \/ WatchNext \/ WatchFails
    \/ PollRead \/ PollLoad \/ PollMark \/ PollFails

Spec == Init /\ [][Next]_vars

\* A poll that finds every row changed marks nothing; it does not fail.
RoundFails == WatchFails \/ (PollFails /\ ~PollMark)

\* The watchdog's and the poller's loops never end, whatever a round raises;
\* from some time on no round fails.
FairSpec ==
    /\ Spec
    /\ WF_vars(WatchNext)
    /\ WF_vars(PollRead \/ PollLoad \/ PollMark)
    /\ <>[][~RoundFails]_vars

-----------------------------------------------------------------------------
(* Properties *)

\* The poller marks a row consumed only while the MES's record holds the
\* row's current verdict: what it has not loaded is offered again
\* (intake.py: "mark only after the load is committed, and only rows that
\* have not changed").
ConsumedWhenLoaded == \A k \in consumed' \ consumed : mes[k] = verdict[k]

MarksWhatItLoaded == [][ConsumedWhenLoaded]_vars

\* The three copies of a manual verdict agree - inspection row, staged row,
\* and the MES's record as long as the row counts as consumed - unless two
\* actors worked on the same row at the same time (restage_after_review).
CopiesAgree ==
    \A k \in staged \ raced :
        /\ verdict[k] = manual[k]
        /\ k \in consumed => mes[k] = verdict[k]

\* Every staged row is consumed some time, every stored result staged.
AllTaken == \A k \in Results : k \in stored ~> k \in consumed

\* The three copies of a verdict, as MesMirror sees them.
RowOf(k) ==
    IF k \in raced THEN [at |-> "raced"]
    ELSE [at |-> IF k \in consumed THEN "counted" ELSE IF k \in staged THEN "staged"
                 ELSE IF k \in stored THEN "stored" ELSE "new",
          verdict |-> manual[k],
          offered |-> IF k \in staged THEN verdict[k] ELSE None,
          held |-> mes[k]]

Mirror == INSTANCE MesMirror WITH
    Unheld <- None, row <- [k \in Results |-> RowOf(k)]

\* The link keeps the promise of MesMirror, step by step: a review takes the
\* row out of the consumed ones, and only the poll that has loaded the row's
\* verdict puts it back (restage_after_review, ensure_staged, poll_once).
MirrorSpec == Mirror!Spec

\* A row marked consumed shows the verdict the MES has: a review makes the
\* row available again (restage_after_review).
ConsumedIsCurrent == \A k \in consumed : mes[k] = verdict[k]
=============================================================================
