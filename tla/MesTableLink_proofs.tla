-------------------------- MODULE MesTableLink_proofs --------------------------
(***************************************************************************)
(* Proofs about module MesTableLink: the poller marks consumed only what   *)
(* it has loaded, for every number of results, reviewers and reviews.      *)
(*                                                                         *)
(* The argument: every review has a time stamp of its own.  A row whose    *)
(* updated_at is the one the poll has read was not reviewed since, and so  *)
(* has the verdict the poll has read and loaded.                           *)
(***************************************************************************)
EXTENDS MesTableLink, TLAPS

Stamped(p) == review[p].step = "write"

\* No stamp lies in the future, and that of a review that is not committed is
\* nowhere else.  A review that changes a staged row has found one.
StampInv ==
    /\ \A k \in Results : updated[k] <= clock /\ poll.updated[k] <= clock
    /\ \A p \in Reviewers : Stamped(p) =>
           /\ review[p].stamp \in 1 .. clock
           /\ \A k \in Results : updated[k] # review[p].stamp /\ poll.updated[k] # review[p].stamp
           /\ \A q \in Reviewers : Stamped(q) /\ q # p => review[q].stamp # review[p].stamp
           /\ review[p].row # "keep" => review[p].of \in staged

\* What the poll knows of the rows it has read.
SeenInv ==
    /\ poll.seen \subseteq staged \ consumed
    /\ \A k \in poll.seen : updated[k] = poll.updated[k] => verdict[k] = poll.verdict[k]
    /\ poll.stage = "mark" => \A k \in poll.seen : mes[k] = poll.verdict[k]

LinkInv == TypeOK /\ StampInv /\ SeenInv

\* What a review has found of row k still holds when it commits.
FoundHolds(k, r) ==
    /\ r.row = "keep" /\ k \in staged => verdict[k] = r.new
    /\ r.row = "waiting" => k \in staged \ consumed
    /\ r.row = "taken" => k \in consumed
    /\ r.row # "keep" /\ k \in staged => verdict[k] # r.new

\* A row nobody touched under the eyes of another: what was read of it is
\* still true, and the copies agree.
QuietRow(k) ==
    /\ k \in staged => verdict[k] = manual[k]
    /\ k \in consumed => mes[k] = verdict[k]
    /\ Watching(k) => watch.old = manual[k]
    /\ \A p \in Reviewers :
           /\ Reviewing(p, k) => review[p].old = manual[k]
           /\ Writing(p, k) => FoundHolds(k, review[p])

FreshRow(k) ==
    /\ k \notin stored =>
           manual[k] = None /\ ~Watching(k) /\ \A p \in Reviewers : ~Reviewing(p, k)
    /\ k \notin staged => verdict[k] = None

RowInv(k) == FreshRow(k) /\ (k \notin raced => QuietRow(k))

RowsInv == \A k \in Results : RowInv(k)

-----------------------------------------------------------------------------
\* At the start nothing is stored.
LEMMA LinkInitially == Init => LinkInv /\ RowsInv
BY ReviewsAssumption
   DEF Init, LinkInv, TypeOK, StampInv, Stamped, SeenInv, RowsInv, RowInv, FreshRow, QuietRow, Manual,
       Idle, Reviews, NotWatching, Watches, Polls, Watching, Reviewing, Writing

\* What is written with a new row.
LEMMA StoreTypes ==
    ASSUME TypeOK, NEW k \in Results, StoreStaged(k) \/ StoreOnly(k)
    PROVE  TypeOK'
<1>1. CASE StoreStaged(k)
  BY <1>1 DEF TypeOK, StoreStaged, mesVars
<1>2. CASE StoreOnly(k)
  BY <1>2 DEF TypeOK, StoreOnly, mesVars
<1> QED BY <1>1, <1>2

LEMMA StoreSteps ==
    ASSUME LinkInv, NEW k \in Results, StoreStaged(k) \/ StoreOnly(k)
    PROVE  LinkInv'
<1>1. TypeOK'
  BY StoreTypes DEF LinkInv
<1>2. StampInv'
  BY DEF LinkInv, StampInv, Stamped, StoreStaged, StoreOnly, mesVars
<1>3. SeenInv'
  BY DEF LinkInv, SeenInv, StoreStaged, StoreOnly, mesVars
<1> QED BY <1>1, <1>2, <1>3 DEF LinkInv

\* A review that reads, or gives up.
LEMMA ReviewReads ==
    ASSUME LinkInv, NEW p \in Reviewers,
           \/ \E k \in Results, v \in Verdicts : ReadResult(p, k, v)
           \/ AbortReview(p)
    PROVE  LinkInv'
<1>1. TypeOK'
  <2>1. ASSUME NEW k \in Results, NEW v \in Verdicts, ReadResult(p, k, v) PROVE TypeOK'
    <3>1. [step |-> "read", of |-> k, new |-> v, old |-> manual[k]] \in Reviews
      BY DEF LinkInv, TypeOK, Reviews
    <3> QED BY <2>1, <3>1 DEF LinkInv, TypeOK, ReadResult, aivisVars, mesVars
  <2>2. CASE AbortReview(p)
    <3>1. Idle \in Reviews
      BY DEF Reviews
    <3> QED BY <2>2, <3>1 DEF LinkInv, TypeOK, AbortReview, aivisVars, mesVars
  <2> QED BY <2>1, <2>2
<1>2. /\ \A q \in Reviewers : Stamped(q)' => q # p /\ Stamped(q) /\ review'[q] = review[q]
      /\ UNCHANGED <<staged, consumed, verdict, updated, clock, poll, mes>>
  <2>1. /\ review'[p].step \in {"idle", "read"}
        /\ \A q \in Reviewers \ {p} : review'[q] = review[q]
    <3>1. ASSUME NEW k \in Results, NEW v \in Verdicts, ReadResult(p, k, v)
          PROVE  review'[p].step = "read" /\ \A q \in Reviewers \ {p} : review'[q] = review[q]
      BY <3>1 DEF LinkInv, TypeOK, ReadResult
    <3>2. CASE AbortReview(p)
      BY <3>2 DEF LinkInv, TypeOK, AbortReview, Idle
    <3> QED BY <3>1, <3>2
  <2>2. UNCHANGED <<staged, consumed, verdict, updated, clock, poll, mes>>
    BY DEF ReadResult, AbortReview, aivisVars, mesVars
  <2> QED BY <2>1, <2>2 DEF Stamped
<1>3. StampInv'
  BY <1>2 DEF LinkInv, StampInv, Stamped
<1>4. SeenInv'
  BY <1>2 DEF LinkInv, SeenInv
<1> QED BY <1>1, <1>3, <1>4 DEF LinkInv

\* A review takes a new time stamp.
LEMMA ReviewStamps ==
    ASSUME LinkInv, NEW p \in Reviewers, ReadStaged(p)
    PROVE  LinkInv'
<1>1. /\ clock' = clock + 1
      /\ clock' \in 1 .. MaxReviews
      /\ clock \in 0 .. MaxReviews
  BY ReviewsAssumption DEF LinkInv, TypeOK, ReadStaged
<1>2. TypeOK'
  <2>1. review[p] \in [step : {"read"}, of : Results, new : Verdicts, old : Manual]
    BY DEF LinkInv, TypeOK, Reviews, Idle, ReadStaged
  <2>2. review'[p] \in [step : {"write"}, of : Results, new : Verdicts, old : Manual,
                        row : {"keep", "waiting", "taken"}, stamp : 0 .. MaxReviews]
    BY <2>1, <1>1 DEF LinkInv, TypeOK, ReadStaged
  <2>3. review' \in [Reviewers -> Reviews]
    BY <2>2 DEF LinkInv, TypeOK, Reviews, ReadStaged
  <2> QED BY <2>3, <1>1 DEF LinkInv, TypeOK, ReadStaged, aivisVars, mesVars
<1>3. /\ review'[p].stamp = clock'
      /\ \A q \in Reviewers \ {p} : review'[q] = review[q]
  BY DEF LinkInv, TypeOK, ReadStaged
<1>4. StampInv'
  <2>1. /\ UNCHANGED <<updated, poll>>
        /\ updated \in [Results -> 0 .. MaxReviews]
        /\ poll.updated \in [Results -> 0 .. MaxReviews]
    BY DEF LinkInv, TypeOK, Polls, ReadStaged, aivisVars, mesVars
  <2>2. \A k \in Results : updated'[k] < clock' /\ poll.updated'[k] < clock'
    BY <1>1, <2>1 DEF LinkInv, StampInv
  <2>3. \A q \in Reviewers \ {p} : Stamped(q) => review[q].stamp \in 1 .. clock
    BY DEF LinkInv, StampInv
  <2>4. review'[p].row # "keep" => review'[p].of \in staged'
    BY DEF LinkInv, TypeOK, ReadStaged, aivisVars
  <2>5. ASSUME NEW q \in Reviewers, q # p, Stamped(q)
        PROVE  review[q].row # "keep" => review[q].of \in staged'
    BY <2>5 DEF LinkInv, StampInv, ReadStaged, aivisVars
  <2> QED BY <1>1, <1>3, <2>1, <2>2, <2>3, <2>4, <2>5 DEF LinkInv, StampInv, Stamped
<1>5. SeenInv'
  BY DEF LinkInv, SeenInv, ReadStaged, aivisVars, mesVars
<1> QED BY <1>2, <1>4, <1>5 DEF LinkInv

\* A review commits: its stamp is none the poll has read.
LEMMA ReviewCommits ==
    ASSUME LinkInv, NEW p \in Reviewers, CommitReview(p)
    PROVE  LinkInv'
<1> DEFINE r == review[p]
<1>1. r \in [step : {"write"}, of : Results, new : Verdicts, old : Manual,
             row : {"keep", "waiting", "taken"}, stamp : 0 .. MaxReviews]
  BY DEF LinkInv, TypeOK, Reviews, Idle, CommitReview
<1>2. TypeOK'
  <2>1. Idle \in Reviews
    BY DEF Reviews
  <2> QED BY <1>1, <2>1 DEF LinkInv, TypeOK, Manual, CommitReview, mesVars
<1>3. /\ \A q \in Reviewers : Stamped(q)' => q # p /\ Stamped(q) /\ review'[q] = review[q]
      /\ UNCHANGED <<staged, clock, poll, mes>>
      /\ consumed' \subseteq consumed
  BY <1>1 DEF LinkInv, TypeOK, Stamped, CommitReview, Idle, mesVars
<1>4. \A k \in Results :
          \/ updated'[k] = updated[k] /\ verdict'[k] = verdict[k]
          \/ updated'[k] = r.stamp
  BY <1>1 DEF LinkInv, TypeOK, CommitReview
<1>5. /\ r.stamp \in 1 .. clock
      /\ \A k \in Results : poll.updated[k] # r.stamp
      /\ \A q \in Reviewers : Stamped(q) /\ q # p => review[q].stamp # r.stamp
  BY <1>1 DEF LinkInv, StampInv, Stamped
<1>6. StampInv'
  BY <1>3, <1>4, <1>5 DEF LinkInv, StampInv, Stamped, TypeOK
<1>7. SeenInv'
  BY <1>3, <1>4, <1>5 DEF LinkInv, SeenInv, TypeOK, Polls
<1> QED BY <1>2, <1>6, <1>7 DEF LinkInv

\* The watchdog inserts staged rows, which no poll has read yet.
LEMMA WatchSteps ==
    ASSUME LinkInv, (\E k \in Results : WatchRead(k)) \/ WatchStage \/ WatchFails
    PROVE  LinkInv'
<1>1. TypeOK'
  <2>1. ASSUME NEW k \in Results, WatchRead(k) PROVE TypeOK'
    <3>1. [busy |-> TRUE, of |-> k, old |-> manual[k]] \in Watches
      BY DEF LinkInv, TypeOK, Watches
    <3> QED BY <2>1, <3>1 DEF LinkInv, TypeOK, WatchRead, aivisVars, mesVars
  <2>2. CASE WatchStage
    <3>1. watch \in [busy : {TRUE}, of : Results, old : Manual]
      <4>1. watch.busy /\ ~NotWatching.busy
        BY <2>2 DEF WatchStage, NotWatching
      <4>2. watch \in Watches \ {NotWatching}
        BY <4>1 DEF LinkInv, TypeOK
      <4> QED BY <4>2 DEF Watches
    <3>2. NotWatching \in Watches /\ ~NotWatching.busy
      BY DEF Watches, NotWatching
    <3>3. synced' \in SUBSET staged' /\ staged' \in SUBSET stored'
      BY <2>2, <3>1 DEF LinkInv, TypeOK, WatchStage
    <3> QED BY <2>2, <3>1, <3>2, <3>3 DEF LinkInv, TypeOK, WatchStage, mesVars
  <2>3. CASE WatchFails
    <3>1. NotWatching \in Watches /\ ~NotWatching.busy
      BY DEF Watches, NotWatching
    <3> QED BY <2>3, <3>1 DEF LinkInv, TypeOK, WatchFails, aivisVars, mesVars
  <2> QED BY <2>1, <2>2, <2>3
<1>2. /\ UNCHANGED <<updated, consumed, review, poll, mes, clock>>
      /\ staged \subseteq staged'
      /\ \A k \in staged : verdict'[k] = verdict[k]
  BY DEF LinkInv, TypeOK, WatchRead, WatchStage, WatchFails, aivisVars, mesVars
<1>3. StampInv'
  BY <1>2 DEF LinkInv, StampInv, Stamped
<1>4. SeenInv'
  BY <1>2 DEF LinkInv, SeenInv
<1> QED BY <1>1, <1>3, <1>4 DEF LinkInv

\* The poll begins with the rows that wait.
LEMMA PollReads ==
    ASSUME LinkInv, PollRead
    PROVE  LinkInv'
<1>1. /\ poll' = [stage |-> "load", seen |-> staged \ consumed,
                  verdict |-> verdict, updated |-> updated]
      /\ UNCHANGED <<stored, manual, synced, staged, verdict, updated, consumed, review,
                     watch, mes, clock, raced>>
  BY DEF PollRead, aivisVars
<1>2. TypeOK'
  <2>1. poll' \in Polls
    BY <1>1 DEF LinkInv, TypeOK, Polls
  <2> QED BY <1>1, <2>1 DEF LinkInv, TypeOK
<1>3. StampInv'
  BY <1>1 DEF LinkInv, StampInv, Stamped
<1>4. SeenInv'
  BY <1>1 DEF LinkInv, SeenInv
<1> QED BY <1>2, <1>3, <1>4 DEF LinkInv

\* It loads what it has read.
LEMMA PollLoads ==
    ASSUME LinkInv, PollLoad
    PROVE  LinkInv'
<1> DEFINE seen == poll.seen
<1>1. /\ poll \in Polls
      /\ poll' = [poll EXCEPT !.stage = "mark"]
      /\ UNCHANGED <<stored, manual, synced, staged, verdict, updated, consumed, review,
                     watch, clock, raced>>
  BY DEF PollLoad, aivisVars, LinkInv, TypeOK
<1>2. /\ poll' \in Polls
      /\ UNCHANGED <<poll.seen, poll.verdict, poll.updated>>
  BY <1>1 DEF Polls
<1>3. /\ mes' \in [Results -> Manual]
      /\ \A k \in seen : mes'[k] = poll.verdict[k]
  BY <1>1 DEF PollLoad, LinkInv, TypeOK, Polls
<1>4. TypeOK'
  BY <1>1, <1>2, <1>3 DEF LinkInv, TypeOK
<1>5. StampInv'
  BY <1>1, <1>2 DEF LinkInv, StampInv, Stamped
<1>6. SeenInv'
  BY <1>1, <1>2, <1>3 DEF LinkInv, SeenInv
<1> QED BY <1>4, <1>5, <1>6 DEF LinkInv

\* It ends, having marked what did not change, or having failed.
LEMMA PollEnds ==
    ASSUME LinkInv, PollMark \/ PollFails
    PROVE  LinkInv'
<1>1. /\ poll \in Polls
      /\ poll' = [poll EXCEPT !.stage = "idle", !.seen = {}]
      /\ raced' \in SUBSET Results
      /\ UNCHANGED <<stored, manual, synced, staged, verdict, updated, review, watch, mes, clock>>
  BY DEF PollMark, PollFails, EndPoll, aivisVars, LinkInv, TypeOK, Polls, Unchanged
<1>2. /\ poll' \in Polls
      /\ poll'.seen = {} /\ poll'.stage = "idle"
      /\ UNCHANGED poll.updated
  BY <1>1 DEF Polls
<1>3. consumed' \in SUBSET staged
  BY DEF PollMark, PollFails, Unchanged, aivisVars, LinkInv, TypeOK, SeenInv
<1>4. TypeOK'
  BY <1>1, <1>2, <1>3 DEF LinkInv, TypeOK
<1>5. StampInv'
  BY <1>1, <1>2 DEF LinkInv, StampInv, Stamped
<1>6. SeenInv'
  BY <1>2 DEF SeenInv
<1> QED BY <1>4, <1>5, <1>6 DEF LinkInv

\* Every step keeps what is known of stamps and polls.
LEMMA LinkStep == LinkInv /\ [Next]_vars => LinkInv'
<1> SUFFICES ASSUME LinkInv, [Next]_vars PROVE LinkInv'
  OBVIOUS
<1>1. CASE \E k \in Results : StoreStaged(k) \/ StoreOnly(k)
  BY <1>1, StoreSteps
<1>2. CASE ReviewNext
  BY <1>2, ReviewReads, ReviewStamps, ReviewCommits DEF ReviewNext
<1>3. CASE WatchNext \/ WatchFails
  BY <1>3, WatchSteps DEF WatchNext
<1>4. CASE PollRead \/ PollLoad \/ PollMark \/ PollFails
  BY <1>4, PollReads, PollLoads, PollEnds
<1>5. CASE UNCHANGED vars
  BY <1>5 DEF vars, aivisVars, mesVars, LinkInv, TypeOK, StampInv, Stamped, SeenInv
<1> QED BY <1>1, <1>2, <1>3, <1>4, <1>5 DEF Next

\* The variables have their types; what is synced is staged, what is consumed
\* is staged.
THEOREM LinkTypeCorrect == Spec => []TypeOK
<1>1. LinkInv => TypeOK
  BY DEF LinkInv
<1> QED BY LinkInitially, LinkStep, <1>1, PTL DEF Spec

\* A row is marked consumed only while the MES holds the row's verdict
\* (poll_once: the mark's condition on updated_at).
THEOREM MarksOnlyLoaded == Spec => MarksWhatItLoaded
<1>1. LinkInv /\ [Next]_vars => [ConsumedWhenLoaded]_vars
  <2> SUFFICES ASSUME LinkInv, Next PROVE ConsumedWhenLoaded
    BY DEF vars, aivisVars, ConsumedWhenLoaded
  <2>1. CASE PollMark
    BY <2>1 DEF LinkInv, SeenInv, PollMark, Unchanged, ConsumedWhenLoaded
  <2>2. ASSUME ~PollMark PROVE consumed' \subseteq consumed
    BY <2>2 DEF Next, ReviewNext, WatchNext, StoreStaged, StoreOnly, ReadResult, ReadStaged,
                CommitReview, AbortReview, WatchRead, WatchStage, WatchFails,
                PollRead, PollLoad, PollFails, aivisVars
  <2> QED BY <2>1, <2>2 DEF ConsumedWhenLoaded
<1> QED BY LinkInitially, LinkStep, <1>1, PTL DEF Spec, MarksWhatItLoaded

-----------------------------------------------------------------------------
(* The copies of a verdict *)

\* A row the step leaves alone, except that a review of it may end.
LEMMA RowUntouched ==
    ASSUME NEW k \in Results, RowInv(k),
           raced \subseteq raced',
           UNCHANGED <<manual[k], verdict[k], mes[k], watch>>,
           k \in stored' <=> k \in stored,
           k \in staged' <=> k \in staged,
           k \in consumed' <=> k \in consumed,
           \A q \in Reviewers : Reviewing(q, k)' => review'[q] = review[q]
    PROVE  RowInv(k)'
<1>1. \A q \in Reviewers : Reviewing(q, k)' => Reviewing(q, k)
  BY DEF Reviewing
<1>2. \A q \in Reviewers : Writing(q, k)' => Writing(q, k) /\ review'[q] = review[q]
  BY DEF Reviewing, Writing
<1>3. FreshRow(k)'
  BY <1>1 DEF RowInv, FreshRow, Watching
<1>4. ASSUME k \notin raced' PROVE QuietRow(k)'
  <2>1. QuietRow(k)
    BY <1>4 DEF RowInv
  <2>2. \A q \in Reviewers : Writing(q, k)' => FoundHolds(k, review[q])'
    BY <2>1, <1>2 DEF QuietRow, FoundHolds
  <2> QED BY <2>1, <2>2, <1>1, <1>2 DEF QuietRow, Watching, FoundHolds
<1> QED BY <1>3, <1>4 DEF RowInv

\* A new row has no verdict anywhere.
LEMMA StoreRows ==
    ASSUME LinkInv, RowsInv, NEW k \in Results, StoreStaged(k) \/ StoreOnly(k)
    PROVE  RowsInv'
<1>1. /\ stored' = stored \cup {k} /\ k \notin stored
      /\ staged' \in {staged, staged \cup {k}}
      /\ UNCHANGED <<manual, verdict, consumed, review, watch, mes, raced>>
  BY DEF StoreStaged, StoreOnly, mesVars
<1>2. ASSUME NEW j \in Results \ {k} PROVE RowInv(j)'
  BY <1>1, RowUntouched DEF RowsInv
<1>3. /\ k \notin staged /\ k \notin consumed
      /\ manual[k] = None /\ verdict[k] = None
      /\ ~Watching(k) /\ \A p \in Reviewers : ~Reviewing(p, k)
  BY <1>1 DEF RowsInv, RowInv, FreshRow, LinkInv, TypeOK
<1>4. ~Watching(k)' /\ \A p \in Reviewers : ~Reviewing(p, k)' /\ ~Writing(p, k)'
  BY <1>1, <1>3 DEF Watching, Reviewing, Writing
<1>5. FreshRow(k)' /\ QuietRow(k)'
  BY <1>1, <1>3, <1>4 DEF FreshRow, QuietRow
<1> QED BY <1>2, <1>5 DEF RowsInv, RowInv

\* A review reads the row's verdict.
LEMMA ReadRows ==
    ASSUME LinkInv, RowsInv, NEW p \in Reviewers,
           NEW k \in Results, NEW v \in Verdicts, ReadResult(p, k, v)
    PROVE  RowsInv'
<1>1. /\ review'[p] = [step |-> "read", of |-> k, new |-> v, old |-> manual[k]]
      /\ \A q \in Reviewers \ {p} : review'[q] = review[q]
      /\ k \in stored
      /\ UNCHANGED <<stored, staged, manual, verdict, consumed, watch, mes, raced>>
  BY DEF ReadResult, aivisVars, mesVars, LinkInv, TypeOK
<1>2. ASSUME NEW j \in Results \ {k} PROVE RowInv(j)'
  <2>1. \A q \in Reviewers : Reviewing(q, j)' => review'[q] = review[q]
    BY <1>1 DEF Reviewing
  <2> QED BY <1>1, <2>1, RowUntouched DEF RowsInv
<1>3. FreshRow(k)'
  BY <1>1 DEF RowsInv, RowInv, FreshRow
<1>4. ASSUME k \notin raced' PROVE QuietRow(k)'
  <2>1. QuietRow(k)
    BY <1>1, <1>4 DEF RowsInv, RowInv
  <2>2. ASSUME NEW q \in Reviewers
        PROVE  /\ Reviewing(q, k)' => review'[q].old = manual[k]
               /\ Writing(q, k)' => FoundHolds(k, review'[q])
    <3>1. CASE q = p
      BY <3>1, <1>1 DEF Reviewing, Writing
    <3>2. CASE q # p
      BY <3>2, <1>1, <2>1 DEF QuietRow, Reviewing, Writing
    <3> QED BY <3>1, <3>2
  <2> QED BY <1>1, <2>1, <2>2 DEF QuietRow, Watching, FoundHolds
<1> QED BY <1>2, <1>3, <1>4 DEF RowsInv, RowInv

\* It reads the staged row.
LEMMA StampRows ==
    ASSUME LinkInv, RowsInv, NEW p \in Reviewers, ReadStaged(p)
    PROVE  RowsInv'
<1>1. review[p] \in [step : {"read"}, of : Results, new : Verdicts, old : Manual]
  BY DEF LinkInv, TypeOK, Reviews, Idle, ReadStaged
<1> PICK k \in Results : k = review[p].of
  BY <1>1
<1>2. /\ review'[p].step = "write" /\ review'[p].of = k
      /\ review'[p].new = review[p].new /\ review'[p].old = review[p].old
      /\ review'[p].row = IF k \notin staged \/ verdict[k] = review[p].new THEN "keep"
                          ELSE IF k \in consumed THEN "taken" ELSE "waiting"
      /\ \A q \in Reviewers \ {p} : review'[q] = review[q]
  BY <1>1 DEF ReadStaged, LinkInv, TypeOK
<1>3. UNCHANGED <<stored, staged, manual, verdict, consumed, watch, mes, raced>>
  BY DEF ReadStaged, aivisVars, mesVars
<1>4. ASSUME NEW j \in Results \ {k} PROVE RowInv(j)'
  <2>1. \A q \in Reviewers : Reviewing(q, j)' => review'[q] = review[q]
    BY <1>2 DEF Reviewing
  <2> QED BY <1>3, <2>1, RowUntouched DEF RowsInv
<1>5. Reviewing(p, k)
  BY <1>1 DEF Reviewing
<1>6. FreshRow(k)'
  BY <1>3, <1>5 DEF RowsInv, RowInv, FreshRow
<1>7. ASSUME k \notin raced' PROVE QuietRow(k)'
  <2>1. QuietRow(k)
    BY <1>3, <1>7 DEF RowsInv, RowInv
  <2>2. ASSUME NEW q \in Reviewers
        PROVE  /\ Reviewing(q, k)' => review'[q].old = manual[k]
               /\ Writing(q, k)' => FoundHolds(k, review'[q])
    <3>1. CASE q = p
      BY <3>1, <1>2, <1>5, <2>1 DEF QuietRow, FoundHolds
    <3>2. CASE q # p
      BY <3>2, <1>2, <2>1 DEF QuietRow, Reviewing, Writing
    <3> QED BY <3>1, <3>2
  <2> QED BY <1>3, <2>1, <2>2 DEF QuietRow, Watching, FoundHolds
<1> QED BY <1>4, <1>6, <1>7 DEF RowsInv, RowInv

\* It gives up.
LEMMA AbortRows ==
    ASSUME LinkInv, RowsInv, NEW p \in Reviewers, AbortReview(p)
    PROVE  RowsInv'
<1>1. /\ review'[p].step = "idle"
      /\ \A q \in Reviewers \ {p} : review'[q] = review[q]
      /\ UNCHANGED <<stored, staged, manual, verdict, consumed, watch, mes, raced>>
  BY DEF AbortReview, aivisVars, mesVars, LinkInv, TypeOK, Idle
<1>2. ASSUME NEW j \in Results PROVE RowInv(j)'
  <2>1. \A q \in Reviewers : Reviewing(q, j)' => review'[q] = review[q]
    BY <1>1 DEF Reviewing
  <2> QED BY <1>1, <2>1, RowUntouched DEF RowsInv
<1> QED BY <1>2 DEF RowsInv

\* A review nobody interferes with changes both copies, and offers the row again.
LEMMA CommitRows ==
    ASSUME LinkInv, RowsInv, NEW p \in Reviewers, CommitReview(p)
    PROVE  RowsInv'
<1>1. review[p] \in [step : {"write"}, of : Results, new : Verdicts, old : Manual,
                     row : {"keep", "waiting", "taken"}, stamp : 0 .. MaxReviews]
  BY DEF LinkInv, TypeOK, Reviews, Idle, CommitReview
<1> PICK k \in Results : k = review[p].of
  BY <1>1
<1> PICK v \in Verdicts : v = review[p].new
  BY <1>1
<1>2. /\ review'[p].step = "idle"
      /\ \A q \in Reviewers \ {p} : review'[q] = review[q]
      /\ UNCHANGED <<stored, staged, watch, mes>>
      /\ raced \subseteq raced'
  BY DEF CommitReview, mesVars, LinkInv, TypeOK, Idle
<1>3. ASSUME NEW j \in Results \ {k} PROVE RowInv(j)'
  <2>1. \A q \in Reviewers : Reviewing(q, j)' => review'[q] = review[q]
    BY <1>2 DEF Reviewing
  <2>2. /\ manual'[j] = manual[j] /\ verdict'[j] = verdict[j]
        /\ j \in consumed' <=> j \in consumed
    BY DEF CommitReview, LinkInv, TypeOK
  <2> QED BY <1>2, <2>1, <2>2, RowUntouched DEF RowsInv
<1>4. Reviewing(p, k) /\ Writing(p, k)
  BY <1>1 DEF Reviewing, Writing
<1>5. k \in stored
  BY <1>4 DEF RowsInv, RowInv, FreshRow
<1>6. review[p].row # "keep" => k \in staged
  BY <1>1 DEF LinkInv, StampInv, Stamped
<1>7. FreshRow(k)'
  BY <1>1, <1>2, <1>5, <1>6 DEF RowsInv, RowInv, FreshRow, CommitReview
<1>8. ASSUME k \notin raced' PROVE QuietRow(k)'
  <2>1. ~Overlap(p, k)
    BY <1>8 DEF CommitReview
  <2>2. QuietRow(k)
    BY <1>2, <1>8 DEF RowsInv, RowInv
  <2>3. review[p].old = manual[k] /\ FoundHolds(k, review[p])
    BY <1>4, <2>2 DEF QuietRow
  <2>4. manual'[k] = v
    BY <2>3 DEF CommitReview, LinkInv, TypeOK
  <2>5. k \in staged => verdict'[k] = v
    BY <1>1, <2>3 DEF CommitReview, FoundHolds, LinkInv, TypeOK
  <2>6. k \in consumed' => k \in consumed /\ verdict'[k] = verdict[k]
    BY <1>1, <2>3 DEF CommitReview, FoundHolds
  <2>7. ~Watching(k)' /\ \A q \in Reviewers : ~Reviewing(q, k)' /\ ~Writing(q, k)'
    BY <1>2, <2>1 DEF Overlap, Watching, Reviewing, Writing
  <2> QED BY <1>2, <2>2, <2>4, <2>5, <2>6, <2>7 DEF QuietRow
<1> QED BY <1>3, <1>7, <1>8 DEF RowsInv, RowInv

\* The watchdog reads a verdict and stages it.
LEMMA WatchRows ==
    ASSUME LinkInv, RowsInv, (\E k \in Results : WatchRead(k)) \/ WatchStage \/ WatchFails
    PROVE  RowsInv'
<1>1. ASSUME NEW k \in Results, WatchRead(k) PROVE RowsInv'
  <2>1. /\ watch' = [busy |-> TRUE, of |-> k, old |-> manual[k]]
        /\ k \in stored
        /\ UNCHANGED <<stored, staged, manual, verdict, consumed, review, mes, raced>>
    BY <1>1 DEF WatchRead, aivisVars, mesVars
  <2>2. ASSUME NEW j \in Results PROVE RowInv(j)'
    <3>1. Watching(j)' => j = k /\ watch'.old = manual[k]
      BY <2>1 DEF Watching
    <3>2. \A q \in Reviewers : (Reviewing(q, j)' <=> Reviewing(q, j)) /\ (Writing(q, j)' <=> Writing(q, j))
      BY <2>1 DEF Reviewing, Writing
    <3> QED BY <2>1, <3>1, <3>2 DEF RowsInv, RowInv, FreshRow, QuietRow, FoundHolds
  <2> QED BY <2>2 DEF RowsInv
<1>2. CASE WatchStage
  <2>1. watch.of \in stored
    BY <1>2 DEF WatchStage, LinkInv, TypeOK
  <2> PICK k \in stored : k = watch.of
    BY <2>1
  <2>2. k \in Results
    BY DEF LinkInv, TypeOK
  <2>3. /\ UNCHANGED <<stored, manual, consumed, review, mes>>
        /\ watch' = NotWatching
        /\ raced \subseteq raced'
        /\ Watching(k)
    BY <1>2 DEF WatchStage, mesVars, Watching
  <2>4. ASSUME NEW j \in Results
        PROVE  /\ ~Watching(j)'
               /\ \A q \in Reviewers : (Reviewing(q, j)' <=> Reviewing(q, j)) /\ (Writing(q, j)' <=> Writing(q, j))
    BY <2>3 DEF Watching, NotWatching, Reviewing, Writing
  <2>5. ASSUME NEW j \in Results, j # k \/ k \in staged PROVE RowInv(j)'
    <3>1. verdict'[j] = verdict[j] /\ (j \in staged' <=> j \in staged)
      BY <1>2, <2>5 DEF WatchStage, LinkInv, TypeOK
    <3> QED BY <2>3, <2>4, <3>1 DEF RowsInv, RowInv, FreshRow, QuietRow, FoundHolds
  <2>6. ASSUME k \notin staged PROVE RowInv(k)'
    <3>1. k \in staged' /\ verdict'[k] = watch.old /\ k \notin consumed'
      BY <1>2, <2>2, <2>3, <2>6 DEF WatchStage, LinkInv, TypeOK
    <3>2. ASSUME k \notin raced'
          PROVE  /\ watch.old = manual[k]
                 /\ \A q \in Reviewers : ~Reviewing(q, k) /\ ~Writing(q, k)
      <4>1. \A q \in Reviewers : ~Reviewing(q, k)
        BY <1>2, <2>6, <3>2 DEF WatchStage
      <4>2. watch.old = manual[k]
        BY <2>2, <2>3, <3>2 DEF RowsInv, RowInv, QuietRow
      <4> QED BY <4>1, <4>2 DEF Reviewing, Writing
    <3> QED BY <2>2, <2>3, <2>4, <3>1, <3>2 DEF RowInv, FreshRow, QuietRow
  <2> QED BY <2>5, <2>6 DEF RowsInv
<1>3. CASE WatchFails
  <2>1. /\ watch' = NotWatching
        /\ UNCHANGED <<stored, staged, manual, verdict, consumed, review, mes, raced>>
    BY <1>3 DEF WatchFails, aivisVars, mesVars
  <2>2. ASSUME NEW j \in Results PROVE RowInv(j)'
    <3>1. ~Watching(j)'
      BY <2>1 DEF Watching, NotWatching
    <3>2. \A q \in Reviewers : (Reviewing(q, j)' <=> Reviewing(q, j)) /\ (Writing(q, j)' <=> Writing(q, j))
      BY <2>1 DEF Reviewing, Writing
    <3> QED BY <2>1, <3>1, <3>2 DEF RowsInv, RowInv, FreshRow, QuietRow, FoundHolds
  <2> QED BY <2>2 DEF RowsInv
<1> QED BY <1>1, <1>2, <1>3

\* The poll changes the MES's copy of rows that are not consumed, and marks
\* rows whose verdict the MES has.
LEMMA PollRows ==
    ASSUME LinkInv, RowsInv, PollRead \/ PollLoad \/ PollMark \/ PollFails
    PROVE  RowsInv'
<1>1. /\ UNCHANGED <<stored, staged, manual, verdict, review, watch>>
      /\ raced \subseteq raced'
  BY DEF PollRead, PollLoad, PollMark, PollFails, aivisVars
<1>2. ASSUME NEW k \in Results, consumed' = consumed, k \in consumed => mes'[k] = mes[k]
      PROVE  RowInv(k)'
  <2>1. \A q \in Reviewers : (Reviewing(q, k)' <=> Reviewing(q, k)) /\ (Writing(q, k)' <=> Writing(q, k))
    BY <1>1 DEF Reviewing, Writing
  <2>2. Watching(k)' <=> Watching(k)
    BY <1>1 DEF Watching
  <2> QED BY <1>1, <1>2, <2>1, <2>2 DEF RowsInv, RowInv, FreshRow, QuietRow, FoundHolds
<1>3. CASE PollRead \/ PollFails
  BY <1>2, <1>3 DEF PollRead, PollFails, aivisVars, RowsInv
<1>4. CASE PollLoad
  <2>1. \A k \in consumed : mes'[k] = mes[k]
    BY <1>4 DEF PollLoad, LinkInv, TypeOK, SeenInv
  <2> QED BY <1>2, <1>4, <2>1 DEF PollLoad, aivisVars, RowsInv
<1>5. CASE PollMark
  <2>1. /\ consumed' = consumed \cup Unchanged
        /\ UNCHANGED mes
        /\ Unchanged \subseteq staged \ consumed
        /\ \A k \in Unchanged : mes[k] = verdict[k]
    BY <1>5 DEF PollMark, Unchanged, LinkInv, SeenInv
  <2>2. ASSUME NEW k \in Results PROVE RowInv(k)'
    <3>1. CASE k \notin Unchanged
      <4>1. \A q \in Reviewers : Reviewing(q, k)' => review'[q] = review[q]
        BY <1>1
      <4> QED BY <1>1, <2>1, <3>1, <4>1, RowUntouched DEF RowsInv
    <3>2. CASE k \in Unchanged
      <4>1. k \notin raced' => \A q \in Reviewers : ~Writing(q, k)
        BY <1>5, <3>2 DEF PollMark
      <4>2. \A q \in Reviewers : (Reviewing(q, k)' <=> Reviewing(q, k)) /\ (Writing(q, k)' <=> Writing(q, k))
        BY <1>1 DEF Reviewing, Writing
      <4>3. Watching(k)' <=> Watching(k)
        BY <1>1 DEF Watching
      <4> QED BY <1>1, <2>1, <3>2, <4>1, <4>2, <4>3 DEF RowsInv, RowInv, FreshRow, QuietRow
    <3> QED BY <3>1, <3>2
  <2> QED BY <2>2 DEF RowsInv
<1> QED BY <1>3, <1>4, <1>5

LEMMA RowsStep == LinkInv /\ RowsInv /\ [Next]_vars => RowsInv'
<1> SUFFICES ASSUME LinkInv, RowsInv, [Next]_vars PROVE RowsInv'
  OBVIOUS
<1>1. CASE \E k \in Results : StoreStaged(k) \/ StoreOnly(k)
  BY <1>1, StoreRows
<1>2. CASE ReviewNext
  BY <1>2, ReadRows, StampRows, CommitRows, AbortRows DEF ReviewNext
<1>3. CASE WatchNext \/ WatchFails
  BY <1>3, WatchRows DEF WatchNext
<1>4. CASE PollRead \/ PollLoad \/ PollMark \/ PollFails
  BY <1>4, PollRows
<1>5. CASE UNCHANGED vars
  BY <1>5 DEF vars, aivisVars, mesVars, RowsInv, RowInv, FreshRow, QuietRow, FoundHolds,
              Watching, Reviewing, Writing
<1> QED BY <1>1, <1>2, <1>3, <1>4, <1>5 DEF Next

\* The copies of a verdict agree on every row nobody raced for.
THEOREM CopiesStayEqual == Spec => []CopiesAgree
<1>1. LinkInv /\ RowsInv => CopiesAgree
  BY DEF LinkInv, TypeOK, RowsInv, RowInv, QuietRow, CopiesAgree
<1> QED BY LinkInitially, LinkStep, RowsStep, <1>1, PTL DEF Spec

-----------------------------------------------------------------------------
(* The refinement of MesMirror *)

\* Row k takes a step of MesMirror, or none.
RowMoves(k) == RowOf(k)' = RowOf(k) \/ Mirror!Step(RowOf(k), RowOf(k)')

\* A row the step leaves alone.
LEMMA RowStays ==
    ASSUME NEW k \in Results,
           k \in raced' <=> k \in raced,
           UNCHANGED <<manual[k], verdict[k], mes[k]>>,
           k \in stored' <=> k \in stored,
           k \in staged' <=> k \in staged,
           k \in consumed' <=> k \in consumed
    PROVE  RowMoves(k)
  BY DEF RowMoves, RowOf

\* A row somebody races for is given up, and remains so.
LEMMA RowGivenUp ==
    ASSUME NEW k \in Results, raced \subseteq raced', k \in raced'
    PROVE  RowMoves(k)
<1>1. RowOf(k)' = [at |-> "raced"]
  BY DEF RowOf
<1>2. CASE k \in raced
  BY <1>1, <1>2 DEF RowMoves, RowOf
<1>3. CASE k \notin raced
  <2>1. RowOf(k).at # "raced"
    BY <1>3 DEF RowOf
  <2> QED BY <1>1, <2>1 DEF RowMoves, Mirror!Step, Mirror!GiveUp, Mirror!Raced
<1> QED BY <1>2, <1>3

LEMMA StoreMoves ==
    ASSUME LinkInv, RowsInv, NEW k \in Results, StoreStaged(k) \/ StoreOnly(k)
    PROVE  \A j \in Results : RowMoves(j)
<1>1. /\ stored' = stored \cup {k} /\ k \notin stored
      /\ staged' \in {staged, staged \cup {k}}
      /\ UNCHANGED <<manual, verdict, consumed, mes, raced>>
  BY DEF StoreStaged, StoreOnly, mesVars
<1>2. ASSUME NEW j \in Results \ {k} PROVE RowMoves(j)
  BY <1>1, RowStays
<1>3. ASSUME k \in raced PROVE RowMoves(k)
  BY <1>1, <1>3, RowGivenUp
<1>4. ASSUME k \notin raced PROVE RowMoves(k)
  <2>1. k \notin staged /\ k \notin consumed /\ verdict[k] = None /\ manual[k] = None
    BY <1>1 DEF RowsInv, RowInv, FreshRow, LinkInv, TypeOK
  <2>2. RowOf(k) = [at |-> "new", verdict |-> manual[k], offered |-> None, held |-> mes[k]]
    BY <1>1, <1>4, <2>1 DEF RowOf
  <2>3. RowOf(k)' = [at |-> IF k \in staged' THEN "staged" ELSE "stored",
                     verdict |-> manual[k], offered |-> None, held |-> mes[k]]
    BY <1>1, <1>4, <2>1 DEF RowOf
  <2> QED BY <2>1, <2>2, <2>3 DEF RowMoves, Mirror!Step, Mirror!Store, Mirror!Row
<1> QED BY <1>2, <1>3, <1>4

\* A review nobody interferes with gives the row another verdict, or none.
LEMMA CommitMoves ==
    ASSUME LinkInv, RowsInv, NEW p \in Reviewers, CommitReview(p)
    PROVE  \A j \in Results : RowMoves(j)
<1>1. review[p] \in [step : {"write"}, of : Results, new : Verdicts, old : Manual,
                     row : {"keep", "waiting", "taken"}, stamp : 0 .. MaxReviews]
  BY DEF LinkInv, TypeOK, Reviews, Idle, CommitReview
<1> PICK k \in Results : k = review[p].of
  BY <1>1
<1> PICK v \in Verdicts : v = review[p].new
  BY <1>1
<1>2. UNCHANGED <<stored, staged, mes>> /\ raced \subseteq raced'
  BY DEF CommitReview, mesVars
<1>3. ASSUME NEW j \in Results \ {k} PROVE RowMoves(j)
  <2>1. /\ manual'[j] = manual[j] /\ verdict'[j] = verdict[j]
        /\ j \in consumed' <=> j \in consumed
        /\ j \in raced' <=> j \in raced
    BY DEF CommitReview, LinkInv, TypeOK
  <2> QED BY <1>2, <2>1, RowStays
<1>4. ASSUME k \notin raced' PROVE RowMoves(k)
  <2>1. /\ Reviewing(p, k) /\ Writing(p, k) /\ k \notin raced
    BY <1>1, <1>2, <1>4 DEF Reviewing, Writing
  <2>2. QuietRow(k) /\ FreshRow(k)
    BY <2>1 DEF RowsInv, RowInv
  <2>3. review[p].old = manual[k] /\ FoundHolds(k, review[p])
    BY <2>1, <2>2 DEF QuietRow
  <2>4. k \in stored /\ staged \subseteq stored /\ consumed \subseteq staged
    BY <2>1, <2>2 DEF FreshRow, LinkInv, TypeOK
  <2>5. manual'[k] = v /\ manual[k] \in Manual
    BY <2>3 DEF CommitReview, LinkInv, TypeOK
  <2>6. CASE k \notin staged
    <3>1. review[p].row = "keep" /\ consumed' = consumed
      BY <1>1, <2>6 DEF LinkInv, StampInv, Stamped, CommitReview
    <3>2. RowOf(k) = [at |-> "stored", verdict |-> manual[k], offered |-> None, held |-> mes[k]]
      BY <2>1, <2>4, <2>6 DEF RowOf
    <3>3. RowOf(k)' = [at |-> "stored", verdict |-> v, offered |-> None, held |-> mes[k]]
      BY <1>2, <1>4, <2>4, <2>5, <2>6, <3>1 DEF RowOf
    <3>4. CASE v = manual[k]
      BY <3>2, <3>3, <3>4 DEF RowMoves
    <3>5. CASE v # manual[k]
      BY <3>2, <3>3, <3>5 DEF RowMoves, Mirror!Step, Mirror!Review, Mirror!Row
    <3> QED BY <3>4, <3>5
  <2>7. CASE k \in staged
    <3>1. RowOf(k) = [at |-> IF k \in consumed THEN "counted" ELSE "staged",
                      verdict |-> manual[k], offered |-> manual[k], held |-> mes[k]]
      BY <2>1, <2>2, <2>7 DEF RowOf, QuietRow
    <3>2. CASE review[p].row = "keep"
      <4>1. verdict[k] = v /\ manual[k] = v
        BY <2>2, <2>3, <2>7, <3>2 DEF FoundHolds, QuietRow
      <4>2. UNCHANGED <<verdict, consumed>>
        BY <3>2 DEF CommitReview
      <4> QED BY <1>2, <1>4, <2>1, <2>5, <4>1, <4>2, RowStays
    <3>3. CASE review[p].row # "keep"
      <4>1. verdict'[k] = v /\ k \notin consumed'
        BY <1>1, <2>3, <3>3 DEF CommitReview, FoundHolds, LinkInv, TypeOK
      <4>2. RowOf(k)' = [at |-> "staged", verdict |-> v, offered |-> v, held |-> mes[k]]
        BY <1>2, <1>4, <2>5, <2>7, <4>1 DEF RowOf
      <4>3. CASE v # manual[k]
        BY <3>1, <4>2, <4>3 DEF RowMoves, Mirror!Step, Mirror!Review, Mirror!Row
      <4>4. v # manual[k]
        BY <2>2, <2>3, <2>7, <3>3 DEF FoundHolds, QuietRow
      <4> QED BY <4>3, <4>4
    <3> QED BY <3>2, <3>3
  <2> QED BY <2>6, <2>7
<1>5. CASE k \in raced'
  BY <1>2, <1>3, <1>5, RowGivenUp
<1> QED BY <1>3, <1>4, <1>5

\* What the watchdog stages is what it has read.
LEMMA WatchMoves ==
    ASSUME LinkInv, RowsInv, WatchStage
    PROVE  \A j \in Results : RowMoves(j)
<1>1. watch.of \in stored
  BY DEF WatchStage, LinkInv, TypeOK
<1> PICK k \in stored : k = watch.of
  BY <1>1
<1>2. k \in Results /\ Watching(k)
  BY DEF WatchStage, Watching, LinkInv, TypeOK
<1>3. UNCHANGED <<stored, manual, consumed, mes>> /\ raced \subseteq raced'
  BY DEF WatchStage, mesVars
<1>4. ASSUME NEW j \in Results, j # k \/ k \in staged PROVE RowMoves(j)
  <2>1. /\ verdict'[j] = verdict[j] /\ (j \in staged' <=> j \in staged)
        /\ j \in raced' <=> j \in raced
    BY <1>4 DEF WatchStage, LinkInv, TypeOK
  <2> QED BY <1>3, <2>1, RowStays
<1>5. ASSUME k \notin staged, k \notin raced' PROVE RowMoves(k)
  <2>1. /\ watch.old = manual[k]
        /\ k \notin raced /\ k \notin consumed
    BY <1>2, <1>3, <1>5 DEF RowsInv, RowInv, QuietRow, LinkInv, TypeOK
  <2>2. k \in staged' /\ verdict'[k] = manual[k]
    BY <1>2, <1>5, <2>1 DEF WatchStage, LinkInv, TypeOK
  <2>3. RowOf(k) = [at |-> "stored", verdict |-> manual[k], offered |-> None, held |-> mes[k]]
    BY <1>5, <2>1 DEF RowOf
  <2>4. RowOf(k)' = [at |-> "staged", verdict |-> manual[k], offered |-> manual[k], held |-> mes[k]]
    BY <1>3, <1>5, <2>1, <2>2 DEF RowOf
  <2> QED BY <2>3, <2>4 DEF RowMoves, Mirror!Step, Mirror!Stage, Mirror!Row
<1>6. ASSUME k \in raced' PROVE RowMoves(k)
  BY <1>2, <1>3, <1>6, RowGivenUp
<1> QED BY <1>4, <1>5, <1>6

\* The poll tells the MES of rows that do not count, and counts those whose
\* verdict the MES has.
LEMMA PollMoves ==
    ASSUME LinkInv, RowsInv, PollLoad \/ PollMark
    PROVE  \A j \in Results : RowMoves(j)
<1>1. /\ UNCHANGED <<stored, staged, manual, verdict>> /\ raced \subseteq raced'
      /\ poll.seen \subseteq staged \ consumed
      /\ poll \in Polls /\ mes \in [Results -> Manual]
  BY DEF PollLoad, PollMark, aivisVars, LinkInv, TypeOK, SeenInv
<1> SUFFICES ASSUME NEW k \in Results PROVE RowMoves(k)
  OBVIOUS
<1>2. CASE k \in raced'
  BY <1>1, <1>2, RowGivenUp
<1>3. CASE k \notin raced'
  <2>1. k \notin raced /\ QuietRow(k)
    BY <1>1, <1>3 DEF RowsInv, RowInv
  <2>2. CASE PollLoad
    <3>1. UNCHANGED <<consumed, raced>>
      BY <2>2 DEF PollLoad, aivisVars
    <3>2. mes'[k] = IF k \in poll.seen THEN poll.verdict[k] ELSE mes[k]
      BY <2>2 DEF PollLoad
    <3>3. CASE k \in poll.seen
      <4>1. k \in staged \ consumed /\ poll.verdict[k] \in Manual
        BY <1>1, <3>3 DEF Polls
      <4>2. RowOf(k) = [at |-> "staged", verdict |-> manual[k], offered |-> verdict[k], held |-> mes[k]]
        BY <2>1, <4>1 DEF RowOf
      <4>3. RowOf(k)' = [at |-> "staged", verdict |-> manual[k], offered |-> verdict[k],
                         held |-> poll.verdict[k]]
        BY <1>1, <1>3, <3>1, <3>2, <3>3, <4>1 DEF RowOf
      <4>4. poll.verdict[k] \in Mirror!Manual
        BY <4>1 DEF Manual, Mirror!Manual
      <4> QED BY <4>2, <4>3, <4>4 DEF RowMoves, Mirror!Step, Mirror!Tell, Mirror!Row
    <3>4. CASE k \notin poll.seen
      BY <1>1, <3>1, <3>2, <3>4, RowStays
    <3> QED BY <3>3, <3>4
  <2>3. CASE PollMark
    <3>1. consumed' = consumed \cup Unchanged /\ UNCHANGED mes
      BY <2>3 DEF PollMark
    <3>2. CASE k \in Unchanged
      <4>1. k \in staged \ consumed /\ mes[k] = verdict[k] /\ verdict[k] = manual[k]
        BY <2>1, <2>3, <3>2 DEF PollMark, Unchanged, LinkInv, SeenInv, QuietRow
      <4>2. RowOf(k) = [at |-> "staged", verdict |-> manual[k], offered |-> manual[k], held |-> manual[k]]
        BY <2>1, <4>1 DEF RowOf
      <4>3. RowOf(k)' = [at |-> "counted", verdict |-> manual[k], offered |-> manual[k], held |-> manual[k]]
        BY <1>1, <1>3, <3>1, <3>2, <4>1 DEF RowOf
      <4> QED BY <4>2, <4>3 DEF RowMoves, Mirror!Step, Mirror!Count, Mirror!Row
    <3>3. CASE k \notin Unchanged
      BY <1>1, <1>3, <2>1, <3>1, <3>3, RowStays
    <3> QED BY <3>2, <3>3
  <2> QED BY <2>2, <2>3
<1> QED BY <1>2, <1>3

\* All other steps change no copy of a verdict.
LEMMA RowsMove == LinkInv /\ RowsInv /\ [Next]_vars => \A k \in Results : RowMoves(k)
<1> SUFFICES ASSUME LinkInv, RowsInv, [Next]_vars PROVE \A k \in Results : RowMoves(k)
  OBVIOUS
<1>1. CASE \E k \in Results : StoreStaged(k) \/ StoreOnly(k)
  BY <1>1, StoreMoves
<1>2. CASE \E p \in Reviewers : CommitReview(p)
  BY <1>2, CommitMoves
<1>3. CASE WatchStage
  BY <1>3, WatchMoves
<1>4. CASE PollLoad \/ PollMark
  BY <1>4, PollMoves
<1>5. CASE UNCHANGED <<aivisVars, mes, raced>>
  BY <1>5, RowStays DEF aivisVars
<1>6. \/ \E k \in Results : StoreStaged(k) \/ StoreOnly(k)
      \/ \E p \in Reviewers : CommitReview(p)
      \/ WatchStage \/ PollLoad \/ PollMark
      \/ UNCHANGED <<aivisVars, mes, raced>>
  BY DEF Next, ReviewNext, WatchNext, ReadResult, ReadStaged, AbortReview, WatchRead, WatchFails,
         PollRead, PollFails, vars, mesVars
<1> QED BY <1>1, <1>2, <1>3, <1>4, <1>5, <1>6

\* What MesMirror sees of a row is a row of MesMirror.
RowsTyped == \A k \in Results : RowOf(k) \in Mirror!Rows

LEMMA RowTypes == TypeOK => RowsTyped
<1> SUFFICES ASSUME TypeOK, NEW k \in Results PROVE RowOf(k) \in Mirror!Rows
  BY DEF RowsTyped
<1>1. manual[k] \in Manual /\ verdict[k] \in Manual /\ mes[k] \in Manual /\ None \in Manual
  BY DEF TypeOK, Manual
<1>2. Mirror!Manual = Manual
  BY DEF Mirror!Manual, Manual
<1> QED BY <1>1, <1>2 DEF RowOf, Mirror!Rows, Mirror!Raced

\* For every number of rows, reviews and polls the table link implements
\* MesMirror: whatever reviews, watchdog and poller do to each other, a row
\* nobody raced for goes only the ways that MesMirror allows.
THEOREM TableRefinesMirror == Spec => MirrorSpec
<1>1. Init => Mirror!Init
  BY DEF Init, Mirror!Init, Mirror!New, Mirror!Row, RowOf
<1>2. LinkInv /\ RowsInv /\ RowsTyped' /\ [Next]_vars => Mirror!Next
  <2> SUFFICES ASSUME LinkInv, RowsInv, RowsTyped', [Next]_vars PROVE Mirror!Next
    OBVIOUS
  <2>1. \A k \in Results : RowMoves(k)
    BY RowsMove
  <2> QED BY <2>1 DEF Mirror!Next, RowMoves, RowsTyped
<1>3. LinkInv => RowsTyped
  BY RowTypes DEF LinkInv
<1> QED BY LinkInitially, LinkStep, RowsStep, <1>1, <1>2, <1>3, PTL DEF Spec, MirrorSpec, Mirror!Spec

\* What MesMirror promises of the copies follows from its steps alone.
THEOREM MirrorAgrees == MirrorSpec => []Mirror!Mirrored
<1> DEFINE row == [k \in Results |-> RowOf(k)]
<1>1. Mirror!Init => Mirror!Mirrored
  BY DEF Mirror!Init, Mirror!Mirrored, Mirror!New, Mirror!Row
<1>2. Mirror!Mirrored /\ [Mirror!Next]_row => Mirror!Mirrored'
  <2> SUFFICES ASSUME Mirror!Mirrored, [Mirror!Next]_row PROVE Mirror!Mirrored'
    OBVIOUS
  <2>1. ASSUME NEW k \in Results
        PROVE  /\ RowOf(k)'.at \in {"staged", "counted"} => RowOf(k)'.offered = RowOf(k)'.verdict
               /\ RowOf(k)'.at = "counted" => RowOf(k)'.held = RowOf(k)'.verdict
    <3> DEFINE r == RowOf(k)
    <3>1. /\ r.at \in {"staged", "counted"} => r.offered = r.verdict
          /\ r.at = "counted" => r.held = r.verdict
      BY DEF Mirror!Mirrored
    <3>2. r' = r \/ Mirror!Step(r, r')
      BY DEF Mirror!Next
    <3> HIDE DEF r
    <3>3. ASSUME NEW s, Mirror!Step(r, s)
          PROVE  /\ s.at \in {"staged", "counted"} => s.offered = s.verdict
                 /\ s.at = "counted" => s.held = s.verdict
      BY <3>1, <3>3 DEF Mirror!Step, Mirror!Store, Mirror!Stage, Mirror!Review, Mirror!Tell,
                        Mirror!Count, Mirror!GiveUp, Mirror!Raced, Mirror!Row
    <3> QED BY <3>1, <3>2, <3>3 DEF r
  <2> QED BY <2>1 DEF Mirror!Mirrored
<1> QED BY <1>1, <1>2, PTL DEF MirrorSpec, Mirror!Spec
================================================================================
