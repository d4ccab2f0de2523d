------------------------------ MODULE MesRestLink ------------------------------
(***************************************************************************)
(* The link to the MES by REST (MES_MODE=rest): the watchdog of the AIVIS  *)
(* API posts every inspection row that is not synchronised, and a review   *)
(* makes the row unsynchronised again (services/api/mes/adapter.py,        *)
(* watchdog.py, transport.py, routers/inspection.py).  The other end is    *)
(* MesOrders.                                                              *)
(*                                                                         *)
(* A request that timed out may still be served.  The transport depends on *)
(* the configuration: "http" with an address; without one "fake" if        *)
(* MES_REST_FAKE is set, else "none", which sends nothing.                 *)
(***************************************************************************)
EXTENDS MesOrders

CONSTANTS
    Reviewers,      \* PATCH /inspection/{id}/review requests at a time
    MaxReviews,     \* bound on the reviews made
    MaxLate,        \* bound on the requests given up and not yet served
    MaxRestarts     \* bound on the restarts of the API

ASSUME LinkBounds == MaxReviews \in Nat /\ MaxLate \in Nat /\ MaxRestarts \in Nat

VARIABLES
    stored,     \* rows of the table inspection
    manual,     \* inspection.manual_verdict
    synced,     \* inspection.mes_synced
    staged,     \* rows of mes_quality_if
    verdict,    \* mes_quality_if.manual_verdict
    consumed,   \* mes_quality_if.consumed: the MES has received the row
    review,     \* what each review has read
    push,       \* the row sync_row works on
    transport,  \* of the running configuration
    reviews,    \* reviews made so far
    restarts,   \* restarts so far
    raced       \* history: rows reviewed while a push, or a late request, was under way

linkVars == <<stored, manual, synced, staged, verdict, consumed, review, push,
              transport, reviews, restarts, raced>>
vars == <<mesVars, linkVars>>

Idle == [step |-> "idle"]
Reviews == {Idle} \cup [step : {"read"}, of : Results, new : Verdicts, old : Manual,
                        synced : BOOLEAN]
Pushes == {Idle} \cup [step : {"wait", "sent"}, of : Results, manual : Manual]
Transports == {"http", "fake", "none"}

TypeOK ==
    /\ OrdersTypeOK
    /\ stored \in SUBSET Results
    /\ manual \in [Results -> Manual]
    /\ synced \in SUBSET stored
    /\ staged \in SUBSET stored
    /\ verdict \in [Results -> Manual]
    /\ consumed \in SUBSET staged
    /\ review \in [Reviewers -> Reviews]
    /\ push \in Pushes
    /\ transport \in Transports
    /\ reviews \in 0 .. MaxReviews
    /\ restarts \in 0 .. MaxRestarts
    /\ raced \in SUBSET Results

Init ==
    /\ OrdersInit
    /\ stored = {} /\ synced = {} /\ staged = {} /\ consumed = {}
    /\ manual = [k \in Results |-> None]
    /\ verdict = [k \in Results |-> None]
    /\ review = [p \in Reviewers |-> Idle]
    /\ push = Idle
    /\ transport \in Transports
    /\ reviews = 0 /\ restarts = 0
    /\ raced = {}

\* Requests about k nobody waits for any more.
Late == {r \in wire \cup intakes : ~r.live}
LateOn(k) == \E r \in Late : r.of = k

Pushing(k) == push # Idle /\ push.of = k

\* Another actor has read row k, or sent it, and not finished.
Busy(k, p) ==
    \/ Pushing(k) \/ LateOn(k)
    \/ \E q \in Reviewers \ {p} : review[q] # Idle /\ review[q].of = k

-----------------------------------------------------------------------------
(* Inspections and reviews *)

\* POST /inspection in rest mode: no staged row, mes_synced = false.
Store(k) ==
    /\ k \notin stored
    /\ stored' = stored \cup {k}
    /\ UNCHANGED <<mesVars, manual, synced, staged, verdict, consumed, review, push,
                   transport, reviews, restarts, raced>>

\* review_inspection reads the row ...
ReviewRead(p, k, v) ==
    /\ review[p] = Idle
    /\ k \in stored
    /\ reviews < MaxReviews
    /\ reviews' = reviews + 1
    /\ review' = [review EXCEPT ![p] =
           [step |-> "read", of |-> k, new |-> v, old |-> manual[k], synced |-> k \in synced]]
    /\ UNCHANGED <<mesVars, stored, manual, synced, staged, verdict, consumed, push,
                   transport, restarts, raced>>

\* Faulty variant: the row is not made due again.
KeptSynced(r) == synced

\* mes_synced = false is written only if the review has read true.
DueAgain(r) == IF r.synced THEN synced \ {r.of} ELSE synced

\* ... and restage_after_review the staged one; then the commit.
ReviewDone(p) ==
    LET r == review[p]
        restage == r.of \in staged /\ verdict[r.of] # r.new
    IN
    /\ r # Idle
    /\ manual' = IF r.new # r.old THEN [manual EXCEPT ![r.of] = r.new] ELSE manual
    /\ synced' = DueAgain(r)
    /\ verdict' = IF restage THEN [verdict EXCEPT ![r.of] = r.new] ELSE verdict
    /\ consumed' = IF restage THEN consumed \ {r.of} ELSE consumed
    /\ review' = [review EXCEPT ![p] = Idle]
    /\ raced' = IF Busy(r.of, p) THEN raced \cup {r.of} ELSE raced
    /\ UNCHANGED <<mesVars, stored, staged, push, transport, reviews, restarts>>

-----------------------------------------------------------------------------
(* The watchdog: run_watchdog_once, MesAdapter.sync_row *)

\* The row is read, the payload built and handed to the transport.
PushStart(k) ==
    /\ push = Idle
    /\ k \in stored \ synced
    /\ transport # "none"
    /\ push' = [step |-> IF transport = "http" THEN "wait" ELSE "sent",
                of |-> k, manual |-> manual[k]]
    /\ wire' = IF transport = "http"
               THEN wire \cup {[of |-> k, manual |-> manual[k], live |-> TRUE]} ELSE wire
    /\ UNCHANGED <<records, orders, intakes, clerk, byHand, overlapped, stored, manual, synced,
                   staged, verdict, consumed, review, transport, reviews, restarts, raced>>

\* The MES serves a request; if the sender still waits it reads the answer.
Serve(i) ==
    /\ IntakeDone(i)
    /\ push' = IF i.live THEN [push EXCEPT !.step = "sent"] ELSE push
    /\ UNCHANGED <<stored, manual, synced, staged, verdict, consumed, review,
                   transport, reviews, restarts, raced>>

\* Faulty variant: every transport counts as received.
ConsumedAlways == consumed \cup {push.of}

\* consumed only if the transport is not the configured fake.
ConsumedIfReal == IF transport = "fake" THEN consumed ELSE consumed \cup {push.of}

\* Faulty variant: a row without a staged row is marked only.
StagedBefore == staged

StagedNow == staged \cup {push.of}

\* ensure_staged keeps a staged row there is; one commit.
PushDone ==
    /\ push.step = "sent"
    /\ synced' = synced \cup {push.of}
    /\ staged' = StagedNow
    /\ verdict' = IF push.of \in staged THEN verdict ELSE [verdict EXCEPT ![push.of] = push.manual]
    /\ consumed' = ConsumedIfReal
    /\ push' = Idle
    /\ raced' = IF \E p \in Reviewers : review[p] # Idle /\ review[p].of = push.of
                THEN raced \cup {push.of} ELSE raced
    /\ UNCHANGED <<mesVars, stored, manual, review, transport, reviews, restarts>>

\* A request the sender gives up is still there.
GiveUp(reqs) == {[r EXCEPT !.live = FALSE] : r \in reqs}

\* The timeout, or an answer that is lost.  The row stays for the next round.
PushTimesOut ==
    /\ push.step = "wait"
    /\ Cardinality(Late) < MaxLate
    /\ push' = Idle
    /\ wire' = GiveUp(wire)
    /\ intakes' = GiveUp(intakes)
    /\ UNCHANGED <<records, orders, clerk, byHand, overlapped, stored, manual, synced, staged,
                   verdict, consumed, review, transport, reviews, restarts, raced>>

\* Answered by an error, or served and the answer lost or the commit refused:
\* rolled back.
PushFails ==
    \/ /\ \E i \in intakes :
             /\ IntakeFails(i)
             /\ push' = IF i.live THEN Idle ELSE push
       /\ UNCHANGED <<stored, manual, synced, staged, verdict, consumed, review,
                      transport, reviews, restarts, raced>>
    \/ /\ push.step = "sent"
       /\ push' = Idle
       /\ UNCHANGED <<mesVars, stored, manual, synced, staged, verdict, consumed, review,
                      transport, reviews, restarts, raced>>

\* The API is stopped and started, with another configuration perhaps.
Restart(t) ==
    /\ restarts < MaxRestarts
    /\ Cardinality(wire \cup intakes) <= MaxLate
    /\ restarts' = restarts + 1
    /\ transport' = t
    /\ push' = Idle
    /\ review' = [p \in Reviewers |-> Idle]
    /\ wire' = GiveUp(wire)
    /\ intakes' = GiveUp(intakes)
    /\ UNCHANGED <<records, orders, clerk, byHand, overlapped, stored, manual, synced, staged,
                   verdict, consumed, reviews, raced>>

-----------------------------------------------------------------------------
ReviewNext ==
    \E p \in Reviewers :
        \/ \E k \in Results, v \in Verdicts : ReviewRead(p, k, v)
        \/ ReviewDone(p)

PushNext == (\E k \in Results : PushStart(k)) \/ PushDone

MesNext ==
    \/ (\E r \in wire : IntakeRead(r)) /\ UNCHANGED linkVars
    \/ \E i \in intakes : Serve(i)

Next ==
    \/ \E k \in Results : Store(k)
    \/ ReviewNext
    \/ PushNext \/ MesNext
    \/ PushTimesOut \/ PushFails
    \/ (\E r \in wire : RequestLost(r)) /\ UNCHANGED linkVars
    \/ \E t \in Transports : Restart(t)
    \/ ClerkNext /\ UNCHANGED linkVars

Spec == Init /\ [][Next]_vars

\* The watchdog's loop never ends, the MES serves what arrives; from some time
\* on nothing fails, an address is configured and no review is left open.
FairSpec ==
    /\ Spec
    /\ WF_vars(PushNext)
    /\ WF_vars(MesNext)
    /\ <>[][~(PushTimesOut \/ PushFails)]_vars
    /\ <>[](transport = "http")

-----------------------------------------------------------------------------
(* Properties *)

\* What AIVIS counts as received by the MES was received: consumed is never
\* set for the sake of a fake transport, in whatever order configurations
\* follow each other (MesAdapter._sync_rest).
ReceivedIsReal == \A k \in consumed : records[k] # NoRecord

\* The verdict the MES holds is the verdict of the row, for every row that
\* counts as received, unless a review overlapped a push or met a request
\* still under way (restage_after_review).
ReceivedAgrees ==
    \A k \in consumed \ raced : records[k] = manual[k]

\* The three copies of a verdict, as MesMirror sees them.
RowOf(k) ==
    IF k \in raced THEN [at |-> "raced"]
    ELSE [at |-> IF k \in consumed THEN "counted" ELSE IF k \in staged THEN "staged"
                 ELSE IF k \in stored THEN "stored" ELSE "new",
          verdict |-> manual[k],
          offered |-> IF k \in staged THEN verdict[k] ELSE None,
          held |-> records[k]]

Mirror == INSTANCE MesMirror WITH
    Unheld <- NoRecord, row <- [k \in Results |-> RowOf(k)]

\* The link keeps the promise of MesMirror, step by step: a late request
\* changes no row that counts as received, a review makes it count no longer,
\* and only the push of its new verdict makes it count again (_sync_rest,
\* restage_after_review).
MirrorSpec == Mirror!Spec

\* A stored row reaches the MES and is marked, whatever failed before, and
\* again after each review, if the fake transport is never configured
\* (run_watchdog_forever) - unless two actors raced for the row.
AllReceived ==
    [](transport # "fake") =>
        \A k \in Results : []<>(k \in stored \ raced => k \in consumed /\ k \in synced)
=============================================================================
