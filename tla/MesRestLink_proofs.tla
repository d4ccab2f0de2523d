-------------------------- MODULE MesRestLink_proofs --------------------------
(***************************************************************************)
(* What the link by REST and the MES behind it promise, for every set of   *)
(* results, work orders, reviewers and clerks, every timeout and every     *)
(* restart: what counts as received was received, with the verdict of the  *)
(* row; no late result sets a closed work order going; no work order with  *)
(* results is left planned.                                                *)
(***************************************************************************)
EXTENDS MesRestLink, TLAPS

USE OrderAssumption, LinkBounds

-----------------------------------------------------------------------------
(* Types; the one request somebody waits for *)

Sent == wire \cup intakes

\* The sender waits for one request at most, the one of the row it pushes.
LiveInv ==
    /\ \A r \in Sent : r.live => push.step = "wait" /\ r.of = push.of
    /\ \A r, s \in Sent : r.live /\ s.live => r = s

PushedIsStored == push.step # "idle" => push.of \in stored

LEMMA Disjoint == \A r \in Requests, i \in Intakes : r # i
<1> SUFFICES ASSUME NEW r \in Requests, NEW i \in Intakes PROVE r # i
  OBVIOUS
<1>1. DOMAIN r = {"of", "manual", "live"}
  BY DEF Requests
<1>2. DOMAIN i = {"of", "manual", "live", "found", "planned"}
  BY DEF Intakes
<1> QED BY <1>1, <1>2

LEMMA GivenUpRequests ==
    ASSUME NEW R \in SUBSET Requests
    PROVE  /\ GiveUp(R) \in SUBSET Requests
           /\ \A s \in GiveUp(R) : ~s.live /\ \E r \in R : s.of = r.of /\ s.manual = r.manual
<1> SUFFICES ASSUME NEW r \in R, NEW s, s = [r EXCEPT !.live = FALSE]
             PROVE  s \in Requests /\ ~s.live /\ s.of = r.of /\ s.manual = r.manual
  BY DEF GiveUp
<1> QED BY DEF Requests

LEMMA GivenUpIntakes ==
    ASSUME NEW I \in SUBSET Intakes
    PROVE  /\ GiveUp(I) \in SUBSET Intakes
           /\ \A s \in GiveUp(I) : ~s.live /\ \E i \in I :
                  /\ s.of = i.of /\ s.manual = i.manual
                  /\ s.found = i.found /\ s.planned = i.planned
<1> SUFFICES ASSUME NEW i \in I, NEW s, s = [i EXCEPT !.live = FALSE]
             PROVE  /\ s \in Intakes /\ ~s.live /\ s.of = i.of /\ s.manual = i.manual
                    /\ s.found = i.found /\ s.planned = i.planned
  BY DEF GiveUp
<1> QED BY DEF Intakes

LEMMA PushShape ==
    ASSUME push \in Pushes
    PROVE  /\ push.step \in {"idle", "wait", "sent"}
           /\ push.step = "idle" <=> push = Idle
           /\ push # Idle => push.of \in Results /\ push.manual \in Manual
           /\ push.step = "wait" =>
                  /\ [push EXCEPT !.step = "sent"] \in Pushes
                  /\ [push EXCEPT !.step = "sent"].step = "sent"
                  /\ [push EXCEPT !.step = "sent"].of = push.of
                  /\ [push EXCEPT !.step = "sent"].manual = push.manual
           /\ Idle \in Pushes /\ Idle.step = "idle"
  BY DEF Pushes, Idle

LEMMA ReviewShape ==
    ASSUME NEW p \in Reviewers, review \in [Reviewers -> Reviews], review[p] # Idle
    PROVE  /\ review[p].of \in Results /\ review[p].new \in Verdicts
           /\ review[p].old \in Manual /\ review[p].synced \in BOOLEAN
  BY DEF Reviews, Idle

LEMMA ClerkShape ==
    ASSUME NEW c \in Clerks, clerk \in [Clerks -> ClerkStates]
    PROVE  /\ clerk[c].step \in {"idle", "created", "counted", "patch"}
           /\ clerk[c].step = "idle" <=> clerk[c] = Away
           /\ clerk[c].step # "idle" => clerk[c].order \in Orders
           /\ clerk[c].step = "patch" => clerk[c].new \in Statuses /\ clerk[c].old \in WorkOrders
  BY DEF ClerkStates, Away

LEMMA AwayIsIdle == Away \in ClerkStates /\ Away.step = "idle"
  BY DEF Away, ClerkStates

-----------------------------------------------------------------------------
(* The steps of the MES: intakes and clerks *)

\* What an intake does to the records and the orders keeps their types.
LEMMA IntakeTypes ==
    ASSUME OrdersTypeOK, NEW i \in intakes
    PROVE  /\ Upserted(i) \in [Results -> Manual \cup {NoRecord}]
           /\ StartPlanned(i) \in [Orders -> WorkOrders]
<1>1. i \in Intakes
  BY DEF OrdersTypeOK
<1>2. i.of \in Results /\ i.manual \in Manual /\ i.planned \in SUBSET Orders
  BY <1>1 DEF Intakes
<1>3. Upserted(i) \in [Results -> Manual \cup {NoRecord}]
  <2>1. records \in [Results -> Manual \cup {NoRecord}]
    BY DEF OrdersTypeOK
  <2>2. [records EXCEPT ![i.of] = i.manual] \in [Results -> Manual \cup {NoRecord}]
    BY <1>2, <2>1
  <2> QED BY <2>1, <2>2 DEF Upserted
<1>4. ASSUME NEW o \in Orders
      PROVE  [orders[o] EXCEPT !.status = "RUNNING", !.started = TRUE] \in WorkOrders
  <2>1. orders[o] \in WorkOrders
    BY DEF OrdersTypeOK
  <2> QED BY <2>1 DEF WorkOrders, Statuses
<1>5. StartPlanned(i) \in [Orders -> WorkOrders]
  BY <1>4 DEF StartPlanned, OrdersTypeOK
<1> QED BY <1>3, <1>5

LEMMA ClerkTypes ==
    ASSUME OrdersTypeOK, ClerkNext
    PROVE  OrdersTypeOK'
<1>0. /\ orders \in [Orders -> WorkOrders] /\ clerk \in [Clerks -> ClerkStates]
      /\ overlapped \in SUBSET Orders /\ byHand \in SUBSET Orders
  BY DEF OrdersTypeOK
<1>1. ASSUME NEW c \in Clerks, NEW o \in Orders, CreateOrder(c, o) PROVE OrdersTypeOK'
  <2>1. [step |-> "created", order |-> o] \in ClerkStates
    BY DEF ClerkStates
  <2>2. [orders[o] EXCEPT !.status = "PLANNED"] \in WorkOrders
    BY <1>0 DEF WorkOrders, Statuses
  <2> QED BY <1>0, <1>1, <2>1, <2>2 DEF CreateOrder, OrdersTypeOK
<1>2. ASSUME NEW c \in Clerks, NEW o \in Orders, NEW s \in Statuses, PatchRead(c, o, s)
      PROVE  OrdersTypeOK'
  <2>1. [step |-> "patch", order |-> o, new |-> s, old |-> orders[o]] \in ClerkStates
    BY <1>0 DEF ClerkStates
  <2> QED BY <1>0, <1>2, <2>1 DEF PatchRead, OrdersTypeOK
<1>3. ASSUME NEW c \in Clerks, CountRecords(c) PROVE OrdersTypeOK'
  <2>1. clerk[c].order \in Orders
    BY <1>0, <1>3, ClerkShape DEF CountRecords
  <2>2. [step |-> "counted", order |-> clerk[c].order] \in ClerkStates
    BY <2>1 DEF ClerkStates
  <2> QED BY <1>0, <1>3, <2>2, AwayIsIdle DEF CountRecords, OrdersTypeOK
<1>4. ASSUME NEW c \in Clerks, StartCreated(c) PROVE OrdersTypeOK'
  <2>1. clerk[c].order \in Orders
    BY <1>0, <1>4, ClerkShape DEF StartCreated
  <2>2. [[orders EXCEPT ![clerk[c].order].status = "RUNNING"]
            EXCEPT ![clerk[c].order].started = TRUE] \in [Orders -> WorkOrders]
    BY <1>0, <2>1 DEF WorkOrders, Statuses
  <2>3. orders' \in [Orders -> WorkOrders]
    BY <1>4, <2>2 DEF StartCreated
  <2> QED BY <1>0, <1>4, <2>1, <2>3, AwayIsIdle DEF StartCreated, OrdersTypeOK
<1>5. ASSUME NEW c \in Clerks, PatchDone(c) PROVE OrdersTypeOK'
  <2>1. /\ clerk[c].order \in Orders /\ clerk[c].new \in Statuses
        /\ clerk[c].old \in WorkOrders
    BY <1>0, <1>5, ClerkShape DEF PatchDone
  <2>2. Patched(orders[clerk[c].order], clerk[c].old, clerk[c].new) \in WorkOrders
    BY <1>0, <2>1 DEF Patched, WorkOrders
  <2> QED BY <1>0, <1>5, <2>1, <2>2, AwayIsIdle DEF PatchDone, OrdersTypeOK
<1> QED BY <1>1, <1>2, <1>3, <1>4, <1>5 DEF ClerkNext

-----------------------------------------------------------------------------
(* Type correctness *)

LEMMA TypeInitially == Init => TypeOK /\ LiveInv /\ PushedIsStored
<1> SUFFICES ASSUME Init PROVE TypeOK /\ LiveInv /\ PushedIsStored
  OBVIOUS
<1>1. OrdersTypeOK
  <2>1. [status |-> "none", started |-> FALSE, finished |-> FALSE] \in WorkOrders
    BY DEF WorkOrders
  <2>2. /\ records = [k \in Results |-> NoRecord] /\ wire = {} /\ intakes = {}
        /\ orders = [o \in Orders |-> [status |-> "none", started |-> FALSE, finished |-> FALSE]]
        /\ clerk = [c \in Clerks |-> Away] /\ byHand = {} /\ overlapped = {}
    BY DEF Init, OrdersInit
  <2> QED BY <2>1, <2>2, AwayIsIdle DEF OrdersTypeOK
<1>2. TypeOK
  BY <1>1 DEF Init, TypeOK, Manual, Reviews, Pushes
<1>3. LiveInv
  BY DEF Init, OrdersInit, LiveInv, Sent
<1>4. PushedIsStored
  BY DEF Init, PushedIsStored, Idle
<1> QED BY <1>2, <1>3, <1>4

\* The sender gives up what it waits for.
LEMMA GiveUpStep ==
    ASSUME TypeOK, push' = Idle, wire' = GiveUp(wire), intakes' = GiveUp(intakes)
    PROVE  /\ wire' \in SUBSET Requests /\ intakes' \in SUBSET Intakes
           /\ push' \in Pushes /\ LiveInv'
<1>1. wire \in SUBSET Requests /\ intakes \in SUBSET Intakes
  BY DEF TypeOK, OrdersTypeOK
<1>2. \A r \in wire' \cup intakes' : ~r.live
  BY <1>1, GivenUpRequests, GivenUpIntakes
<1> QED BY <1>1, <1>2, GivenUpRequests, GivenUpIntakes DEF LiveInv, Sent, Pushes

LEMMA TypeStep == TypeOK /\ LiveInv /\ PushedIsStored /\ [Next]_vars => (TypeOK /\ LiveInv)'
<1> SUFFICES ASSUME TypeOK, LiveInv, PushedIsStored, [Next]_vars PROVE TypeOK' /\ LiveInv'
  OBVIOUS
<1>0. /\ OrdersTypeOK /\ wire \in SUBSET Requests /\ intakes \in SUBSET Intakes
      /\ push \in Pushes /\ review \in [Reviewers -> Reviews]
  BY DEF TypeOK, OrdersTypeOK
<1>1. ASSUME UNCHANGED <<wire, intakes, push>> PROVE LiveInv'
  BY <1>1 DEF LiveInv, Sent
<1>2. ASSUME UNCHANGED mesVars PROVE OrdersTypeOK'
  BY <1>0, <1>2 DEF OrdersTypeOK, mesVars
<1>3. ASSUME UNCHANGED linkVars, OrdersTypeOK' PROVE TypeOK'
  BY <1>3 DEF TypeOK, linkVars
<1>4. CASE \E k \in Results : Store(k)
  BY <1>1, <1>2, <1>4 DEF Store, TypeOK, mesVars
<1>5. ASSUME NEW p \in Reviewers, NEW k \in Results, NEW v \in Verdicts, ReviewRead(p, k, v)
      PROVE  TypeOK' /\ LiveInv'
  <2>1. [step |-> "read", of |-> k, new |-> v, old |-> manual[k], synced |-> k \in synced] \in Reviews
    BY DEF TypeOK, Reviews
  <2>2. review' \in [Reviewers -> Reviews] /\ reviews' \in 0 .. MaxReviews
    BY <1>0, <1>5, <2>1 DEF ReviewRead, TypeOK
  <2> QED BY <1>1, <1>2, <1>5, <2>2 DEF ReviewRead, TypeOK, mesVars
<1>6. ASSUME NEW p \in Reviewers, ReviewDone(p) PROVE TypeOK' /\ LiveInv'
  <2>1. review[p].of \in Results /\ review[p].new \in Verdicts
    BY <1>0, <1>6, ReviewShape DEF ReviewDone
  <2>2. manual' \in [Results -> Manual] /\ verdict' \in [Results -> Manual]
    BY <1>6, <2>1 DEF ReviewDone, TypeOK, Manual
  <2>3. synced' \in SUBSET stored /\ consumed' \in SUBSET staged
    BY <1>6 DEF ReviewDone, TypeOK, DueAgain
  <2>4. review' \in [Reviewers -> Reviews] /\ raced' \in SUBSET Results
    BY <1>0, <1>6, <2>1 DEF ReviewDone, TypeOK, Reviews
  <2>5. UNCHANGED <<mesVars, stored, staged, push, transport, reviews, restarts>>
    BY <1>6 DEF ReviewDone
  <2> QED BY <1>1, <1>2, <2>2, <2>3, <2>4, <2>5 DEF TypeOK, mesVars
<1>7. ASSUME NEW k \in Results, PushStart(k) PROVE TypeOK' /\ LiveInv'
  <2>1. ~ \E r \in Sent : r.live
    BY <1>0, <1>7, PushShape DEF PushStart, LiveInv, Idle
  <2> DEFINE r == [of |-> k, manual |-> manual[k], live |-> TRUE]
  <2>2. r \in Requests /\ manual[k] \in Manual
    BY DEF TypeOK, Requests
  <2>3. push' \in Pushes /\ push'.of = k
    BY <1>7, <2>2 DEF PushStart, Pushes
  <2>4. wire' = wire \/ (wire' = wire \cup {r} /\ push'.step = "wait")
    BY <1>7 DEF PushStart
  <2>5. wire' \in SUBSET Requests /\ LiveInv'
    <3>1. r.live /\ r.of = k
      OBVIOUS
    <3>2. intakes' = intakes
      BY <1>7 DEF PushStart
    <3> HIDE DEF r
    <3> QED BY <1>0, <2>1, <2>2, <2>3, <2>4, <3>1, <3>2 DEF LiveInv, Sent
  <2>6. OrdersTypeOK'
    BY <1>0, <1>7, <2>5 DEF PushStart, OrdersTypeOK
  <2> QED BY <1>7, <2>3, <2>5, <2>6 DEF PushStart, TypeOK
<1>8. CASE PushDone
  <2>1. push.of \in Results /\ push.manual \in Manual /\ push.step = "sent"
    BY <1>0, <1>8, PushShape DEF PushDone, Idle
  <2>2. ~ \E r \in Sent : r.live
    BY <2>1 DEF LiveInv
  <2>3. LiveInv'
    BY <1>8, <2>2 DEF PushDone, mesVars, LiveInv, Sent
  <2>4. push.of \in stored
    BY <2>1 DEF PushedIsStored
  <2>5. /\ synced' \in SUBSET stored /\ staged' \in SUBSET stored
        /\ consumed' \in SUBSET staged' /\ verdict' \in [Results -> Manual]
        /\ raced' \in SUBSET Results
    BY <1>8, <2>1, <2>4 DEF PushDone, TypeOK, StagedNow, ConsumedIfReal
  <2> QED BY <1>2, <1>8, <2>3, <2>5 DEF PushDone, TypeOK, Pushes
<1>9. ASSUME NEW r \in wire, IntakeRead(r), UNCHANGED linkVars PROVE TypeOK' /\ LiveInv'
  <2> DEFINE i == [of |-> r.of, manual |-> r.manual, live |-> r.live,
                   found |-> records[r.of], planned |-> PlannedFor(r.of)]
  <2>1. r \in Requests /\ PlannedFor(r.of) \in SUBSET Orders
    BY <1>0 DEF PlannedFor
  <2>2. i \in Intakes
    BY <1>0, <2>1 DEF Requests, Intakes, OrdersTypeOK
  <2>3. i.of = r.of /\ i.live = r.live
    OBVIOUS
  <2>4. wire' = wire \ {r} /\ intakes' = intakes \cup {i}
    BY <1>9 DEF IntakeRead
  <2> HIDE DEF i
  <2>5. OrdersTypeOK'
    BY <1>0, <1>9, <2>2, <2>4 DEF IntakeRead, OrdersTypeOK
  <2>6. LiveInv'
    <3>1. r \notin intakes
      BY <1>0, Disjoint
    <3>2. \A s \in Sent' : s = i \/ (s \in Sent /\ s # r)
      BY <2>4, <3>1 DEF Sent
    <3>3. r \in Sent /\ push' = push
      BY <1>9 DEF Sent, linkVars
    <3> QED BY <2>3, <3>2, <3>3 DEF LiveInv
  <2> QED BY <1>3, <1>9, <2>5, <2>6
<1>10. ASSUME NEW i \in intakes, Serve(i) PROVE TypeOK' /\ LiveInv'
  <2>1. /\ records' \in [Results -> Manual \cup {NoRecord}] /\ orders' \in [Orders -> WorkOrders]
        /\ intakes' = intakes \ {i} /\ overlapped' \in SUBSET Orders
        /\ UNCHANGED <<wire, clerk, byHand>>
    BY <1>0, <1>10, IntakeTypes DEF Serve, IntakeDone, OrdersTypeOK
  <2>2. OrdersTypeOK'
    BY <1>0, <2>1 DEF OrdersTypeOK
  <2>3. push' \in Pushes /\ LiveInv'
    <3>1. CASE i.live
      <4>1. push.step = "wait"
        BY <3>1 DEF LiveInv, Sent
      <4>2. push' = [push EXCEPT !.step = "sent"]
        BY <1>10, <3>1 DEF Serve
      <4>3. push' \in Pushes
        BY <1>0, <4>1, <4>2, PushShape
      <4>4. ~ \E s \in wire' \cup intakes' : s.live
        BY <1>0, <2>1, <3>1, Disjoint DEF LiveInv, Sent
      <4> QED BY <4>3, <4>4 DEF LiveInv, Sent
    <3>2. CASE ~i.live
      <4>1. push' = push
        BY <1>10, <3>2 DEF Serve
      <4> QED BY <1>0, <2>1, <4>1 DEF LiveInv, Sent
    <3> QED BY <3>1, <3>2
  <2> QED BY <1>10, <2>2, <2>3 DEF Serve, TypeOK
<1>11. CASE PushTimesOut \/ \E t \in Transports : Restart(t)
  <2>1. /\ wire' \in SUBSET Requests /\ intakes' \in SUBSET Intakes
        /\ push' \in Pushes /\ LiveInv'
    BY <1>11, GiveUpStep DEF PushTimesOut, Restart
  <2>2. OrdersTypeOK'
    BY <1>0, <1>11, <2>1 DEF PushTimesOut, Restart, OrdersTypeOK
  <2>3. CASE PushTimesOut
    BY <2>1, <2>2, <2>3 DEF PushTimesOut, TypeOK
  <2>4. CASE \E t \in Transports : Restart(t)
    BY <2>1, <2>2, <2>4 DEF Restart, TypeOK, Reviews
  <2> QED BY <1>11, <2>3, <2>4
<1>12. ASSUME NEW i \in intakes, IntakeFails(i), push' = IF i.live THEN Idle ELSE push,
              UNCHANGED <<stored, manual, synced, staged, verdict, consumed, review,
                          transport, reviews, restarts, raced>>
       PROVE  TypeOK' /\ LiveInv'
  <2>1. push' \in Pushes
    BY <1>0, <1>12 DEF Pushes
  <2>2. OrdersTypeOK'
    BY <1>0, <1>12 DEF IntakeFails, OrdersTypeOK
  <2>3. LiveInv'
    <3>1. wire' = wire /\ intakes' = intakes \ {i}
      BY <1>12 DEF IntakeFails
    <3>2. CASE i.live
      <4>1. ~ \E s \in wire' \cup intakes' : s.live
        BY <1>0, <3>1, <3>2, Disjoint DEF LiveInv, Sent
      <4> QED BY <4>1 DEF LiveInv, Sent
    <3>3. CASE ~i.live
      BY <1>12, <3>1, <3>3 DEF LiveInv, Sent
    <3> QED BY <3>2, <3>3
  <2> QED BY <1>12, <2>1, <2>2, <2>3 DEF TypeOK
<1>13. ASSUME push.step = "sent", push' = Idle,
              UNCHANGED <<mesVars, stored, manual, synced, staged, verdict, consumed, review,
                          transport, reviews, restarts, raced>>
       PROVE  TypeOK' /\ LiveInv'
  <2>1. ~ \E r \in Sent : r.live
    BY <1>13 DEF LiveInv
  <2>2. LiveInv'
    BY <1>13, <2>1 DEF LiveInv, Sent, mesVars
  <2> QED BY <1>2, <1>13, <2>2 DEF TypeOK, Pushes
<1>14. ASSUME NEW r \in wire, RequestLost(r), UNCHANGED linkVars PROVE TypeOK' /\ LiveInv'
  <2>1. OrdersTypeOK'
    BY <1>0, <1>14 DEF RequestLost, OrdersTypeOK
  <2>2. LiveInv'
    BY <1>14 DEF RequestLost, LiveInv, Sent, linkVars
  <2> QED BY <1>3, <1>14, <2>1, <2>2
<1>15. CASE ClerkNext /\ UNCHANGED linkVars
  <2>1. UNCHANGED <<wire, intakes, push>>
    BY <1>15 DEF ClerkNext, CreateOrder, PatchRead, CountRecords, StartCreated, PatchDone, linkVars
  <2> QED BY <1>0, <1>1, <1>3, <1>15, <2>1, ClerkTypes
<1>16. CASE UNCHANGED vars
  BY <1>1, <1>2, <1>3, <1>16 DEF vars, mesVars, linkVars
<1> QED
  BY <1>4, <1>5, <1>6, <1>7, <1>8, <1>9, <1>10, <1>11, <1>12, <1>13, <1>14, <1>15, <1>16
  DEF Next, ReviewNext, PushNext, MesNext, PushFails

LEMMA PushedStep == TypeOK /\ LiveInv /\ PushedIsStored /\ [Next]_vars => PushedIsStored'
<1> SUFFICES ASSUME TypeOK, LiveInv, PushedIsStored, [Next]_vars PROVE PushedIsStored'
  OBVIOUS
<1>1. stored \subseteq stored'
  BY DEF Next, Store, ReviewNext, ReviewRead, ReviewDone, PushNext, PushStart, PushDone, MesNext,
         Serve, PushTimesOut, PushFails, Restart, linkVars, vars
<1>2. ASSUME push' = push PROVE PushedIsStored'
  BY <1>1, <1>2 DEF PushedIsStored
<1>3. ASSUME push' = Idle PROVE PushedIsStored'
  BY <1>3 DEF PushedIsStored, Idle
<1>4. ASSUME NEW k \in Results, PushStart(k) PROVE PushedIsStored'
  BY <1>1, <1>4 DEF PushStart, PushedIsStored
<1>5. ASSUME NEW i \in intakes, Serve(i) PROVE PushedIsStored'
  <2>1. CASE i.live
    <3>1. push.step = "wait" /\ push' = [push EXCEPT !.step = "sent"]
      BY <1>5, <2>1 DEF Serve, LiveInv, Sent
    <3>2. push'.of = push.of
      BY <3>1, PushShape DEF TypeOK
    <3> QED BY <1>1, <3>1, <3>2 DEF PushedIsStored
  <2> QED BY <1>2, <1>5, <2>1 DEF Serve
<1> QED
  BY <1>2, <1>3, <1>4, <1>5
  DEF Next, Store, ReviewNext, ReviewRead, ReviewDone, PushNext, PushDone, MesNext,
      PushTimesOut, PushFails, Restart, linkVars, vars

\* Rows, requests, transactions, orders and people keep their types, for every
\* number of each, and the sender waits for one request at most.
THEOREM RestTypeCorrect == Spec => []TypeOK
<1>1. Spec => [](TypeOK /\ LiveInv /\ PushedIsStored)
  BY TypeInitially, TypeStep, PushedStep, PTL DEF Spec
<1> QED BY <1>1, PTL

-----------------------------------------------------------------------------
(* What the MES holds: records and requests *)

LinkInv == TypeOK /\ LiveInv /\ PushedIsStored

LEMMA LinkInvHolds == Spec => []LinkInv
  BY TypeInitially, TypeStep, PushedStep, PTL DEF Spec, LinkInv

\* Requests move on, or are lost, and never change what they say.
MovesOn ==
    /\ \A s \in Sent' : \E r \in Sent : s.of = r.of /\ s.manual = r.manual
    /\ \A s \in intakes' :
           \/ \E i \in intakes : /\ s.of = i.of /\ s.manual = i.manual
                               /\ s.found = i.found /\ s.planned = i.planned
           \/ \E r \in wire : /\ IntakeRead(r) /\ UNCHANGED linkVars
                              /\ s.of = r.of /\ s.manual = r.manual
                              /\ s.found = records[r.of] /\ s.planned = PlannedFor(r.of)

LEMMA RequestsStay ==
    ASSUME LinkInv, [Next]_vars, ~ \E k \in Results : PushStart(k)
    PROVE  MovesOn
<1>1. wire \in SUBSET Requests /\ intakes \in SUBSET Intakes
  BY DEF LinkInv, TypeOK, OrdersTypeOK
<1>2. ASSUME wire' \subseteq wire, intakes' \subseteq intakes PROVE MovesOn
  BY <1>2 DEF Sent, MovesOn
<1>3. ASSUME wire' = GiveUp(wire), intakes' = GiveUp(intakes) PROVE MovesOn
  <2>1. \A s \in intakes' : \E i \in intakes : /\ s.of = i.of /\ s.manual = i.manual
                                              /\ s.found = i.found /\ s.planned = i.planned
    BY <1>1, <1>3, GivenUpIntakes
  <2>2. \A s \in wire' : \E r \in wire : s.of = r.of /\ s.manual = r.manual
    BY <1>1, <1>3, GivenUpRequests
  <2> QED BY <2>1, <2>2 DEF Sent, MovesOn
<1>4. ASSUME NEW r \in wire, IntakeRead(r), UNCHANGED linkVars PROVE MovesOn
  <2> DEFINE i == [of |-> r.of, manual |-> r.manual, live |-> r.live,
                   found |-> records[r.of], planned |-> PlannedFor(r.of)]
  <2>1. wire' = wire \ {r} /\ intakes' = intakes \cup {i}
    BY <1>4 DEF IntakeRead
  <2>2. /\ i.of = r.of /\ i.manual = r.manual
        /\ i.found = records[r.of] /\ i.planned = PlannedFor(r.of)
    OBVIOUS
  <2> HIDE DEF i
  <2>3. \A s \in Sent' : \E q \in Sent : s.of = q.of /\ s.manual = q.manual
    BY <2>1, <2>2 DEF Sent
  <2>4. ASSUME NEW s \in intakes'
        PROVE  \/ \E j \in intakes : /\ s.of = j.of /\ s.manual = j.manual
                                   /\ s.found = j.found /\ s.planned = j.planned
               \/ \E q \in wire : /\ IntakeRead(q) /\ UNCHANGED linkVars
                                  /\ s.of = q.of /\ s.manual = q.manual
                                  /\ s.found = records[q.of] /\ s.planned = PlannedFor(q.of)
    <3>1. CASE s = i
      BY <1>4, <2>2, <3>1
    <3>2. CASE s \in intakes
      BY <3>2
    <3> QED BY <2>1, <3>1, <3>2
  <2> QED BY <2>3, <2>4 DEF MovesOn
<1>5. CASE UNCHANGED mesVars
  BY <1>2, <1>5 DEF mesVars
<1>6. CASE ClerkNext
  <2>1. UNCHANGED <<wire, intakes>>
    BY <1>6 DEF ClerkNext, CreateOrder, PatchRead, CountRecords, StartCreated, PatchDone
  <2> QED BY <1>2, <2>1
<1>7. ASSUME NEW i \in intakes, Serve(i) \/ IntakeFails(i) PROVE MovesOn
  BY <1>2, <1>7 DEF Serve, IntakeDone, IntakeFails
<1>8. ASSUME NEW r \in wire, RequestLost(r) PROVE MovesOn
  BY <1>2, <1>8 DEF RequestLost
<1>9. CASE PushTimesOut \/ \E t \in Transports : Restart(t)
  BY <1>3, <1>9 DEF PushTimesOut, Restart
<1>10. \/ UNCHANGED mesVars \/ ClerkNext
       \/ \E r \in wire : IntakeRead(r) /\ UNCHANGED linkVars
       \/ \E i \in intakes : Serve(i) \/ IntakeFails(i)
       \/ \E r \in wire : RequestLost(r)
       \/ PushTimesOut \/ \E t \in Transports : Restart(t)
  BY DEF Next, Store, ReviewNext, ReviewRead, ReviewDone, PushNext, PushDone, MesNext, PushFails, vars
<1>11. CASE \E r \in wire : IntakeRead(r) /\ UNCHANGED linkVars
  BY <1>4, <1>11
<1>12. CASE \E i \in intakes : Serve(i) \/ IntakeFails(i)
  BY <1>7, <1>12
<1>13. CASE \E r \in wire : RequestLost(r)
  BY <1>8, <1>13
<1> QED
  BY <1>5, <1>6, <1>9, <1>10, <1>11, <1>12, <1>13

\* Only an intake writes a record, and it never removes one.
LEMMA RecordsStay ==
    ASSUME LinkInv, [Next]_vars
    PROVE  \/ records' = records
           \/ \E i \in intakes : Serve(i) /\ records' = Upserted(i)
  BY DEF Next, Store, ReviewNext, ReviewRead, ReviewDone, PushNext, PushStart, PushDone, MesNext,
         IntakeRead, Serve, IntakeDone, IntakeFails, PushTimesOut, PushFails, RequestLost, Restart,
         ClerkNext, CreateOrder, PatchRead, CountRecords, StartCreated, PatchDone,
         vars, mesVars

LEMMA UpsertedAt ==
    ASSUME TypeOK, NEW i \in intakes, NEW k \in Results
    PROVE  /\ k # i.of => Upserted(i)[k] = records[k]
           /\ k = i.of => Upserted(i)[k] = IF i.found = i.manual THEN records[k] ELSE i.manual
           /\ i.manual \in Manual /\ i.manual # NoRecord /\ i.of \in Results
<1>1. records \in [Results -> Manual \cup {NoRecord}] /\ i \in Intakes
  BY DEF TypeOK, OrdersTypeOK
<1>2. i.of \in Results /\ i.manual \in Manual /\ i.manual # NoRecord
  BY <1>1 DEF Intakes, Manual
<1> QED BY <1>1, <1>2 DEF Upserted

\* An intake that has found a record still finds one; a push the MES has
\* answered has made one.
RealInv ==
    /\ \A i \in intakes : i.found # NoRecord => records[i.of] # NoRecord
    /\ push.step = "sent" /\ transport # "fake" => records[push.of] # NoRecord
    /\ ReceivedIsReal

\* The steps as far as the push is concerned.
LEMMA PushSteps ==
    ASSUME LinkInv, [Next]_vars
    PROVE  \/ push' = push /\ transport' = transport
           \/ push' = Idle
           \/ \E k \in Results : PushStart(k)
           \/ \E i \in intakes : /\ Serve(i) /\ i.live
                               /\ push.step = "wait" /\ push.of = i.of
                               /\ push'.step = "sent" /\ push'.of = push.of
                               /\ push'.manual = push.manual /\ transport' = transport
<1>1. ASSUME NEW i \in intakes, Serve(i)
      PROVE  \/ push' = push /\ transport' = transport
             \/ /\ i.live /\ push.step = "wait" /\ push.of = i.of
                /\ push'.step = "sent" /\ push'.of = push.of
                /\ push'.manual = push.manual /\ transport' = transport
  <2>1. CASE i.live
    <3>1. push.step = "wait" /\ push.of = i.of
      BY <2>1 DEF LinkInv, LiveInv, Sent
    <3>2. push' = [push EXCEPT !.step = "sent"] /\ transport' = transport
      BY <1>1, <2>1 DEF Serve
    <3> QED BY <2>1, <3>1, <3>2, PushShape DEF LinkInv, TypeOK
  <2>2. CASE ~i.live
    BY <1>1, <2>2 DEF Serve
  <2> QED BY <2>1, <2>2
<1>2. CASE \E i \in intakes : Serve(i)
  BY <1>1, <1>2
<1>3. CASE ~ \E i \in intakes : Serve(i)
  BY <1>3
  DEF Next, Store, ReviewNext, ReviewRead, ReviewDone, PushNext, PushDone, MesNext,
      PushTimesOut, PushFails, Restart, linkVars, vars
<1> QED BY <1>2, <1>3

LEMMA RealInitially == Init => RealInv
  BY DEF Init, OrdersInit, RealInv, ReceivedIsReal, Idle

LEMMA RealStep == LinkInv /\ RealInv /\ [Next]_vars => RealInv'
<1> SUFFICES ASSUME LinkInv, RealInv, [Next]_vars PROVE RealInv'
  OBVIOUS
<1>0. TypeOK /\ push \in Pushes /\ transport \in Transports /\ intakes \in SUBSET Intakes
      /\ wire \in SUBSET Requests /\ consumed \in SUBSET Results
  BY DEF LinkInv, TypeOK, OrdersTypeOK
<1>1. ASSUME NEW k \in Results, records[k] # NoRecord PROVE records'[k] # NoRecord
  BY <1>0, <1>1, RecordsStay, UpsertedAt
<1>2. \A i \in intakes' : i.found # NoRecord => records'[i.of] # NoRecord
  <2>1. CASE \E k \in Results : PushStart(k)
    BY <2>1 DEF PushStart, RealInv
  <2>2. CASE ~ \E k \in Results : PushStart(k)
    <3> SUFFICES ASSUME NEW s \in intakes', s.found # NoRecord PROVE records'[s.of] # NoRecord
      OBVIOUS
    <3>1. \/ \E i \in intakes : s.of = i.of /\ s.found = i.found
          \/ \E r \in wire : s.of = r.of /\ s.found = records[r.of]
      BY <2>2, RequestsStay DEF MovesOn
    <3>2. s.of \in Results /\ records[s.of] # NoRecord
      BY <1>0, <3>1 DEF RealInv, Intakes, Requests
    <3> QED BY <1>1, <3>2
  <2> QED BY <2>1, <2>2
<1>3. push'.step = "sent" /\ transport' # "fake" => records'[push'.of] # NoRecord
  <2>1. CASE push' = push /\ transport' = transport
    <3>1. push.step = "sent" => push.of \in Results
      BY <1>0, PushShape
    <3> QED BY <1>1, <2>1, <3>1 DEF RealInv
  <2>2. CASE push' = Idle
    BY <2>2, PushShape, <1>0
  <2>3. CASE \E k \in Results : PushStart(k)
    BY <1>0, <2>3 DEF PushStart, Transports
  <2>4. ASSUME NEW i \in intakes, Serve(i), push.of = i.of, push'.of = push.of
        PROVE  records'[push'.of] # NoRecord
    <3>1. records' = Upserted(i)
      BY <2>4 DEF Serve, IntakeDone
    <3>2. i.of \in Results /\ i.manual # NoRecord
      BY <1>0 DEF Intakes, Manual
    <3>3. i.found = i.manual => records[i.of] # NoRecord
      BY <3>2 DEF RealInv
    <3> QED BY <1>0, <2>4, <3>1, <3>2, <3>3, UpsertedAt
  <2>5. CASE \E i \in intakes : Serve(i) /\ push.of = i.of /\ push'.of = push.of
    BY <2>4, <2>5
  <2> QED BY <2>1, <2>2, <2>3, <2>5, PushSteps
<1>4. ReceivedIsReal'
  <2>1. CASE PushDone
    <3>1. push.step = "sent" /\ records' = records
      BY <2>1 DEF PushDone, mesVars
    <3>2. transport # "fake" \/ consumed' = consumed
      BY <2>1 DEF PushDone, ConsumedIfReal
    <3>3. consumed' \subseteq consumed \cup {push.of}
      BY <2>1 DEF PushDone, ConsumedIfReal
    <3> QED BY <3>1, <3>2, <3>3 DEF RealInv, ReceivedIsReal
  <2>2. CASE ~PushDone
    <3>1. consumed' \subseteq consumed
      BY <2>2
      DEF Next, Store, ReviewNext, ReviewRead, ReviewDone, PushNext, PushStart, MesNext, Serve,
          PushTimesOut, PushFails, Restart, linkVars, vars
    <3> QED BY <1>0, <1>1, <3>1 DEF RealInv, ReceivedIsReal
  <2> QED BY <2>1, <2>2
<1> QED BY <1>2, <1>3, <1>4 DEF RealInv

\* For every configuration and every order of restarts, timeouts and late
\* requests: what counts as received by the MES has a record there.
THEOREM NothingFaked == Spec => []ReceivedIsReal
<1>1. Spec => []RealInv
  BY LinkInvHolds, RealInitially, RealStep, PTL DEF Spec
<1>2. RealInv => ReceivedIsReal
  BY DEF RealInv
<1> QED BY <1>1, <1>2, PTL

-----------------------------------------------------------------------------
(* The verdict of a row nobody raced for *)

\* Whatever has been read of row k, or sent of it, is still what the row says.
AgreesAt(k) ==
    /\ \A p \in Reviewers : review[p] # Idle /\ review[p].of = k => review[p].old = manual[k]
    /\ \A r \in Sent : r.of = k => r.manual = manual[k]
    /\ \A i \in intakes : i.of = k /\ i.found = i.manual => records[k] = manual[k]
    /\ Pushing(k) => push.manual = manual[k]
    /\ Pushing(k) /\ push.step = "sent" /\ transport # "fake" => records[k] = manual[k]
    /\ k \in staged => verdict[k] = manual[k]
    /\ k \in consumed => records[k] = manual[k]

AgreeInv == \A k \in Results \ raced : AgreesAt(k)

LEMMA AgreeInitially == Init => AgreeInv
  BY DEF Init, OrdersInit, AgreeInv, AgreesAt, Sent, Pushing

\* A review changes the verdict of a row while nobody else is about it.
LEMMA ReviewAgrees ==
    ASSUME LinkInv, AgreeInv, NEW p \in Reviewers, ReviewDone(p), NEW k \in Results \ raced'
    PROVE  AgreesAt(k)'
<1> DEFINE r == review[p]
<1>0. /\ r.of \in Results /\ r.new \in Verdicts /\ r.old \in Manual
      /\ review \in [Reviewers -> Reviews]
      /\ manual \in [Results -> Manual] /\ verdict \in [Results -> Manual]
      /\ consumed \subseteq staged
  BY ReviewShape DEF ReviewDone, LinkInv, TypeOK
<1>1. AgreesAt(k) /\ k \notin raced
  BY DEF ReviewDone, AgreeInv
<1>2. UNCHANGED <<wire, intakes, records, push, transport, staged>>
  BY DEF ReviewDone, mesVars
<1>3. review' = [review EXCEPT ![p] = Idle] /\ review[p] # Idle
  BY DEF ReviewDone
<1>4. CASE k # r.of
  <2>1. manual'[k] = manual[k] /\ verdict'[k] = verdict[k] /\ (k \in consumed' => k \in consumed)
    BY <1>0, <1>4 DEF ReviewDone
  <2>2. \A q \in Reviewers : review'[q] = review[q] \/ review'[q] = Idle
    BY <1>0, <1>3
  <2> QED BY <1>1, <1>2, <2>1, <2>2 DEF AgreesAt, Sent, Pushing
<1>5. CASE k = r.of
  <2>1. ~Busy(k, p)
    BY <1>5 DEF ReviewDone
  <2>2. /\ ~Pushing(k) /\ \A q \in Reviewers \ {p} : ~(review[q] # Idle /\ review[q].of = k)
    BY <2>1 DEF Busy
  <2>3. ~ \E s \in Sent : s.of = k
    <3>1. ~ \E s \in Sent : s.of = k /\ ~s.live
      BY <2>1 DEF Busy, LateOn, Late, Sent
    <3>2. ~ \E s \in Sent : s.of = k /\ s.live
      BY <2>2, PushShape DEF LinkInv, LiveInv, Pushing, TypeOK
    <3> QED BY <3>1, <3>2
  <2>4. manual'[k] = r.new
    BY <1>0, <1>1, <1>3, <1>5 DEF ReviewDone, AgreesAt
  <2>5. k \in staged => verdict'[k] = r.new
    BY <1>0, <1>5 DEF ReviewDone
  <2>6. k \in consumed' => records[k] = r.new
    BY <1>0, <1>1, <1>5 DEF ReviewDone, AgreesAt
  <2>7. \A q \in Reviewers : ~(review'[q] # Idle /\ review'[q].of = k)
    BY <1>0, <1>3, <2>2
  <2> QED BY <1>2, <2>2, <2>3, <2>4, <2>5, <2>6, <2>7 DEF AgreesAt, Sent, Pushing
<1> QED BY <1>4, <1>5

\* Every other step leaves the row alone, except that the push stages it.
LEMMA AgreeStep == LinkInv /\ AgreeInv /\ [Next]_vars => AgreeInv'
<1> SUFFICES ASSUME LinkInv, AgreeInv, [Next]_vars, NEW k \in Results \ raced'
             PROVE  AgreesAt(k)'
  BY DEF AgreeInv
<1>0. /\ TypeOK /\ push \in Pushes /\ transport \in Transports /\ intakes \in SUBSET Intakes
      /\ wire \in SUBSET Requests /\ review \in [Reviewers -> Reviews]
      /\ verdict \in [Results -> Manual] /\ manual \in [Results -> Manual]
  BY DEF LinkInv, TypeOK, OrdersTypeOK
<1>1. CASE \E p \in Reviewers : ReviewDone(p)
  BY <1>1, ReviewAgrees
<1>2. CASE ~ \E p \in Reviewers : ReviewDone(p)
  <2>1. manual' = manual
    BY <1>2
    DEF Next, Store, ReviewNext, ReviewRead, PushNext, PushStart, PushDone, MesNext, Serve,
        PushTimesOut, PushFails, Restart, linkVars, vars
  <2>2. raced \subseteq raced'
    BY <1>2
    DEF Next, Store, ReviewNext, ReviewRead, PushNext, PushStart, PushDone, MesNext, Serve,
        PushTimesOut, PushFails, Restart, linkVars, vars
  <2>3. AgreesAt(k)
    BY <2>2 DEF AgreeInv
  <2>4. \A p \in Reviewers : review'[p] # Idle /\ review'[p].of = k => review'[p].old = manual[k]
    <3>1. CASE \E p \in Reviewers, j \in Results, v \in Verdicts : ReviewRead(p, j, v)
      <4>1. PICK p \in Reviewers, j \in Results, v \in Verdicts : ReviewRead(p, j, v)
        BY <3>1
      <4>2. review' = [review EXCEPT ![p] =
                [step |-> "read", of |-> j, new |-> v, old |-> manual[j], synced |-> j \in synced]]
        BY <4>1 DEF ReviewRead
      <4> QED BY <1>0, <2>3, <4>2 DEF AgreesAt
    <3>2. CASE ~ \E p \in Reviewers, j \in Results, v \in Verdicts : ReviewRead(p, j, v)
      <4>1. review' = review \/ review' = [p \in Reviewers |-> Idle]
        BY <1>2, <3>2
        DEF Next, Store, ReviewNext, PushNext, PushStart, PushDone, MesNext, Serve,
            PushTimesOut, PushFails, Restart, linkVars, vars
      <4> QED BY <2>3, <4>1 DEF AgreesAt
    <3> QED BY <3>1, <3>2
  <2>5. \A r \in Sent' : r.of = k => r.manual = manual[k]
    <3>1. CASE \E j \in Results : PushStart(j)
      <4>1. PICK j \in Results : PushStart(j)
        BY <3>1
      <4>2. /\ wire' \subseteq wire \cup {[of |-> j, manual |-> manual[j], live |-> TRUE]}
            /\ intakes' = intakes
        BY <4>1 DEF PushStart
      <4> QED BY <2>3, <4>2 DEF AgreesAt, Sent
    <3>2. CASE ~ \E j \in Results : PushStart(j)
      BY <2>3, <3>2, RequestsStay DEF AgreesAt, MovesOn
    <3> QED BY <3>1, <3>2
  <2>6. records[k] = manual[k] => records'[k] = manual[k]
    <3>1. ASSUME NEW i \in intakes, records' = Upserted(i), records[k] = manual[k]
          PROVE  records'[k] = manual[k]
      <4>1. i.of = k => i.manual = manual[k]
        BY <2>3 DEF AgreesAt, Sent
      <4> QED BY <1>0, <3>1, <4>1, UpsertedAt
    <3> QED BY <3>1, RecordsStay
  <2>7. \A i \in intakes' : i.of = k /\ i.found = i.manual => records'[k] = manual[k]
    <3>1. CASE \E j \in Results : PushStart(j)
      BY <2>3, <3>1 DEF PushStart, AgreesAt
    <3>2. ASSUME ~ \E j \in Results : PushStart(j), NEW s \in intakes', s.of = k, s.found = s.manual
          PROVE  records'[k] = manual[k]
      <4>1. CASE \E i \in intakes : s.of = i.of /\ s.manual = i.manual /\ s.found = i.found
        BY <2>3, <2>6, <3>2, <4>1 DEF AgreesAt
      <4>2. CASE \E r \in wire : s.of = r.of /\ s.manual = r.manual /\ s.found = records[r.of]
        BY <2>3, <2>6, <3>2, <4>2 DEF AgreesAt, Sent
      <4> QED BY <3>2, <4>1, <4>2, RequestsStay DEF MovesOn
    <3> QED BY <3>1, <3>2
  <2>8. /\ Pushing(k)' => push'.manual = manual[k]
        /\ Pushing(k)' /\ push'.step = "sent" /\ transport' # "fake" => records'[k] = manual[k]
    <3>1. CASE push' = push /\ transport' = transport
      BY <2>3, <2>6, <3>1 DEF AgreesAt, Pushing
    <3>2. CASE push' = Idle
      BY <3>2 DEF Pushing
    <3>3. CASE \E j \in Results : PushStart(j)
      BY <1>0, <3>3 DEF PushStart, Transports, Pushing
    <3>4. ASSUME NEW i \in intakes, Serve(i), push.step = "wait", push.of = i.of, push'.of = push.of,
                 push'.manual = push.manual, push'.of = k
          PROVE  push'.manual = manual[k] /\ records'[k] = manual[k]
      <4>1. push'.manual = manual[k]
        BY <2>3, <3>4 DEF AgreesAt, Pushing, Idle
      <4>2. i.manual = manual[k] /\ (i.found = i.manual => records[k] = manual[k])
        BY <2>3, <3>4 DEF AgreesAt, Sent
      <4>3. records' = Upserted(i)
        BY <3>4 DEF Serve, IntakeDone
      <4>4. k = i.of /\ k \in Results /\ i \in intakes
        BY <3>4
      <4>5. Upserted(i)[k] = IF i.found = i.manual THEN records[k] ELSE i.manual
        BY <1>0, <4>4, UpsertedAt
      <4> QED BY <4>1, <4>2, <4>3, <4>5
    <3>5. CASE \E i \in intakes : /\ Serve(i) /\ push.step = "wait" /\ push.of = i.of
                                 /\ push'.of = push.of /\ push'.manual = push.manual
      BY <3>4, <3>5 DEF Pushing
    <3> QED BY <3>1, <3>2, <3>3, <3>5, PushSteps
  <2>9. (k \in staged' => verdict'[k] = manual[k]) /\ (k \in consumed' => records'[k] = manual[k])
    <3>1. CASE PushDone
      <4>1. push.of \in Results /\ push # Idle /\ push.step = "sent"
        BY <1>0, <3>1, PushShape DEF PushDone, Idle
      <4>2. push.of = k => push.manual = manual[k] /\ (transport # "fake" => records[k] = manual[k])
        BY <2>3, <4>1 DEF AgreesAt, Pushing
      <4>3. k \in staged' => verdict'[k] = manual[k]
        BY <1>0, <2>3, <3>1, <4>1, <4>2 DEF PushDone, StagedNow, AgreesAt
      <4>4. k \in consumed' => records[k] = manual[k]
        BY <2>3, <3>1, <4>2 DEF PushDone, ConsumedIfReal, AgreesAt
      <4> QED BY <2>6, <4>3, <4>4
    <3>2. CASE ~PushDone
      <4>1. UNCHANGED <<staged, verdict, consumed>>
        BY <1>2, <3>2
        DEF Next, Store, ReviewNext, ReviewRead, PushNext, PushStart, MesNext, Serve,
            PushTimesOut, PushFails, Restart, linkVars, vars
      <4> QED BY <2>3, <2>6, <4>1 DEF AgreesAt
    <3> QED BY <3>1, <3>2
  <2> QED BY <2>1, <2>4, <2>5, <2>7, <2>8, <2>9 DEF AgreesAt
<1> QED BY <1>1, <1>2

\* For every number of rows, reviewers, timeouts and restarts: the MES holds the
\* verdict of each row that counts as received, unless two actors raced for it.
THEOREM NewestHeld == Spec => []ReceivedAgrees
<1>1. Spec => []AgreeInv
  BY LinkInvHolds, AgreeInitially, AgreeStep, PTL DEF Spec
<1>2. LinkInv /\ AgreeInv => ReceivedAgrees
  BY DEF LinkInv, TypeOK, AgreeInv, AgreesAt, ReceivedAgrees
<1> QED BY <1>1, <1>2, LinkInvHolds, PTL

-----------------------------------------------------------------------------
(* What the watchdog leaves alone *)

\* The watchdog never comes back to a row that is marked mes_synced: such a
\* row has been received, unless two actors raced for it (sync_row, the
\* assignments of restage_after_review and of review_inspection).
MarkedIsReceived == synced \subseteq consumed \cup raced

\* A review of row k has read whether the row is marked, and still knows it.
MarkKnown(k) ==
    \A p \in Reviewers : review[p] # Idle /\ review[p].of = k =>
        (review[p].synced <=> k \in synced)

MarkInv == MarkedIsReceived /\ \A k \in Results \ raced : MarkKnown(k)

LEMMA MarkInitially == Init => MarkInv
  BY DEF Init, MarkInv, MarkedIsReceived, MarkKnown

\* A review that nobody overlaps takes the mark back whenever it takes the
\* receipt back.
LEMMA ReviewMarks ==
    ASSUME LinkInv, MarkInv, NEW p \in Reviewers, ReviewDone(p)
    PROVE  MarkInv'
<1> DEFINE r == review[p]
<1>0. /\ r # Idle /\ r.of \in Results /\ r.synced \in BOOLEAN
      /\ review \in [Reviewers -> Reviews] /\ synced \in SUBSET stored
      /\ review' = [review EXCEPT ![p] = Idle] /\ synced' = DueAgain(r)
      /\ consumed' = consumed \/ consumed' = consumed \ {r.of}
      /\ raced' = raced \/ raced' = raced \cup {r.of}
      /\ Busy(r.of, p) => r.of \in raced'
  BY ReviewShape DEF LinkInv, TypeOK, ReviewDone
<1>1. synced' \subseteq synced /\ synced \ {r.of} \subseteq synced' /\ raced \subseteq raced'
  BY <1>0 DEF DueAgain
<1>2. r.of \notin raced' => r.of \notin synced'
  BY <1>0 DEF DueAgain, MarkInv, MarkKnown
<1>3. MarkedIsReceived'
  BY <1>0, <1>1, <1>2 DEF MarkInv, MarkedIsReceived
<1>4. ASSUME NEW k \in Results \ raced', NEW q \in Reviewers, review'[q] # Idle, review'[q].of = k
      PROVE  review'[q].synced <=> k \in synced'
  <2>1. q # p /\ review'[q] = review[q]
    BY <1>0, <1>4
  <2>2. k # r.of
    BY <1>0, <1>4, <2>1 DEF Busy
  <2> QED BY <1>1, <1>4, <2>1, <2>2 DEF MarkInv, MarkKnown
<1> QED BY <1>3, <1>4 DEF MarkInv, MarkKnown

\* A push marks what it has sent, and nothing else; a review that has read the
\* row meanwhile makes it a raced one.
LEMMA PushMarks ==
    ASSUME LinkInv, MarkInv, transport # "fake", PushDone
    PROVE  MarkInv'
<1>1. /\ synced' = synced \cup {push.of} /\ consumed' = consumed \cup {push.of}
      /\ review' = review /\ raced \subseteq raced'
      /\ \A p \in Reviewers : review[p] # Idle /\ review[p].of = push.of => push.of \in raced'
  BY DEF PushDone, ConsumedIfReal
<1>2. MarkedIsReceived'
  BY <1>1 DEF MarkInv, MarkedIsReceived
<1>3. ASSUME NEW k \in Results \ raced', NEW q \in Reviewers, review'[q] # Idle, review'[q].of = k
      PROVE  review'[q].synced <=> k \in synced'
  <2>1. k # push.of
    BY <1>1, <1>3
  <2> QED BY <1>1, <1>3, <2>1 DEF MarkInv, MarkKnown
<1> QED BY <1>2, <1>3 DEF MarkInv, MarkKnown

LEMMA MarkStep == LinkInv /\ MarkInv /\ transport # "fake" /\ [Next]_vars => MarkInv'
<1> SUFFICES ASSUME LinkInv, MarkInv, transport # "fake", [Next]_vars PROVE MarkInv'
  OBVIOUS
<1>1. CASE \E p \in Reviewers : ReviewDone(p)
  BY <1>1, ReviewMarks
<1>2. CASE PushDone
  BY <1>2, PushMarks
<1>3. CASE ~ PushDone /\ ~ \E p \in Reviewers : ReviewDone(p)
  <2>1. UNCHANGED <<synced, consumed, raced>>
    BY <1>3
    DEF Next, Store, ReviewNext, ReviewRead, PushNext, PushStart, MesNext, Serve,
        PushTimesOut, PushFails, Restart, linkVars, vars
  <2>2. MarkedIsReceived'
    BY <2>1 DEF MarkInv, MarkedIsReceived
  <2>3. ASSUME NEW p \in Reviewers, NEW j \in Results, NEW v \in Verdicts, ReviewRead(p, j, v)
        PROVE  \A k \in Results \ raced' : MarkKnown(k)'
    <3>1. /\ review' = [review EXCEPT ![p] = [step |-> "read", of |-> j, new |-> v,
                                            old |-> manual[j], synced |-> j \in synced]]
          /\ review \in [Reviewers -> Reviews]
      BY <2>3 DEF ReviewRead, LinkInv, TypeOK
    <3>2. ASSUME NEW k \in Results \ raced', NEW q \in Reviewers, review'[q] # Idle, review'[q].of = k
          PROVE  review'[q].synced <=> k \in synced'
      <4>1. CASE q = p
        <5>1. review'[q].of = j /\ review'[q].synced = (j \in synced)
          BY <3>1, <4>1
        <5> QED BY <2>1, <3>2, <5>1
      <4>2. CASE q # p
        BY <2>1, <3>1, <3>2, <4>2 DEF MarkInv, MarkKnown
      <4> QED BY <4>1, <4>2
    <3> QED BY <3>2 DEF MarkKnown
  <2>4. CASE review' = review \/ review' = [p \in Reviewers |-> Idle]
    BY <2>1, <2>2, <2>4 DEF MarkInv, MarkKnown
  <2>5. \/ review' = review \/ review' = [p \in Reviewers |-> Idle]
        \/ \E p \in Reviewers, j \in Results, v \in Verdicts : ReviewRead(p, j, v)
    BY <1>3
    DEF Next, Store, ReviewNext, PushNext, PushStart, PushDone, MesNext, Serve,
        PushTimesOut, PushFails, Restart, linkVars, vars
  <2>6. \A k \in Results \ raced' : MarkKnown(k)'
    BY <2>1, <2>3, <2>4, <2>5 DEF MarkInv, MarkKnown
  <2> QED BY <2>2, <2>6 DEF MarkInv
<1> QED BY <1>1, <1>2, <1>3

\* As long as the fake transport is not configured, the watchdog skips no row
\* the MES has not received, whatever requests fail, come late or are reviewed
\* meanwhile, unless two actors raced for it.
THEOREM SkippedIsReceived == Spec /\ [](transport # "fake") => []MarkedIsReceived
<1>1. MarkInv => MarkedIsReceived
  BY DEF MarkInv
<1> QED BY LinkInvHolds, MarkInitially, MarkStep, <1>1, PTL DEF Spec

-----------------------------------------------------------------------------
(* The refinement of MesMirror *)

\* Whatever is sent or reviewed is stored.
KnownInv ==
    /\ \A r \in Sent : r.of \in stored
    /\ \A p \in Reviewers : review[p] # Idle => review[p].of \in stored

LEMMA KnownInitially == Init => KnownInv
  BY DEF Init, OrdersInit, KnownInv, Sent

LEMMA KnownAlways == LinkInv /\ KnownInv /\ [Next]_vars => KnownInv'
<1> SUFFICES ASSUME LinkInv, KnownInv, [Next]_vars PROVE KnownInv'
  OBVIOUS
<1>1. stored \subseteq stored'
  BY DEF Next, Store, ReviewNext, ReviewRead, ReviewDone, PushNext, PushStart, PushDone, MesNext,
         Serve, PushTimesOut, PushFails, Restart, linkVars, vars
<1>2. \A r \in Sent' : r.of \in stored'
  <2>1. CASE \E k \in Results : PushStart(k)
    <3>1. PICK k \in Results : PushStart(k)
      BY <2>1
    <3>2. /\ wire' \subseteq wire \cup {[of |-> k, manual |-> manual[k], live |-> TRUE]}
          /\ intakes' = intakes /\ k \in stored
      BY <3>1 DEF PushStart
    <3> QED BY <1>1, <3>2 DEF KnownInv, Sent
  <2>2. CASE ~ \E k \in Results : PushStart(k)
    BY <1>1, <2>2, RequestsStay DEF KnownInv, MovesOn
  <2> QED BY <2>1, <2>2
<1>3. \A p \in Reviewers : review'[p] # Idle => review'[p].of \in stored'
  <2>0. review \in [Reviewers -> Reviews]
    BY DEF LinkInv, TypeOK
  <2>1. ASSUME NEW q \in Reviewers, NEW k \in Results, NEW v \in Verdicts, ReviewRead(q, k, v)
        PROVE  \A p \in Reviewers : review'[p] # Idle => review'[p].of \in stored'
    <3>1. k \in stored /\ review' = [review EXCEPT ![q] =
              [step |-> "read", of |-> k, new |-> v, old |-> manual[k], synced |-> k \in synced]]
      BY <2>1 DEF ReviewRead
    <3> QED BY <1>1, <2>0, <3>1 DEF KnownInv
  <2>2. ASSUME NEW q \in Reviewers, ReviewDone(q)
        PROVE  \A p \in Reviewers : review'[p] # Idle => review'[p].of \in stored'
    BY <1>1, <2>0, <2>2 DEF ReviewDone, KnownInv
  <2>3. CASE review' = review \/ review' = [p \in Reviewers |-> Idle]
    BY <1>1, <2>3 DEF KnownInv
  <2> QED
    BY <2>1, <2>2, <2>3
    DEF Next, Store, ReviewNext, PushNext, PushStart, PushDone, MesNext, Serve,
        PushTimesOut, PushFails, Restart, linkVars, vars
<1> QED BY <1>2, <1>3 DEF KnownInv

\* Row k takes a step of MesMirror, or none.
RowMoves(k) == RowOf(k)' = RowOf(k) \/ Mirror!Step(RowOf(k), RowOf(k)')

\* A row the step leaves alone.
LEMMA RowStays ==
    ASSUME NEW k \in Results,
           k \in raced' <=> k \in raced,
           UNCHANGED <<manual[k], records[k]>>,
           k \in stored' <=> k \in stored,
           k \in staged' <=> k \in staged,
           k \in staged => verdict'[k] = verdict[k],
           k \in consumed' <=> k \in consumed
    PROVE  RowMoves(k)
  BY DEF RowMoves, RowOf

\* A row somebody races for is given up, and remains so.
LEMMA RowGivenUp ==
    ASSUME NEW k \in Results, raced \subseteq raced', k \in raced'
    PROVE  RowMoves(k)
<1>1. RowOf(k)' = [at |-> "raced"]
  BY DEF RowOf
<1>2. CASE k \in raced
  BY <1>1, <1>2 DEF RowMoves, RowOf
<1>3. CASE k \notin raced
  <2>1. RowOf(k).at # "raced"
    BY <1>3 DEF RowOf
  <2> QED BY <1>1, <2>1 DEF RowMoves, Mirror!Step, Mirror!GiveUp, Mirror!Raced
<1> QED BY <1>2, <1>3

LEMMA StoreMoves ==
    ASSUME LinkInv, NEW k \in Results, Store(k)
    PROVE  \A j \in Results : RowMoves(j)
<1>1. /\ stored' = stored \cup {k} /\ k \notin stored
      /\ UNCHANGED <<manual, verdict, staged, consumed, records, raced>>
  BY DEF Store, mesVars
<1>2. ASSUME NEW j \in Results, j # k \/ k \in raced PROVE RowMoves(j)
  <2>1. CASE j # k
    BY <1>1, <2>1, RowStays
  <2>2. CASE j \in raced
    BY <1>1, <2>2, RowGivenUp
  <2> QED BY <1>2, <2>1, <2>2
<1>3. ASSUME k \notin raced PROVE RowMoves(k)
  <2>1. k \notin staged /\ k \notin consumed
    BY <1>1 DEF LinkInv, TypeOK
  <2>2. RowOf(k) = [at |-> "new", verdict |-> manual[k], offered |-> None, held |-> records[k]]
    BY <1>1, <1>3, <2>1 DEF RowOf
  <2>3. RowOf(k)' = [at |-> "stored", verdict |-> manual[k], offered |-> None, held |-> records[k]]
    BY <1>1, <1>3, <2>1 DEF RowOf
  <2> QED BY <2>2, <2>3 DEF RowMoves, Mirror!Step, Mirror!Store, Mirror!Row
<1> QED BY <1>2, <1>3

\* A review nobody interferes with gives the row another verdict, or none.
LEMMA ReviewMoves ==
    ASSUME LinkInv, KnownInv, AgreeInv, NEW p \in Reviewers, ReviewDone(p)
    PROVE  \A j \in Results : RowMoves(j)
<1>9. review[p].of \in Results /\ review[p].new \in Verdicts
  BY ReviewShape DEF ReviewDone, LinkInv, TypeOK
<1> PICK k \in Results : k = review[p].of
  BY <1>9
<1> PICK v \in Verdicts : v = review[p].new
  BY <1>9
<1>0. /\ review[p] # Idle /\ k \in stored
      /\ manual \in [Results -> Manual] /\ verdict \in [Results -> Manual]
      /\ consumed \subseteq staged
  BY DEF ReviewDone, LinkInv, TypeOK, KnownInv
<1>1. /\ UNCHANGED <<stored, staged, records>> /\ raced \subseteq raced'
      /\ raced' \subseteq raced \cup {k}
      /\ manual' = IF v # review[p].old THEN [manual EXCEPT ![k] = v] ELSE manual
      /\ verdict' = IF k \in staged /\ verdict[k] # v THEN [verdict EXCEPT ![k] = v] ELSE verdict
      /\ consumed' = IF k \in staged /\ verdict[k] # v THEN consumed \ {k} ELSE consumed
  BY DEF ReviewDone, mesVars
<1>2. ASSUME NEW j \in Results, j # k PROVE RowMoves(j)
  <2>1. /\ manual'[j] = manual[j] /\ verdict'[j] = verdict[j]
        /\ j \in consumed' <=> j \in consumed
        /\ j \in raced' <=> j \in raced
    BY <1>0, <1>1, <1>2
  <2> QED BY <1>1, <2>1, RowStays
<1>3. ASSUME k \notin raced' PROVE RowMoves(k)
  <2>1. k \notin raced /\ review[p].old = manual[k] /\ (k \in staged => verdict[k] = manual[k])
    BY <1>0, <1>1, <1>3 DEF AgreeInv, AgreesAt
  <2>2. manual'[k] = v
    BY <1>0, <1>1, <2>1
  <2>3. CASE v = manual[k]
    <3>1. UNCHANGED <<verdict, consumed>>
      BY <1>1, <2>1, <2>3
    <3> QED BY <1>0, <1>1, <1>3, <2>1, <2>2, <2>3, <3>1, RowStays
  <2>4. CASE v # manual[k] /\ k \notin staged
    <3>1. RowOf(k) = [at |-> "stored", verdict |-> manual[k], offered |-> None, held |-> records[k]]
      BY <1>0, <2>1, <2>4 DEF RowOf
    <3>2. RowOf(k)' = [at |-> "stored", verdict |-> v, offered |-> None, held |-> records[k]]
      BY <1>0, <1>1, <1>3, <2>2, <2>4 DEF RowOf
    <3> QED BY <1>0, <2>4, <3>1, <3>2 DEF RowMoves, Mirror!Step, Mirror!Review, Mirror!Row
  <2>5. CASE v # manual[k] /\ k \in staged
    <3>1. RowOf(k) = [at |-> IF k \in consumed THEN "counted" ELSE "staged",
                      verdict |-> manual[k], offered |-> manual[k], held |-> records[k]]
      BY <2>1, <2>5 DEF RowOf
    <3>2. verdict'[k] = v /\ k \notin consumed'
      BY <1>0, <1>1, <2>1, <2>5
    <3>3. RowOf(k)' = [at |-> "staged", verdict |-> v, offered |-> v, held |-> records[k]]
      BY <1>1, <1>3, <2>2, <2>5, <3>2 DEF RowOf
    <3> QED BY <1>0, <2>5, <3>1, <3>3 DEF RowMoves, Mirror!Step, Mirror!Review, Mirror!Row
  <2> QED BY <2>3, <2>4, <2>5
<1>4. ASSUME k \in raced' PROVE RowMoves(k)
  BY <1>0, <1>1, <1>4, RowGivenUp
<1> QED BY <1>2, <1>3, <1>4

\* The push stages a row, and counts it if the MES itself has answered.
LEMMA PushMoves ==
    ASSUME LinkInv, KnownInv, AgreeInv, PushDone
    PROVE  \A j \in Results : RowMoves(j)
<1>9. push.of \in Results
  BY PushShape DEF PushDone, LinkInv, TypeOK, Idle
<1> PICK k \in Results : k = push.of
  BY <1>9
<1>0. /\ k \in stored /\ Pushing(k) /\ push.step = "sent"
      /\ verdict \in [Results -> Manual] /\ consumed \subseteq staged
  BY PushShape DEF PushDone, LinkInv, TypeOK, PushedIsStored, Pushing, Idle
<1>1. /\ UNCHANGED <<stored, manual, records>> /\ raced \subseteq raced'
      /\ raced' \subseteq raced \cup {k}
      /\ staged' = staged \cup {k}
      /\ verdict' = IF k \in staged THEN verdict ELSE [verdict EXCEPT ![k] = push.manual]
      /\ consumed' = IF transport = "fake" THEN consumed ELSE consumed \cup {k}
  BY DEF PushDone, mesVars, StagedNow, ConsumedIfReal
<1>2. ASSUME NEW j \in Results, j # k PROVE RowMoves(j)
  <2>1. /\ verdict'[j] = verdict[j]
        /\ j \in staged' <=> j \in staged
        /\ j \in consumed' <=> j \in consumed
        /\ j \in raced' <=> j \in raced
    BY <1>0, <1>1, <1>2
  <2> QED BY <1>1, <2>1, RowStays
<1>3. ASSUME k \notin raced' PROVE RowMoves(k)
  <2>1. /\ k \notin raced /\ push.manual = manual[k]
        /\ transport # "fake" => records[k] = manual[k]
        /\ k \in staged => verdict[k] = manual[k]
    BY <1>0, <1>1, <1>3 DEF AgreeInv, AgreesAt
  <2>2. k \in staged' /\ verdict'[k] = manual[k]
    BY <1>0, <1>1, <2>1
  <2>3. CASE k \in consumed
    BY <1>0, <1>1, <1>3, <2>1, <2>2, <2>3, RowStays
  <2>4. CASE k \notin consumed /\ transport = "fake"
    <3>1. RowOf(k)' = [at |-> "staged", verdict |-> manual[k], offered |-> manual[k],
                       held |-> records[k]]
      BY <1>1, <1>3, <2>2, <2>4 DEF RowOf
    <3>2. CASE k \in staged
      BY <1>0, <1>1, <1>3, <2>1, <2>2, <2>4, <3>2, RowStays
    <3>3. CASE k \notin staged
      <4>1. RowOf(k) = [at |-> "stored", verdict |-> manual[k], offered |-> None, held |-> records[k]]
        BY <1>0, <2>1, <2>4, <3>3 DEF RowOf
      <4> QED BY <3>1, <4>1 DEF RowMoves, Mirror!Step, Mirror!Stage, Mirror!Row
    <3> QED BY <3>2, <3>3
  <2>5. CASE k \notin consumed /\ transport # "fake"
    <3>1. RowOf(k)' = [at |-> "counted", verdict |-> manual[k], offered |-> manual[k],
                       held |-> manual[k]]
      BY <1>1, <1>3, <2>1, <2>2, <2>5 DEF RowOf
    <3>2. RowOf(k).at \in {"stored", "staged"} /\ RowOf(k).verdict = manual[k]
          /\ RowOf(k).held = manual[k]
      BY <1>0, <2>1, <2>5 DEF RowOf
    <3> QED BY <3>1, <3>2 DEF RowMoves, Mirror!Step, Mirror!Count, Mirror!Row
  <2> QED BY <2>3, <2>4, <2>5
<1>4. ASSUME k \in raced' PROVE RowMoves(k)
  BY <1>0, <1>1, <1>4, RowGivenUp
<1> QED BY <1>2, <1>3, <1>4

\* What the MES is told of a row nobody raced for is the verdict of the row,
\* so a late request changes no row that counts.
LEMMA ServeMoves ==
    ASSUME LinkInv, KnownInv, AgreeInv, NEW i \in intakes, Serve(i)
    PROVE  \A j \in Results : RowMoves(j)
<1> SUFFICES ASSUME NEW k \in Results PROVE RowMoves(k)
  OBVIOUS
<1>0. i.of \in Results /\ i.of \in stored /\ i.manual \in Manual
  <2>1. i \in Sent
    BY DEF Sent
  <2> QED BY <2>1, UpsertedAt DEF LinkInv, KnownInv
<1>1. UNCHANGED <<stored, manual, staged, verdict, consumed, raced>> /\ records' = Upserted(i)
  BY DEF Serve, IntakeDone
<1>2. CASE k \in raced
  BY <1>1, <1>2, RowGivenUp
<1>3. CASE records'[k] = records[k]
  BY <1>1, <1>3, RowStays
<1>4. CASE k \notin raced /\ records'[k] # records[k]
  <2>1. k = i.of /\ records'[k] = i.manual
    BY <1>1, <1>4, UpsertedAt DEF LinkInv
  <2>2. i.manual = manual[k] /\ (k \in consumed => records[k] = manual[k])
    BY <1>4, <2>1 DEF AgreeInv, AgreesAt, Sent
  <2>3. k \notin consumed /\ k \in stored
    BY <1>0, <1>4, <2>1, <2>2
  <2> DEFINE at == IF k \in staged THEN "staged" ELSE "stored"
             o == IF k \in staged THEN verdict[k] ELSE None
  <2>4. RowOf(k) = [at |-> at, verdict |-> manual[k], offered |-> o, held |-> records[k]]
    BY <1>4, <2>3 DEF RowOf
  <2>5. RowOf(k)' = [at |-> at, verdict |-> manual[k], offered |-> o, held |-> i.manual]
    BY <1>1, <1>4, <2>1, <2>3 DEF RowOf
  <2>6. i.manual \in Mirror!Manual /\ at \in {"stored", "staged"}
    BY <1>0 DEF Manual, Mirror!Manual
  <2> HIDE DEF at, o
  <2> QED BY <2>4, <2>5, <2>6 DEF RowMoves, Mirror!Step, Mirror!Tell, Mirror!Row
<1> QED BY <1>2, <1>3, <1>4

\* All other steps change no copy of a verdict.
LEMMA RowsMove ==
    ASSUME LinkInv, KnownInv, AgreeInv, [Next]_vars
    PROVE  \A k \in Results : RowMoves(k)
<1>1. CASE \E k \in Results : Store(k)
  BY <1>1, StoreMoves
<1>2. CASE \E p \in Reviewers : ReviewDone(p)
  BY <1>2, ReviewMoves
<1>3. CASE PushDone
  BY <1>3, PushMoves
<1>4. CASE \E i \in intakes : Serve(i)
  BY <1>4, ServeMoves
<1>5. CASE UNCHANGED <<stored, manual, staged, verdict, consumed, raced, records>>
  BY <1>5, RowStays
<1>6. \/ \E k \in Results : Store(k)
      \/ \E p \in Reviewers : ReviewDone(p)
      \/ PushDone
      \/ \E i \in intakes : Serve(i)
      \/ UNCHANGED <<stored, manual, staged, verdict, consumed, raced>>
  BY DEF Next, ReviewNext, ReviewRead, PushNext, PushStart, MesNext,
         PushTimesOut, PushFails, Restart, vars, linkVars
<1>7. records' = records \/ \E i \in intakes : Serve(i)
  BY RecordsStay
<1> QED BY <1>1, <1>2, <1>3, <1>4, <1>5, <1>6, <1>7

\* What MesMirror sees of a row is a row of MesMirror.
RowsTyped == \A k \in Results : RowOf(k) \in Mirror!Rows

LEMMA RowTypes == TypeOK => RowsTyped
<1> SUFFICES ASSUME TypeOK, NEW k \in Results PROVE RowOf(k) \in Mirror!Rows
  BY DEF RowsTyped
<1>1. /\ manual[k] \in Manual /\ verdict[k] \in Manual /\ None \in Manual
      /\ records[k] \in Manual \cup {NoRecord}
  BY DEF TypeOK, OrdersTypeOK, Manual
<1>2. Mirror!Manual = Manual
  BY DEF Mirror!Manual, Manual
<1> QED BY <1>1, <1>2 DEF RowOf, Mirror!Rows, Mirror!Raced

\* For every number of rows, reviewers, timeouts and restarts the link by REST
\* implements MesMirror too: a request that is served long after it was given
\* up changes no row that counts and that nobody raced for.
THEOREM RestRefinesMirror == Spec => MirrorSpec
<1>1. Init => Mirror!Init
  BY DEF Init, OrdersInit, Mirror!Init, Mirror!New, Mirror!Row, RowOf
<1>2. LinkInv /\ KnownInv /\ AgreeInv /\ RowsTyped' /\ [Next]_vars => Mirror!Next
  <2> SUFFICES ASSUME LinkInv, KnownInv, AgreeInv, RowsTyped', [Next]_vars PROVE Mirror!Next
    OBVIOUS
  <2>1. \A k \in Results : RowMoves(k)
    BY RowsMove
  <2> QED BY <2>1 DEF Mirror!Next, RowMoves, RowsTyped
<1>3. LinkInv => RowsTyped
  BY RowTypes DEF LinkInv
<1>4. Spec => [](LinkInv /\ KnownInv /\ AgreeInv)
  BY LinkInvHolds, KnownInitially, KnownAlways, AgreeInitially, AgreeStep, PTL DEF Spec
<1> QED BY <1>1, <1>2, <1>3, <1>4, PTL DEF Spec, MirrorSpec, Mirror!Spec

-----------------------------------------------------------------------------
(* Work orders *)

\* What transactions know of work order o is true as long as none has
\* changed it while another was about it.
KnownAt(o) ==
    /\ orders[o].finished <=> orders[o].status \in Closed
    /\ \A i \in intakes : o \in i.planned => orders[o].status = "PLANNED"
    /\ \A c \in Clerks : clerk[c].step \in {"created", "counted"} /\ clerk[c].order = o =>
           orders[o].status = "PLANNED"
    /\ \A c \in Clerks : clerk[c].step = "patch" /\ clerk[c].order = o =>
           clerk[c].old = orders[o]

OrderInv ==
    /\ \A o \in Orders \ overlapped : KnownAt(o)
    /\ \A i \in intakes : \A o \in i.planned : Starts(i.of, o)
    /\ \A c \in Clerks : clerk[c].step = "patch" => clerk[c].old.status # "none"

\* The orders, as the steps see them.
LEMMA OrderSteps ==
    ASSUME LinkInv, [Next]_vars
    PROVE  \/ UNCHANGED <<orders, clerk, overlapped, byHand, records>>
           \/ \E i \in intakes : Serve(i)
           \/ ClerkNext /\ UNCHANGED <<wire, intakes, records>>
<1>1. CASE ClerkNext
  BY <1>1 DEF ClerkNext, CreateOrder, PatchRead, CountRecords, StartCreated, PatchDone
<1>2. CASE ~ClerkNext
  BY <1>2
  DEF Next, Store, ReviewNext, ReviewRead, ReviewDone, PushNext, PushStart, PushDone, MesNext,
      IntakeRead, IntakeFails, PushTimesOut, PushFails, RequestLost, Restart, vars, mesVars
<1> QED BY <1>1, <1>2

LEMMA OrderInitially == Init => OrderInv
  BY DEF Init, OrdersInit, OrderInv, KnownAt, Away

LEMMA StartedAt ==
    ASSUME TypeOK, NEW i \in intakes, NEW o \in Orders
    PROVE  /\ o \notin i.planned => StartPlanned(i)[o] = orders[o]
           /\ o \in i.planned =>
                  /\ StartPlanned(i)[o].status = "RUNNING"
                  /\ StartPlanned(i)[o].finished = orders[o].finished
<1>1. orders[o] \in WorkOrders
  BY DEF TypeOK, OrdersTypeOK
<1> QED BY <1>1 DEF StartPlanned, WorkOrders

\* What is planned belongs to the result; a patch is of an order there is.
LEMMA KnownStep == LinkInv /\ OrderInv /\ [Next]_vars =>
    /\ \A i \in intakes' : \A o \in i.planned : Starts(i.of, o)
    /\ \A c \in Clerks : clerk'[c].step = "patch" => clerk'[c].old.status # "none"
<1> SUFFICES ASSUME LinkInv, OrderInv, [Next]_vars
             PROVE  /\ \A i \in intakes' : \A o \in i.planned : Starts(i.of, o)
                    /\ \A c \in Clerks : clerk'[c].step = "patch" => clerk'[c].old.status # "none"
  OBVIOUS
<1>1. \A i \in intakes' : \A o \in i.planned : Starts(i.of, o)
  <2>1. CASE \E k \in Results : PushStart(k)
    BY <2>1 DEF PushStart, OrderInv
  <2>2. CASE ~ \E k \in Results : PushStart(k)
    <3> SUFFICES ASSUME NEW s \in intakes', NEW o \in s.planned PROVE Starts(s.of, o)
      OBVIOUS
    <3>1. CASE \E i \in intakes : s.of = i.of /\ s.planned = i.planned
      BY <3>1 DEF OrderInv, Starts
    <3>2. CASE \E r \in wire : s.of = r.of /\ s.planned = PlannedFor(r.of)
      BY <3>2 DEF PlannedFor, Starts
    <3> QED BY <2>2, <3>1, <3>2, RequestsStay DEF MovesOn
  <2> QED BY <2>1, <2>2
<1>2. ASSUME NEW c \in Clerks, clerk'[c].step = "patch" PROVE clerk'[c].old.status # "none"
  <2>0. clerk \in [Clerks -> ClerkStates]
    BY DEF LinkInv, TypeOK, OrdersTypeOK
  <2>1. CASE clerk'[c] = clerk[c]
    BY <1>2, <2>1 DEF OrderInv
  <2>2. ASSUME NEW d \in Clerks, NEW o \in Orders, NEW t \in Statuses, PatchRead(d, o, t), c = d
        PROVE  clerk'[c].old.status # "none"
    BY <2>0, <2>2 DEF PatchRead
  <2>3. CASE ClerkNext /\ ~ \E o \in Orders, t \in Statuses : PatchRead(c, o, t)
    BY <1>2, <2>0, <2>1, <2>3, AwayIsIdle
    DEF ClerkNext, CreateOrder, PatchRead, CountRecords, StartCreated, PatchDone
  <2>4. CASE ~ClerkNext
    <3>1. clerk' = clerk
      BY <2>4, OrderSteps DEF Serve, IntakeDone
    <3> QED BY <2>1, <3>1
  <2> QED BY <2>2, <2>3, <2>4
<1> QED BY <1>1, <1>2

LEMMA OrderStep == LinkInv /\ OrderInv /\ [Next]_vars => OrderInv'
<1> SUFFICES ASSUME LinkInv, OrderInv, [Next]_vars, NEW o \in Orders \ overlapped'
             PROVE  KnownAt(o)'
  BY KnownStep DEF OrderInv
<1>0. /\ TypeOK /\ orders \in [Orders -> WorkOrders] /\ clerk \in [Clerks -> ClerkStates]
      /\ intakes \in SUBSET Intakes
  BY DEF LinkInv, TypeOK, OrdersTypeOK
<1>1. overlapped \subseteq overlapped' /\ KnownAt(o)
  <2>1. overlapped \subseteq overlapped'
    BY OrderSteps
    DEF Serve, IntakeDone, ClerkNext, CreateOrder, PatchRead, CountRecords, StartCreated, PatchDone
  <2> QED BY <2>1 DEF OrderInv
<1>2. CASE UNCHANGED <<orders, clerk, overlapped, byHand, records>>
  <2>1. \A i \in intakes' : o \in i.planned => orders[o].status = "PLANNED"
    <3>1. CASE \E k \in Results : PushStart(k)
      BY <1>1, <3>1 DEF PushStart, KnownAt
    <3>2. CASE ~ \E k \in Results : PushStart(k)
      BY <1>1, <3>2, RequestsStay DEF MovesOn, KnownAt, PlannedFor
    <3> QED BY <3>1, <3>2
  <2> QED BY <1>1, <1>2, <2>1 DEF KnownAt
<1>3. ASSUME NEW i \in intakes, Serve(i) PROVE KnownAt(o)'
  <2>1. orders' = StartPlanned(i) /\ intakes' = intakes \ {i} /\ clerk' = clerk
    BY <1>3 DEF Serve, IntakeDone
  <2>2. CASE ~Starts(i.of, o)
    <3>1. orders'[o] = orders[o]
      BY <1>0, <2>1, <2>2, StartedAt DEF OrderInv
    <3> QED BY <1>1, <2>1, <3>1 DEF KnownAt
  <2>3. CASE Starts(i.of, o)
    <3>1. ClerksAt(o) = {} /\ IntakesAt(o) \ {i} = {}
      BY <1>3, <2>3 DEF Serve, IntakeDone
    <3>2. \A j \in intakes \ {i} : o \notin j.planned
      BY <3>1 DEF IntakesAt, OrderInv
    <3>3. orders'[o].finished <=> orders'[o].status \in Closed
      BY <1>0, <1>1, <2>1, StartedAt DEF KnownAt
    <3> QED BY <2>1, <3>1, <3>2, <3>3, <1>0, ClerkShape DEF KnownAt, ClerksAt
  <2> QED BY <2>2, <2>3
<1>4. ASSUME UNCHANGED <<wire, intakes, records>>, NEW c \in Clerks, NEW p \in Orders,
             CreateOrder(c, p)
      PROVE  KnownAt(o)'
  <2>1. /\ orders' = [orders EXCEPT ![p].status = "PLANNED"]
        /\ clerk' = [clerk EXCEPT ![c] = [step |-> "created", order |-> p]]
        /\ orders[p].status = "none" /\ clerk[c] = Away
    BY <1>4 DEF CreateOrder
  <2>2. CASE o # p
    BY <1>0, <1>1, <1>4, <2>1, <2>2 DEF KnownAt
  <2>3. CASE o = p
    <3>1. ~ \E i \in intakes : o \in i.planned
      BY <1>1, <2>1, <2>3 DEF KnownAt
    <3>2. ~ \E d \in Clerks : clerk[d].step # "idle" /\ clerk[d].order = o
      BY <1>0, <1>1, <2>1, <2>3, ClerkShape DEF KnownAt, OrderInv
    <3>3. orders'[o].status = "PLANNED" /\ orders'[o].finished = orders[o].finished
      BY <1>0, <2>1, <2>3 DEF WorkOrders
    <3>4. ~orders[o].finished
      BY <1>0, <1>1, <2>1, <2>3 DEF KnownAt
    <3> QED BY <1>0, <1>4, <2>1, <2>3, <3>1, <3>2, <3>3, <3>4 DEF KnownAt
  <2> QED BY <2>2, <2>3
<1>5. ASSUME UNCHANGED <<wire, intakes, records>>, NEW c \in Clerks,
             NEW p \in Orders, NEW t \in Statuses, PatchRead(c, p, t)
      PROVE  KnownAt(o)'
  <2>1. /\ orders' = orders
        /\ clerk' = [clerk EXCEPT ![c] = [step |-> "patch", order |-> p, new |-> t, old |-> orders[p]]]
    BY <1>5 DEF PatchRead
  <2> QED BY <1>0, <1>1, <1>5, <2>1 DEF KnownAt
<1>6. ASSUME UNCHANGED <<wire, intakes, records>>, NEW c \in Clerks, CountRecords(c)
      PROVE  KnownAt(o)'
  <2>1. /\ orders' = orders /\ clerk[c].step = "created"
        /\ \/ clerk' = [clerk EXCEPT ![c] = [step |-> "counted", order |-> clerk[c].order]]
           \/ clerk' = [clerk EXCEPT ![c] = Away]
    BY <1>6 DEF CountRecords
  <2> QED BY <1>0, <1>1, <1>6, <2>1, AwayIsIdle DEF KnownAt
<1>7. ASSUME UNCHANGED <<wire, intakes, records>>, NEW c \in Clerks, StartCreated(c) \/ PatchDone(c)
      PROVE  KnownAt(o)'
  <2> DEFINE p == clerk[c].order
  <2>0. clerk[c].step \in {"counted", "patch"} /\ p \in Orders /\ clerk' = [clerk EXCEPT ![c] = Away]
    BY <1>0, <1>7, ClerkShape DEF StartCreated, PatchDone
  <2>1. \A d \in Clerks : clerk'[d].step # "idle" => clerk'[d] = clerk[d] /\ d # c
    BY <1>0, <2>0, AwayIsIdle
  <2>2. CASE o # p
    <3>1. orders'[o] = orders[o]
      BY <1>0, <1>7, <2>0, <2>2 DEF StartCreated, PatchDone
    <3> QED BY <1>1, <1>7, <2>1, <3>1 DEF KnownAt
  <2>3. CASE o = p
    <3>1. IntakesAt(o) = {} /\ ClerksAt(o) = {c}
      BY <1>7, <2>3 DEF StartCreated, PatchDone
    <3>2. ~ \E i \in intakes : o \in i.planned
      BY <3>1 DEF IntakesAt, OrderInv
    <3>3. ~ \E d \in Clerks : clerk'[d].step # "idle" /\ clerk'[d].order = o
      BY <2>1, <3>1 DEF ClerksAt
    <3>4. orders'[o].finished <=> orders'[o].status \in Closed
      <4>1. orders[o] \in WorkOrders
        BY <1>0
      <4>2. CASE StartCreated(c)
        <5>1. orders[o].status = "PLANNED" /\ ~orders[o].finished
          BY <1>1, <2>0, <2>3, <4>2 DEF KnownAt, StartCreated
        <5>2. orders'[o].status = "RUNNING" /\ orders'[o].finished = orders[o].finished
          BY <1>0, <2>0, <2>3, <4>1, <4>2 DEF StartCreated, WorkOrders
        <5> QED BY <5>1, <5>2
      <4>3. CASE PatchDone(c)
        <5>1. clerk[c].old = orders[o]
          BY <1>1, <2>0, <2>3, <4>3 DEF KnownAt, PatchDone
        <5>2. orders'[o] = Patched(orders[o], orders[o], clerk[c].new)
          BY <1>0, <2>0, <2>3, <4>3, <5>1 DEF PatchDone
        <5> QED BY <4>1, <5>2 DEF Patched, WorkOrders
      <4> QED BY <1>7, <4>2, <4>3
    <3> QED BY <1>7, <3>2, <3>3, <3>4 DEF KnownAt
  <2> QED BY <2>2, <2>3
<1> QED BY <1>2, <1>3, <1>4, <1>5, <1>6, <1>7, OrderSteps DEF ClerkNext

LEMMA OrderInvHolds == Spec => []OrderInv
  BY LinkInvHolds, OrderInitially, OrderStep, PTL DEF Spec

\* For every number of work orders, clerks and results: a closed work order,
\* and no other, has its time of completion, and no late result reopens it.
THEOREM ClosedStaysClosed == Spec => []ClosedHasEnd
<1>1. OrderInv => ClosedHasEnd
  BY DEF OrderInv, KnownAt, ClosedHasEnd
<1> QED BY <1>1, OrderInvHolds, PTL

\* An intake under way will start the order, and nobody who leaves the order
\* planned has results for it.
PlannedAt(o) ==
    orders[o].status = "PLANNED" =>
        /\ \A i \in intakes : Starts(i.of, o) => o \in i.planned
        /\ ClerksAt(o) = {} => ~ \E k \in Results : records[k] # NoRecord /\ CountsFor(k, o)

PlannedInv == \A o \in Orders \ (byHand \cup overlapped) : PlannedAt(o)

LEMMA PlannedInitially == Init => PlannedInv
  BY DEF Init, OrdersInit, PlannedInv, PlannedAt

LEMMA PlannedStep == LinkInv /\ OrderInv /\ PlannedInv /\ [Next]_vars => PlannedInv'
<1> SUFFICES ASSUME LinkInv, OrderInv, PlannedInv, [Next]_vars,
                    NEW o \in Orders \ (byHand' \cup overlapped'), orders'[o].status = "PLANNED"
             PROVE  PlannedAt(o)'
  BY DEF PlannedInv, PlannedAt
<1>0. /\ TypeOK /\ orders \in [Orders -> WorkOrders] /\ clerk \in [Clerks -> ClerkStates]
      /\ intakes \in SUBSET Intakes /\ wire \in SUBSET Requests
  BY DEF LinkInv, TypeOK, OrdersTypeOK
<1>1. PlannedAt(o) /\ KnownAt(o)
  <2>1. byHand \cup overlapped \subseteq byHand' \cup overlapped'
    BY OrderSteps
    DEF Serve, IntakeDone, ClerkNext, CreateOrder, PatchRead, CountRecords, StartCreated, PatchDone
  <2> QED BY <2>1 DEF PlannedInv, OrderInv
<1>2. CASE UNCHANGED <<orders, clerk, overlapped, byHand, records>>
  <2>1. \A i \in intakes' : Starts(i.of, o) => o \in i.planned
    <3>1. CASE \E k \in Results : PushStart(k)
      BY <1>1, <1>2, <3>1 DEF PushStart, PlannedAt
    <3>2. ASSUME ~ \E k \in Results : PushStart(k), NEW s \in intakes', Starts(s.of, o)
          PROVE  o \in s.planned
      <4>1. CASE \E i \in intakes : s.of = i.of /\ s.planned = i.planned
        BY <1>1, <1>2, <3>2, <4>1 DEF PlannedAt
      <4>2. CASE \E r \in wire : s.of = r.of /\ s.planned = PlannedFor(r.of)
        BY <1>2, <3>2, <4>2 DEF PlannedFor
      <4> QED BY <3>2, <4>1, <4>2, RequestsStay DEF MovesOn
    <3> QED BY <3>1, <3>2
  <2> QED BY <1>1, <1>2, <2>1 DEF PlannedAt, ClerksAt
<1>3. ASSUME NEW i \in intakes, Serve(i) PROVE PlannedAt(o)'
  <2>1. orders' = StartPlanned(i) /\ intakes' = intakes \ {i} /\ clerk' = clerk
        /\ records' = Upserted(i)
    BY <1>3 DEF Serve, IntakeDone
  <2>2. o \notin i.planned /\ orders[o].status = "PLANNED"
    BY <1>0, <2>1, StartedAt
  <2>3. ~Starts(i.of, o)
    BY <1>1, <2>2 DEF PlannedAt
  <2>4. \A k \in Results : CountsFor(k, o) /\ records'[k] # NoRecord => records[k] # NoRecord
    <3> SUFFICES ASSUME NEW k \in Results, CountsFor(k, o) PROVE records'[k] = records[k]
      OBVIOUS
    <3>1. k # i.of
      BY <2>3 DEF CountsFor, Starts
    <3> QED BY <1>0, <2>1, <3>1, UpsertedAt
  <2> QED BY <1>1, <2>1, <2>2, <2>4 DEF PlannedAt, ClerksAt
<1>4. ASSUME UNCHANGED <<wire, intakes, records>>, NEW c \in Clerks, NEW p \in Orders,
             CreateOrder(c, p)
      PROVE  PlannedAt(o)'
  <2>1. /\ orders' = [orders EXCEPT ![p].status = "PLANNED"]
        /\ clerk' = [clerk EXCEPT ![c] = [step |-> "created", order |-> p]]
        /\ clerk[c] = Away
        /\ overlapped' = IF IntakesAt(p) # {} THEN overlapped \cup {p} ELSE overlapped
    BY <1>4 DEF CreateOrder
  <2>2. CASE o = p
    <3>1. IntakesAt(o) = {}
      BY <2>1, <2>2
    <3>2. c \in ClerksAt(o)'
      BY <1>0, <2>1, <2>2 DEF ClerksAt
    <3> QED BY <1>4, <3>1, <3>2 DEF PlannedAt, IntakesAt
  <2>3. CASE o # p
    <3>1. orders'[o] = orders[o]
      BY <1>0, <2>1, <2>3
    <3>2. ClerksAt(o)' = ClerksAt(o)
      BY <1>0, <2>1, <2>3, AwayIsIdle DEF ClerksAt
    <3> QED BY <1>1, <1>4, <3>1, <3>2 DEF PlannedAt
  <2> QED BY <2>2, <2>3
<1>5. ASSUME UNCHANGED <<wire, intakes, records>>, NEW c \in Clerks,
             NEW p \in Orders, NEW t \in Statuses, PatchRead(c, p, t)
      PROVE  PlannedAt(o)'
  <2>1. /\ orders' = orders /\ clerk[c] = Away
        /\ clerk' = [clerk EXCEPT ![c] = [step |-> "patch", order |-> p, new |-> t, old |-> orders[p]]]
    BY <1>5 DEF PatchRead
  <2>2. ClerksAt(o) \subseteq ClerksAt(o)'
    BY <1>0, <2>1, AwayIsIdle DEF ClerksAt
  <2> QED BY <1>1, <1>5, <2>1, <2>2 DEF PlannedAt
<1>6. ASSUME UNCHANGED <<wire, intakes, records>>, NEW c \in Clerks, CountRecords(c)
      PROVE  PlannedAt(o)'
  <2> DEFINE p == clerk[c].order
  <2>1. orders' = orders
    BY <1>6 DEF CountRecords
  <2>2. CASE o # p
    <3>1. ClerksAt(o)' = ClerksAt(o)
      BY <1>0, <1>6, <2>2, AwayIsIdle DEF ClerksAt, CountRecords
    <3> QED BY <1>1, <1>6, <2>1, <3>1 DEF PlannedAt
  <2>3. CASE o = p
    <3>1. CASE \E k \in Results : records[k] # NoRecord /\ CountsFor(k, o)
      <4>1. clerk' = [clerk EXCEPT ![c] = [step |-> "counted", order |-> p]]
        BY <1>6, <2>3, <3>1 DEF CountRecords
      <4>2. c \in ClerksAt(o)'
        BY <1>0, <2>3, <4>1 DEF ClerksAt
      <4> QED BY <1>1, <1>6, <2>1, <4>2 DEF PlannedAt
    <3>2. CASE ~ \E k \in Results : records[k] # NoRecord /\ CountsFor(k, o)
      BY <1>1, <1>6, <2>1, <3>2 DEF PlannedAt, CountsFor
    <3> QED BY <3>1, <3>2
  <2> QED BY <2>2, <2>3
<1>7. ASSUME UNCHANGED <<wire, intakes, records>>, NEW c \in Clerks, StartCreated(c) \/ PatchDone(c)
      PROVE  PlannedAt(o)'
  <2> DEFINE p == clerk[c].order
  <2>0. clerk[c].step \in {"counted", "patch"} /\ p \in Orders /\ clerk' = [clerk EXCEPT ![c] = Away]
    BY <1>0, <1>7, ClerkShape DEF StartCreated, PatchDone
  <2>1. o # p
    <3>1. CASE StartCreated(c)
      <4>1. orders'[p].status = "RUNNING"
        BY <1>0, <2>0, <3>1 DEF StartCreated, WorkOrders
      <4> QED BY <4>1
    <3>2. CASE PatchDone(c)
      BY <3>2 DEF PatchDone
    <3> QED BY <1>7, <3>1, <3>2
  <2>2. orders'[o] = orders[o]
    BY <1>0, <1>7, <2>0, <2>1 DEF StartCreated, PatchDone
  <2>3. ClerksAt(o)' = ClerksAt(o)
    BY <1>0, <2>0, <2>1, AwayIsIdle DEF ClerksAt
  <2> QED BY <1>1, <1>7, <2>2, <2>3 DEF PlannedAt
<1> QED BY <1>2, <1>3, <1>4, <1>5, <1>6, <1>7, OrderSteps DEF ClerkNext

\* Whether it was created before its results or after them, a work order with
\* results is not left planned, unless an intake and a clerk were at it together.
THEOREM WorkIsStarted == Spec => []PlannedHasNoRecord
<1>1. Spec => []PlannedInv
  BY LinkInvHolds, OrderInvHolds, PlannedInitially, PlannedStep, PTL DEF Spec
<1>2. PlannedInv => PlannedHasNoRecord
  BY DEF PlannedInv, PlannedAt, PlannedHasNoRecord
<1> QED BY <1>1, <1>2, PTL
=============================================================================
