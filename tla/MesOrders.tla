------------------------------- MODULE MesOrders -------------------------------
(***************************************************************************)
(* The MES service behind POST /intake/quality: quality records and the    *)
(* work orders they set going (services/mes/mes_app/intake.py,             *)
(* routers/intake.py, routers/orders.py, production.py).                   *)
(*                                                                         *)
(* Requests wait in "wire"; each is served by a transaction of its own     *)
(* that reads the record and the planned work orders first and commits     *)
(* later.  Persons create work orders and change their status meanwhile.   *)
(* All run under READ COMMITTED; SQLAlchemy writes the columns whose value *)
(* differs from the one it has read.                                       *)
(*                                                                         *)
(* Of a record only the manual verdict changes here; of the time stamps    *)
(* of a work order, whether they are set.                                  *)
(***************************************************************************)
EXTENDS Naturals, FiniteSets

CONSTANTS
    Results,        \* inspection rows of AIVIS; each is one idem_key
    Verdicts,       \* OK, NG
    None,           \* no manual verdict, no work-order number
    NoRecord,       \* nothing in quality_record
    Orders,         \* numbers of work orders
    Closed,         \* DONE and CANCELLED, which nothing here tells apart
    Clerks,         \* order calls (POST, PATCH /work-orders) at a time
    LotOf,          \* the lot of each result and of each work order
    NumberOf        \* the work-order number each result carries, or None

ASSUME OrderAssumption ==
    /\ None \notin Verdicts \cup Orders
    /\ Closed \cap {"none", "PLANNED", "RUNNING"} = {}
    /\ NoRecord \notin Verdicts \cup {None}
    /\ NumberOf \in [Results -> Orders \cup {None}]

VARIABLES
    records,    \* quality_record.manual_verdict of each result
    orders,     \* work_order: status, started_at, finished_at
    wire,       \* requests on their way to the MES
    intakes,    \* intake transactions that have read and not committed
    clerk,      \* what each order call has read
    byHand,     \* history: orders whose status a person has set
    overlapped  \* history: orders two transactions changed at the same time

mesVars == <<records, orders, wire, intakes, clerk, byHand, overlapped>>

Manual == Verdicts \cup {None}
Statuses == {"PLANNED", "RUNNING"} \cup Closed

\* "live": the sender still waits for the answer.
Requests == [of : Results, manual : Manual, live : BOOLEAN]
Intakes == [of : Results, manual : Manual, live : BOOLEAN,
            found : Manual \cup {NoRecord}, planned : SUBSET Orders]
WorkOrders == [status : Statuses \cup {"none"}, started : BOOLEAN, finished : BOOLEAN]

Away == [step |-> "idle"]
ClerkStates ==
    {Away}
    \cup [step : {"created"}, order : Orders]
    \cup [step : {"counted"}, order : Orders]
    \cup [step : {"patch"}, order : Orders, new : Statuses, old : WorkOrders]

OrdersTypeOK ==
    /\ records \in [Results -> Manual \cup {NoRecord}]
    /\ orders \in [Orders -> WorkOrders]
    /\ wire \in SUBSET Requests
    /\ intakes \in SUBSET Intakes
    /\ clerk \in [Clerks -> ClerkStates]
    /\ byHand \in SUBSET Orders
    /\ overlapped \in SUBSET Orders

OrdersInit ==
    /\ records = [k \in Results |-> NoRecord]
    /\ orders = [o \in Orders |-> [status |-> "none", started |-> FALSE, finished |-> FALSE]]
    /\ wire = {} /\ intakes = {}
    /\ clerk = [c \in Clerks |-> Away]
    /\ byHand = {} /\ overlapped = {}

\* autostart_work_orders: of the lot, or named by the result.
Starts(k, o) == LotOf[k] = LotOf[o] \/ NumberOf[k] = o

\* records_for: named by the result; without a number the lot decides.
CountsFor(k, o) == NumberOf[k] = o \/ (NumberOf[k] = None /\ LotOf[k] = LotOf[o])

PlannedFor(k) == {o \in Orders : orders[o].status = "PLANNED" /\ Starts(k, o)}

\* Order calls, then intakes, that have read an order and will write it.
ClerksAt(o) == {c \in Clerks : clerk[c].step # "idle" /\ clerk[c].order = o}
IntakesAt(o) == {i \in intakes : Starts(i.of, o)}

-----------------------------------------------------------------------------
(* POST /intake/quality *)

IntakeRead(r) ==
    /\ r \in wire
    /\ wire' = wire \ {r}
    /\ intakes' = intakes \cup
           {[of |-> r.of, manual |-> r.manual, live |-> r.live,
             found |-> records[r.of], planned |-> PlannedFor(r.of)]}
    /\ UNCHANGED <<records, orders, clerk, byHand, overlapped>>

\* Faulty variant: any work order of the lot is set going again.
StartEvery(i) == [o \in Orders |->
    IF Starts(i.of, o) /\ orders[o].status # "none"
    THEN [orders[o] EXCEPT !.status = "RUNNING", !.started = TRUE] ELSE orders[o]]

\* autostart_work_orders: the planned ones it has read.
StartPlanned(i) == [o \in Orders |->
    IF o \in i.planned
    THEN [orders[o] EXCEPT !.status = "RUNNING", !.started = TRUE] ELSE orders[o]]

\* Faulty variant: a key that is already there is ignored.
UpsertedOnce(i) ==
    IF i.found # NoRecord THEN records ELSE [records EXCEPT ![i.of] = i.manual]

\* upsert_record: a new record, also when another request was first (the
\* refused INSERT is tried again as an update); else the changed column.
Upserted(i) ==
    IF i.found = i.manual THEN records ELSE [records EXCEPT ![i.of] = i.manual]

IntakeDone(i) ==
    /\ i \in intakes
    /\ records' = Upserted(i)
    /\ orders' = StartPlanned(i)
    /\ intakes' = intakes \ {i}
    /\ overlapped' = overlapped \cup
           {o \in Orders : Starts(i.of, o) /\
                (ClerksAt(o) # {} \/ IntakesAt(o) \ {i} # {})}
    /\ UNCHANGED <<wire, clerk, byHand>>

\* A database error: rolled back, answered 500.
IntakeFails(i) ==
    /\ i \in intakes
    /\ intakes' = intakes \ {i}
    /\ UNCHANGED <<records, orders, wire, clerk, byHand, overlapped>>

\* A request nobody waits for any more does not arrive.
RequestLost(r) ==
    /\ r \in wire /\ ~r.live
    /\ wire' = wire \ {r}
    /\ UNCHANGED <<records, orders, intakes, clerk, byHand, overlapped>>

-----------------------------------------------------------------------------
(* POST and PATCH /work-orders *)

\* The first commit of create_work_order.
CreateOrder(c, o) ==
    /\ clerk[c] = Away
    /\ orders[o].status = "none"
    /\ orders' = [orders EXCEPT ![o].status = "PLANNED"]
    /\ clerk' = [clerk EXCEPT ![c] = [step |-> "created", order |-> o]]
    /\ overlapped' = IF IntakesAt(o) # {} THEN overlapped \cup {o} ELSE overlapped
    /\ UNCHANGED <<records, wire, intakes, byHand>>

\* summarize(records_for(...)): results that came before the work order.
CountRecords(c) ==
    /\ clerk[c].step = "created"
    /\ LET o == clerk[c].order
           some == \E k \in Results : records[k] # NoRecord /\ CountsFor(k, o)
       IN  clerk' = [clerk EXCEPT ![c] =
               IF some THEN [step |-> "counted", order |-> o] ELSE Away]
    /\ UNCHANGED <<records, orders, wire, intakes, byHand, overlapped>>

\* Faulty variant: the second commit is left out.
StartCreatedNever(c) ==
    /\ clerk[c].step = "counted"
    /\ clerk' = [clerk EXCEPT ![c] = Away]
    /\ UNCHANGED <<records, orders, wire, intakes, byHand, overlapped>>

\* The second commit.
StartCreated(c) ==
    /\ clerk[c].step = "counted"
    /\ LET o == clerk[c].order IN
       /\ orders' = [orders EXCEPT ![o].status = "RUNNING", ![o].started = TRUE]
       /\ overlapped' = IF IntakesAt(o) # {} \/ ClerksAt(o) # {c}
                        THEN overlapped \cup {o} ELSE overlapped
    /\ clerk' = [clerk EXCEPT ![c] = Away]
    /\ UNCHANGED <<records, wire, intakes, byHand>>

PatchRead(c, o, new) ==
    /\ clerk[c] = Away
    /\ orders[o].status \notin {"none", new}
    /\ clerk' = [clerk EXCEPT ![c] =
           [step |-> "patch", order |-> o, new |-> new, old |-> orders[o]]]
    /\ UNCHANGED <<records, orders, wire, intakes, byHand, overlapped>>

\* The columns patch_work_order changes from what it has read.
Patched(now, old, new) ==
    [status |-> new,
     started |-> now.started \/ (new = "RUNNING" /\ ~old.started),
     finished |-> IF new \in Closed THEN TRUE
                  ELSE IF old.finished THEN FALSE ELSE now.finished]

PatchDone(c) ==
    /\ clerk[c].step = "patch"
    /\ LET o == clerk[c].order IN
       /\ orders' = [orders EXCEPT ![o] = Patched(@, clerk[c].old, clerk[c].new)]
       /\ byHand' = byHand \cup {o}
       /\ overlapped' = IF IntakesAt(o) # {} \/ ClerksAt(o) # {c}
                        THEN overlapped \cup {o} ELSE overlapped
    /\ clerk' = [clerk EXCEPT ![c] = Away]
    /\ UNCHANGED <<records, wire, intakes>>

ClerkNext ==
    \E c \in Clerks :
        \/ \E o \in Orders : CreateOrder(c, o) \/ \E s \in Statuses : PatchRead(c, o, s)
        \/ CountRecords(c) \/ StartCreated(c) \/ PatchDone(c)

-----------------------------------------------------------------------------
(* Properties *)

\* A work order nobody has touched by hand is not shown as PLANNED when
\* results count for it - whether it was created before or after them
\* (autostart_work_orders, create_work_order) - unless the creation and an
\* intake overlapped.
PlannedHasNoRecord ==
    \A o \in Orders \ (byHand \cup overlapped) :
        orders[o].status = "PLANNED" /\ ClerksAt(o) = {} =>
            ~ \E k \in Results : records[k] # NoRecord /\ CountsFor(k, o)

\* A finished or cancelled work order, and no other, has its time of
\* completion: a late result does not set it going again
\* (autostart_work_orders, patch_work_order).
ClosedHasEnd ==
    \A o \in Orders \ overlapped : orders[o].finished <=> orders[o].status \in Closed
=============================================================================
