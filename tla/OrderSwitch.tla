----------------------------- MODULE OrderSwitch -----------------------------
(***************************************************************************)
(* What a station inspects.  The API keeps the master data, one active     *)
(* order and a stage of the station (services/api/routers/master.py); the  *)
(* worker asks for them between two cycles and changes over without a      *)
(* restart (services/vision/worker/runner.py).  A lot stands for the lot   *)
(* and the work order, which travel together.                              *)
(***************************************************************************)
EXTENDS Naturals

CONSTANTS
    Items, Lots,
    EnvItem,      \* AIVIS_ITEM_CODE
    NoLot,        \* no lot in the order: the worker falls back to AIVIS_LOT
    NoOrder,
    EnvStage,     \* AIVIS_INSPECTION_STAGE
    MaxVersion    \* a bound on the versions of an item

Stages == {"LENGTH", "COUNT"}   \* CRATE_COUNT, and the stages that inspect tubes
NoStage == "env"

\* The master data of an item: spec stands for what the worker does not
\* compare when it asks again (the reference length, the diameter).
Absent == [version |-> 0, spec |-> 0]
Records == [version : 1 .. MaxVersion, spec : 0 .. 1]
Orders == [item : Items, lot : Lots \cup {NoLot}, stage : Stages \cup {NoStage}]

ASSUME SwitchAssumption == EnvItem \in Items /\ MaxVersion \in Nat \ {0}

VARIABLES
    master,    \* item_master: the record of each item, or Absent
    order,     \* active_order
    station,   \* station_config of this camera
    item,      \* the worker's master data: Worker.item
    label,     \* Worker._active_lot and _active_stage
    seen,      \* the order the API has answered to the reload under way
    ordered,   \* history: item and lot of every order that was set as a whole
    patched,   \* history: ... and of every order a change of stage rewrote
    recreated  \* history: items deleted and created again

switchVars == <<master, order, station, item, label, seen, ordered, patched,
                recreated>>

OrderTypeOK ==
    /\ master \in [Items -> Records \cup {Absent}]
    /\ order \in Orders \cup {NoOrder}
    /\ station \in Stages \cup {NoStage}
    /\ item \in [code : Items, data : Records]
    /\ label \in [lot : Lots \cup {NoLot}, stage : Stages \cup {NoStage}]
    /\ seen \in Orders \cup {NoOrder}
    /\ ordered \cup patched \subseteq Items \X (Lots \cup {NoLot})
    /\ recreated \in SUBSET Items

NoLabel == [lot |-> NoLot, stage |-> NoStage]

SwitchInit ==
    /\ master = [i \in Items |-> [version |-> 1, spec |-> 0]]
    /\ order = NoOrder
    /\ station = NoStage
    /\ item = [code |-> EnvItem, data |-> master[EnvItem]]
    /\ label = NoLabel
    /\ seen = NoOrder
    /\ ordered = {} /\ patched = {} /\ recreated = {}

workerSide == <<item, label, seen>>
apiSide == <<master, order, station, ordered, patched, recreated>>

Known(i) == master[i] # Absent

-----------------------------------------------------------------------------
(* The API *)

\* put_active_order; "keep": the body does not name a stage.
PutOrder(i, l, s) ==
    /\ Known(i)
    /\ order' = [item |-> i, lot |-> l,
                 stage |-> IF s # "keep" THEN s
                           ELSE IF order = NoOrder THEN NoStage ELSE order.stage]
    /\ ordered' = ordered \cup {<<i, l>>}
    /\ UNCHANGED <<master, station, patched, recreated, workerSide>>

\* put_active_stage: the stage of this station or of all, and in both cases
\* the item of the screen.
PutStage(i, s, here) ==
    /\ Known(i)
    /\ LET row == IF order = NoOrder
                  THEN [item |-> i, lot |-> NoLot, stage |-> NoStage] ELSE order
           next == [row EXCEPT !.item = i, !.stage = IF here THEN @ ELSE s]
       IN  /\ order' = next
           /\ patched' = IF <<i, row.lot>> \in ordered THEN patched
                         ELSE patched \cup {<<i, row.lot>>}
    /\ station' = IF here THEN s ELSE station
    /\ UNCHANGED <<master, ordered, recreated, workerSide>>

ClearOrder ==
    /\ order # NoOrder /\ order' = NoOrder
    /\ UNCHANGED <<master, station, ordered, patched, recreated, workerSide>>

ClearStation ==
    /\ station # NoStage /\ station' = NoStage
    /\ UNCHANGED <<master, order, ordered, patched, recreated, workerSide>>

\* update_item, update_item_spec with another value, calibrate_item.
EditItem(i) ==
    /\ Known(i) /\ master[i].version < MaxVersion
    /\ \E s \in 0 .. 1 :
           master' = [master EXCEPT ![i] = [version |-> @.version + 1, spec |-> s]]
    /\ UNCHANGED <<order, station, ordered, patched, recreated, workerSide>>

DeleteItem(i) ==
    /\ Known(i) /\ master' = [master EXCEPT ![i] = Absent]
    /\ UNCHANGED <<order, station, ordered, patched, recreated, workerSide>>

CreateItem(i) ==
    /\ ~Known(i)
    /\ \E s \in 0 .. 1 : master' = [master EXCEPT ![i] = [version |-> 1, spec |-> s]]
    /\ recreated' = recreated \cup {i}
    /\ UNCHANGED <<order, station, ordered, patched, workerSide>>

SetOrder ==
    \/ \E i \in Items, l \in Lots \cup {NoLot}, s \in Stages \cup {NoStage, "keep"} :
           PutOrder(i, l, s)
    \/ ClearOrder

SetStage ==
    \/ \E i \in Items, s \in Stages, here \in BOOLEAN : PutStage(i, s, here)
    \/ ClearStation

SetItem == \E i \in Items : EditItem(i) \/ DeleteItem(i) \/ CreateItem(i)

\* get_active_order: the stage of the station goes before that of the order.
Active ==
    IF order = NoOrder THEN NoOrder
    ELSE [order EXCEPT !.stage = IF station # NoStage THEN station ELSE @]

-----------------------------------------------------------------------------
(* The worker *)

\* _cur_stage, _vision_mode
CurStage == IF label.stage = NoStage THEN EnvStage ELSE label.stage
VisionMode == IF CurStage = "COUNT" THEN "departure" ELSE "arrival"

\* get_active_order in client.py: no answer is no order.
AskOrder(answer) ==
    /\ answer \in {Active, NoOrder}
    /\ seen' = answer
    /\ UNCHANGED <<apiSide, item, label>>

\* _apply_active_meta
LabelOf(o) == [lot |-> o.lot, stage |-> o.stage]

\* The first branches of _maybe_switch_order: no order, or the item it has.
KeepItem ==
    /\ \/ seen = NoOrder /\ label' = label
       \/ seen # NoOrder /\ seen.item = item.code /\ label' = LabelOf(seen)
    /\ seen' = NoOrder
    /\ UNCHANGED <<apiSide, item>>

SwitchItem ==
    /\ seen # NoOrder /\ seen.item # item.code
    /\ Known(seen.item)
    /\ item' = [code |-> seen.item, data |-> master[seen.item]]
    /\ label' = LabelOf(seen)
    /\ seen' = NoOrder
    /\ UNCHANGED apiSide

\* Faulty variant: the labels change although the item could not be fetched.
SwitchFailsHalfway ==
    /\ seen # NoOrder /\ seen.item # item.code
    /\ label' = LabelOf(seen)
    /\ seen' = NoOrder
    /\ UNCHANGED <<apiSide, item>>

\* The item is not in the master data, or there is no answer: all stays.
SwitchFails ==
    /\ seen # NoOrder /\ seen.item # item.code
    /\ seen' = NoOrder
    /\ UNCHANGED <<apiSide, item, label>>

\* Faulty variant: the answer is compared by its code.
ChangedCode == FALSE

\* _item_changed: the version, and keys that do not change without it as long
\* as an item is not deleted and created again.
Changed == master[item.code].version # item.data.version

\* The rest of _maybe_reload_item.
Refetch ==
    /\ Known(item.code)
    /\ item' = IF Changed THEN [item EXCEPT !.data = master[item.code]] ELSE item
    /\ UNCHANGED <<apiSide, label, seen>>

RefetchFails == UNCHANGED switchVars

\* The worker starts again: the item of the environment, no order.
RestartWorker ==
    /\ Known(EnvItem)
    /\ item' = [code |-> EnvItem, data |-> master[EnvItem]]
    /\ label' = NoLabel
    /\ seen' = NoOrder
    /\ UNCHANGED apiSide
=============================================================================
