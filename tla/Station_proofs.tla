----------------------------- MODULE Station_proofs -----------------------------
(***************************************************************************)
(* What a station promises, for every number of loads, tubes, items and    *)
(* lots, every failure and every restart: the item and the lot of a result *)
(* belong together, a crate is counted once, from its last scene at rest.  *)
(***************************************************************************)
EXTENDS Station, SequenceTheorems, TLAPS

USE TriggerAssumption, SwitchAssumption, FailsAssumption

-----------------------------------------------------------------------------
(* The item and the lot of a result *)

\* What belongs together.
Together == ordered \cup patched \cup {<<EnvItem, NoLot>>}

LabelInv ==
    /\ OrderTypeOK
    /\ order # NoOrder => <<order.item, order.lot>> \in Together
    /\ seen # NoOrder => <<seen.item, seen.lot>> \in Together
    /\ LabelsOrdered

LEMMA SwitchTypes ==
    ASSUME OrderTypeOK
    PROVE  /\ \A i \in Items : Known(i) => master[i] \in Records
           /\ order # NoOrder => order \in Orders
           /\ seen # NoOrder => seen \in Orders
           /\ \A l \in Lots \cup {NoLot}, i \in Items, s \in Stages \cup {NoStage} :
                  [item |-> i, lot |-> l, stage |-> s] \in Orders
  BY DEF OrderTypeOK, Known, Orders

LEMMA LabelInitially == Init => LabelInv
<1> SUFFICES ASSUME Init PROVE LabelInv
  OBVIOUS
<1>1. SwitchInit
  BY DEF Init
<1>2. [version |-> 1, spec |-> 0] \in Records
  BY DEF Records
<1>3. master[EnvItem] = [version |-> 1, spec |-> 0]
  BY <1>1 DEF SwitchInit
<1>4. OrderTypeOK
  BY <1>1, <1>2, <1>3 DEF SwitchInit, OrderTypeOK, NoLabel
<1> QED BY <1>1, <1>4 DEF SwitchInit, LabelInv, LabelsOrdered, NoLabel

LEMMA OrderSet ==
    ASSUME LabelInv, SetOrder
    PROVE  LabelInv'
<1>0. OrderTypeOK
  BY DEF LabelInv
<1>1. ASSUME NEW i \in Items, NEW l \in Lots \cup {NoLot},
             NEW s \in Stages \cup {NoStage, "keep"}, PutOrder(i, l, s)
      PROVE  LabelInv'
  <2>1. \E t \in Stages \cup {NoStage} : order' = [item |-> i, lot |-> l, stage |-> t]
    <3>1. CASE s # "keep"
      BY <1>1, <3>1 DEF PutOrder
    <3>2. CASE s = "keep" /\ order = NoOrder
      BY <1>1, <3>2 DEF PutOrder
    <3>3. CASE s = "keep" /\ order # NoOrder
      <4>1. order.stage \in Stages \cup {NoStage}
        BY <1>0, <3>3, SwitchTypes DEF Orders
      <4> QED BY <1>1, <3>3, <4>1 DEF PutOrder
    <3> QED BY <3>1, <3>2, <3>3
  <2>2. order' \in Orders /\ order'.item = i /\ order'.lot = l
    BY <2>1 DEF Orders
  <2>3. /\ ordered' = ordered \cup {<<i, l>>}
        /\ UNCHANGED <<master, station, patched, recreated, item, label, seen>>
    BY <1>1 DEF PutOrder, workerSide
  <2>4. OrderTypeOK'
    BY <1>0, <2>2, <2>3 DEF OrderTypeOK
  <2> QED BY <2>2, <2>3, <2>4 DEF LabelInv, LabelsOrdered, Together
<1>2. CASE ClearOrder
  <2>1. /\ order' = NoOrder
        /\ UNCHANGED <<master, station, ordered, patched, recreated, item, label, seen>>
    BY <1>2 DEF ClearOrder, workerSide
  <2>2. OrderTypeOK'
    BY <1>0, <2>1 DEF OrderTypeOK
  <2> QED BY <2>1, <2>2 DEF LabelInv, LabelsOrdered, Together
<1> QED BY <1>1, <1>2 DEF SetOrder

LEMMA StageSet ==
    ASSUME LabelInv, SetStage
    PROVE  LabelInv'
<1>0. OrderTypeOK
  BY DEF LabelInv
<1>1. ASSUME NEW i \in Items, NEW s \in Stages, NEW here \in BOOLEAN, PutStage(i, s, here)
      PROVE  LabelInv'
  <2> DEFINE row == IF order = NoOrder
                    THEN [item |-> i, lot |-> NoLot, stage |-> NoStage] ELSE order
  <2>1. row \in Orders
    BY <1>0, SwitchTypes
  <2>2. /\ order' = [row EXCEPT !.item = i, !.stage = IF here THEN @ ELSE s]
        /\ patched' = IF <<i, row.lot>> \in ordered THEN patched
                      ELSE patched \cup {<<i, row.lot>>}
        /\ station' = IF here THEN s ELSE station
        /\ UNCHANGED <<master, ordered, recreated, item, label, seen>>
    BY <1>1 DEF PutStage, workerSide
  <2> HIDE DEF row
  <2>3. order' \in Orders /\ order'.item = i /\ order'.lot = row.lot
    BY <2>1, <2>2 DEF Orders
  <2>4. row.lot \in Lots \cup {NoLot}
    BY <2>1 DEF Orders
  <2>5. OrderTypeOK'
    BY <1>0, <2>2, <2>3, <2>4 DEF OrderTypeOK
  <2> QED BY <2>2, <2>3, <2>5 DEF LabelInv, LabelsOrdered, Together
<1>2. CASE ClearStation
  <2>1. /\ station' = NoStage
        /\ UNCHANGED <<master, order, ordered, patched, recreated, item, label, seen>>
    BY <1>2 DEF ClearStation, workerSide
  <2>2. OrderTypeOK'
    BY <1>0, <2>1 DEF OrderTypeOK
  <2> QED BY <2>1, <2>2 DEF LabelInv, LabelsOrdered, Together
<1> QED BY <1>1, <1>2 DEF SetStage

LEMMA ItemSet ==
    ASSUME LabelInv, SetItem
    PROVE  LabelInv'
<1>0. OrderTypeOK
  BY DEF LabelInv
<1>1. PICK i \in Items : EditItem(i) \/ DeleteItem(i) \/ CreateItem(i)
  BY DEF SetItem
<1>2. /\ recreated' \subseteq recreated \cup {i}
      /\ UNCHANGED <<order, station, ordered, patched, item, label, seen>>
  BY <1>1 DEF EditItem, DeleteItem, CreateItem, workerSide
<1>3. master' \in [Items -> Records \cup {Absent}]
  <2>1. ASSUME EditItem(i)
        PROVE  \E s \in 0 .. 1 : master' = [master EXCEPT ![i] = [version |-> master[i].version + 1, spec |-> s]]
    BY <2>1 DEF EditItem
  <2>2. ASSUME EditItem(i), NEW s \in 0 .. 1
        PROVE  [version |-> master[i].version + 1, spec |-> s] \in Records
    <3>1. master[i] \in Records
      BY <1>0, <2>2, SwitchTypes DEF EditItem
    <3> QED BY <2>2, <3>1 DEF EditItem, Records
  <2>3. ASSUME NEW s \in 0 .. 1 PROVE [version |-> 1, spec |-> s] \in Records
    BY DEF Records
  <2> QED BY <1>0, <1>1, <2>1, <2>2, <2>3 DEF DeleteItem, CreateItem, OrderTypeOK
<1>4. OrderTypeOK'
  BY <1>0, <1>2, <1>3 DEF OrderTypeOK
<1> QED BY <1>2, <1>4 DEF LabelInv, LabelsOrdered, Together

LEMMA WorkerAsks ==
    ASSUME LabelInv,
           \/ AskOrder(Active) \/ AskOrder(NoOrder) \/ KeepItem \/ SwitchItem \/ SwitchFails
           \/ Refetch \/ RefetchFails \/ RestartWorker \/ UNCHANGED switchVars
    PROVE  LabelInv'
<1>0. OrderTypeOK
  BY DEF LabelInv
<1>1. CASE AskOrder(Active) \/ AskOrder(NoOrder)
  <2>1. /\ seen' \in {Active, NoOrder}
        /\ UNCHANGED <<master, order, station, ordered, patched, recreated, item, label>>
    BY <1>1 DEF AskOrder, apiSide
  <2>2. order # NoOrder => /\ Active \in Orders /\ Active.item = order.item /\ Active.lot = order.lot
    BY <1>0, SwitchTypes DEF Active, Orders, OrderTypeOK
  <2>3. order = NoOrder => Active = NoOrder
    BY DEF Active
  <2>4. OrderTypeOK'
    BY <1>0, <2>1, <2>2, <2>3 DEF OrderTypeOK
  <2> QED BY <2>1, <2>2, <2>3, <2>4 DEF LabelInv, LabelsOrdered, Together
<1>2. CASE KeepItem
  <2>1. /\ seen' = NoOrder
        /\ UNCHANGED <<master, order, station, ordered, patched, recreated, item>>
    BY <1>2 DEF KeepItem, apiSide
  <2>2. \/ label' = label
        \/ seen # NoOrder /\ seen.item = item.code /\ label' = [lot |-> seen.lot, stage |-> seen.stage]
    BY <1>2 DEF KeepItem, LabelOf
  <2>3. OrderTypeOK'
    BY <1>0, <2>1, <2>2, SwitchTypes DEF OrderTypeOK, Orders
  <2>4. LabelsOrdered'
    BY <2>1, <2>2 DEF LabelInv, LabelsOrdered, Together
  <2> QED BY <2>1, <2>3, <2>4 DEF LabelInv, Together
<1>3. CASE SwitchItem
  <2>1. /\ seen # NoOrder /\ seen' = NoOrder
        /\ item' = [code |-> seen.item, data |-> master[seen.item]]
        /\ label' = [lot |-> seen.lot, stage |-> seen.stage]
        /\ UNCHANGED <<master, order, station, ordered, patched, recreated>>
    BY <1>3 DEF SwitchItem, LabelOf, apiSide
  <2>2. seen \in Orders /\ seen.item \in Items /\ master[seen.item] \in Records
    BY <1>0, <1>3, <2>1, SwitchTypes DEF SwitchItem, Orders
  <2>3. OrderTypeOK'
    BY <1>0, <2>1, <2>2 DEF OrderTypeOK, Orders
  <2> QED BY <2>1, <2>3 DEF LabelInv, LabelsOrdered, Together
<1>4. CASE SwitchFails
  <2>1. /\ seen' = NoOrder
        /\ UNCHANGED <<master, order, station, ordered, patched, recreated, item, label>>
    BY <1>4 DEF SwitchFails, apiSide
  <2>2. OrderTypeOK'
    BY <1>0, <2>1 DEF OrderTypeOK
  <2> QED BY <2>1, <2>2 DEF LabelInv, LabelsOrdered, Together
<1>5. CASE Refetch
  <2>1. item.code \in Items /\ master[item.code] \in Records
    BY <1>0, <1>5, SwitchTypes DEF Refetch, OrderTypeOK
  <2>2. /\ item' \in [code : Items, data : Records] /\ item'.code = item.code
        /\ UNCHANGED <<master, order, station, ordered, patched, recreated, label, seen>>
    BY <1>0, <1>5, <2>1 DEF Refetch, OrderTypeOK, apiSide
  <2>3. OrderTypeOK'
    BY <1>0, <2>2 DEF OrderTypeOK
  <2> QED BY <2>2, <2>3 DEF LabelInv, LabelsOrdered, Together
<1>6. CASE RestartWorker
  <2>1. /\ item' = [code |-> EnvItem, data |-> master[EnvItem]]
        /\ label' = [lot |-> NoLot, stage |-> NoStage] /\ seen' = NoOrder
        /\ UNCHANGED <<master, order, station, ordered, patched, recreated>>
    BY <1>6 DEF RestartWorker, NoLabel, apiSide
  <2>2. master[EnvItem] \in Records
    BY <1>0, <1>6, SwitchTypes DEF RestartWorker
  <2>3. OrderTypeOK'
    BY <1>0, <2>1, <2>2 DEF OrderTypeOK
  <2> QED BY <2>1, <2>3 DEF LabelInv, LabelsOrdered, Together
<1>7. CASE UNCHANGED switchVars
  BY <1>0, <1>7 DEF switchVars, LabelInv, LabelsOrdered, Together, OrderTypeOK
<1> QED BY <1>1, <1>2, <1>3, <1>4, <1>5, <1>6, <1>7 DEF RefetchFails

LEMMA LabelStep == LabelInv /\ [Next]_vars => LabelInv'
<1> SUFFICES ASSUME LabelInv, [Next]_vars PROVE LabelInv'
  OBVIOUS
<1>1. CASE Person
  BY <1>1, OrderSet, StageSet, ItemSet DEF Person
<1>2. CASE Asks
  BY <1>2, WorkerAsks DEF Asks
<1>3. CASE Switches
  BY <1>3, WorkerAsks DEF Switches
<1>4. CASE Refetches
  BY <1>4, WorkerAsks DEF Refetches
<1>5. CASE Restart
  BY <1>5, WorkerAsks DEF Restart
<1>6. CASE UNCHANGED switchVars
  BY <1>6, WorkerAsks
<1>7. Person \/ Asks \/ Switches \/ Refetches \/ Restart \/ UNCHANGED switchVars
  BY DEF Next, World, Screen, Publisher, Turn, TakeRequest, WaitForTrigger, PollMode, PollQuiet,
         PollFires, EmptyCycle, Inspects, InspectsUnsent, Inspected, Beats, Obeys,
         TriggerIdle, PollHoldFails, GrabFails,
         InspectionFails, BeatLost, vars
<1> QED BY <1>1, <1>2, <1>3, <1>4, <1>5, <1>6, <1>7

\* For every number of items and lots, every order, every change of stage, every
\* failed request and every restart: the item and the lot of a result come from
\* one order, from one that a change of stage rewrote, or from the environment.
THEOREM OrdersNotMixed == Spec => []LabelsOrdered
<1>1. Spec => []LabelInv
  BY LabelInitially, LabelStep, PTL DEF Spec
<1>2. LabelInv => LabelsOrdered
  BY DEF LabelInv
<1> QED BY <1>1, <1>2, PTL

-----------------------------------------------------------------------------
(* The trigger and the crates *)

Shots == Scenes \cup {NoShot}
Triggers == [mode : Modes, held : Shots, pending : Shots, baseline : Shots, fired : Shots,
             empties : Seq(Scenes)]

\* The types of what concerns the crates.
CrateTypes ==
    /\ trig \in Triggers /\ Len(trig.empties) <= MaxEmpties
    /\ scene \in Scenes /\ used \in SUBSET Loads
    /\ moved \in BOOLEAN /\ big \in BOOLEAN
    /\ counts \in [Loads -> Nat] /\ stood \in [Loads -> 0 .. MaxTubes]
    /\ doubtful \in SUBSET Loads /\ missed \in SUBSET Loads
    /\ loop \in Loops /\ why \in Reasons /\ firedIn \in Modes

Going == {"ask", "switch", "refetch", "cycle"}

\* A picture is kept, and handed out, in departure mode only; one that is
\* handed out waits for the cycle of this turn.
ModeInv ==
    /\ trig.mode = "arrival" => trig.held = NoShot /\ trig.pending = NoShot
    /\ trig.pending # NoShot <=> loop \in Going /\ why = "trigger" /\ firedIn = "departure"

\* The picture s shows load c.
Of(s, c) == s # NoShot /\ s.load = c

Empties == Range(trig.empties)

\* A load that was seen has been put there.
WasPut(c) ==
    \/ scene.load = c \/ Of(trig.held, c) \/ Of(trig.pending, c) \/ Of(trig.fired, c)
    \/ (\E e \in Empties : e.load = c) \/ counts[c] # 0
    => c \in used

\* While it stands there its tubes only grow, its picture has not been handed
\* out, and no scene learnt as empty has as many tubes as the one kept.
Stands(c) ==
    scene.load = c =>
        /\ counts[c] = 0 /\ ~Of(trig.pending, c)
        /\ Of(trig.held, c) => trig.held.tubes <= scene.tubes
        /\ Of(trig.fired, c) => trig.mode = "arrival" /\ trig.fired.tubes <= scene.tubes
        /\ \A e \in Empties : e.load = c =>
               e.tubes <= scene.tubes /\ (Of(trig.held, c) => e.tubes < trig.held.tubes)

\* Kept, then handed out, then counted, each once.
Once(c) ==
    /\ counts[c] \in {0, 1}
    /\ counts[c] = 1 => ~Of(trig.held, c) /\ ~Of(trig.pending, c)
    /\ Of(trig.pending, c) => ~Of(trig.held, c)

LastSeen(c) ==
    c \notin missed =>
        /\ Of(trig.held, c) => trig.held.tubes = stood[c]
        /\ Of(trig.pending, c) => trig.pending.tubes = stood[c]

CrateAt(c) == WasPut(c) /\ Stands(c) /\ Once(c) /\ LastSeen(c)

CrateInv == CrateTypes /\ ModeInv /\ \A c \in Loads \ doubtful : CrateAt(c)

LEMMA FreshShape ==
    ASSUME NEW m \in Modes, NEW es \in Seq(Scenes)
    PROVE  /\ FreshTrigger(m, es) \in Triggers
           /\ FreshTrigger(m, es).mode = m /\ FreshTrigger(m, es).empties = es
           /\ FreshTrigger(m, es).held = NoShot /\ FreshTrigger(m, es).pending = NoShot
           /\ FreshTrigger(m, es).fired = NoShot
  BY DEF FreshTrigger, Triggers, Shots

LEMMA EmptyList == <<>> \in Seq(Scenes) /\ Len(<<>>) = 0 /\ Range(<<>>) = {}
  BY DEF Range

LEMMA ModeShape == VisionMode \in Modes
  BY DEF VisionMode, Modes

\* What is learnt replaces the oldest scene when the list is full.
LEMMA Learnt ==
    ASSUME NEW es \in Seq(Scenes), Len(es) <= MaxEmpties, NEW s \in Scenes
    PROVE  LET es2 == SubSeq(Append(es, s), IF Len(es) < MaxEmpties THEN 1 ELSE 2, Len(es) + 1)
           IN  /\ es2 \in Seq(Scenes) /\ Len(es2) <= MaxEmpties
               /\ Range(es2) \subseteq Range(es) \cup {s}
<1> DEFINE all == Append(es, s)
<1> DEFINE m == IF Len(es) < MaxEmpties THEN 1 ELSE 2
<1> DEFINE n == Len(es) + 1
<1>1. /\ all \in Seq(Scenes) /\ Len(all) = n /\ n \in Nat /\ m \in {1, 2}
      /\ \A i \in 1 .. Len(es) : all[i] = es[i]
      /\ all[n] = s /\ DOMAIN es = 1 .. Len(es)
  OBVIOUS
<1>2. \A i \in m .. n : all[i] \in Scenes /\ all[i] \in Range(es) \cup {s}
  <2> TAKE i \in m .. n
  <2>1. i \in 1 .. Len(es) \/ i = n
    BY <1>1
  <2> QED BY <1>1, <2>1 DEF Range
<1>3. /\ SubSeq(all, m, n) \in Seq(Scenes)
      /\ Len(SubSeq(all, m, n)) = IF m <= n THEN n - m + 1 ELSE 0
      /\ \A i \in 1 .. n - m + 1 : SubSeq(all, m, n)[i] = all[m + i - 1]
  <2> HIDE DEF all, m, n
  <2>1. m \in Int /\ n \in Int
    BY <1>1
  <2>2. \A i \in m .. n : all[i] \in Scenes
    BY <1>2
  <2> QED BY <2>1, <2>2, SubSeqProperties
<1>4. Len(SubSeq(all, m, n)) <= MaxEmpties
  BY <1>1, <1>3
<1>5. Range(SubSeq(all, m, n)) \subseteq Range(es) \cup {s}
  <2> SUFFICES ASSUME NEW i \in DOMAIN SubSeq(all, m, n)
               PROVE  SubSeq(all, m, n)[i] \in Range(es) \cup {s}
    BY DEF Range
  <2> DEFINE es2 == SubSeq(all, m, n)
  <2>0. DOMAIN es2 = 1 .. Len(es2)
    <3>1. es2 \in Seq(Scenes)
      BY <1>3
    <3> HIDE DEF es2
    <3> QED BY <3>1
  <2>1. i \in 1 .. n - m + 1
    BY <1>1, <1>3, <2>0
  <2>2. m + i - 1 \in m .. n
    BY <1>1, <2>1
  <2> QED BY <1>2, <1>3, <2>1, <2>2
<1> QED BY <1>3, <1>4, <1>5

LEMMA CrateInitially == Init => CrateInv
<1> SUFFICES ASSUME Init PROVE CrateInv
  OBVIOUS
<1>1. /\ trig = FreshTrigger(VisionMode, <<>>) /\ scene = EmptyPlace /\ used = {}
      /\ moved = TRUE /\ big = FALSE
      /\ loop = "top" /\ why = "idle" /\ firedIn = VisionMode
      /\ counts = [c \in Loads |-> 0] /\ stood = [c \in Loads |-> 0]
      /\ doubtful = {} /\ missed = {}
  BY DEF Init, TriggerInit
<1>2. /\ trig \in Triggers /\ trig.empties = <<>> /\ trig.mode \in Modes
      /\ trig.held = NoShot /\ trig.pending = NoShot /\ trig.fired = NoShot
  BY <1>1, FreshShape, EmptyList, ModeShape
<1>3. scene \in Scenes /\ scene.load = NoLoad
  BY <1>1 DEF Scenes, EmptyPlace
<1>4. CrateTypes
  <2>1. Len(trig.empties) <= MaxEmpties
    BY <1>2, EmptyList
  <2>2. counts \in [Loads -> Nat] /\ stood \in [Loads -> 0 .. MaxTubes]
    BY <1>1
  <2> QED BY <1>1, <1>2, <1>3, <2>1, <2>2, ModeShape DEF CrateTypes, Loops, Reasons
<1>5. ModeInv
  BY <1>1, <1>2 DEF ModeInv, Going
<1>6. ASSUME NEW c \in Loads PROVE CrateAt(c)
  BY <1>1, <1>2, <1>3, EmptyList DEF CrateAt, WasPut, Stands, Once, LastSeen, Of, Empties
<1> QED BY <1>4, <1>5, <1>6 DEF CrateInv

\* The loop goes on and the trigger is left alone.
LEMMA LoopSteps ==
    ASSUME CrateInv, UNCHANGED <<triggerVars, Ghosts>>,
           loop' \in Loops, why' \in Reasons, firedIn' = firedIn,
           (loop' \in Going /\ why' = "trigger") <=> (loop \in Going /\ why = "trigger")
    PROVE  CrateInv'
<1>1. CrateTypes'
  BY DEF CrateInv, CrateTypes, triggerVars, Ghosts
<1>2. ModeInv'
  BY DEF CrateInv, ModeInv, triggerVars
<1>3. ASSUME NEW c \in Loads \ doubtful' PROVE CrateAt(c)'
  <2>1. c \in Loads \ doubtful
    BY <1>3 DEF Ghosts
  <2>2. CrateAt(c)
    BY <2>1 DEF CrateInv
  <2> QED BY <2>2 DEF CrateAt, WasPut, Stands, Once, LastSeen, Of, Empties, triggerVars, Ghosts
<1> QED BY <1>1, <1>2, <1>3 DEF CrateInv

\* A load comes, gets another tube, loses one, or goes.
LEMMA WorldStep ==
    ASSUME CrateInv, World
    PROVE  CrateInv'
<1>0. /\ UNCHANGED <<trig, counts, stood, missed, loop, why, firedIn>>
      /\ scene \in Scenes /\ used \in SUBSET Loads
      /\ trig \in Triggers /\ trig.empties \in Seq(Scenes)
  BY DEF World, Bring, TakeAway, AddTubes, Hand, TakeTubes, Shows, CrateInv, CrateTypes, Triggers
<1>1. doubtful \subseteq doubtful' /\ doubtful' \in SUBSET Loads
  BY DEF World, LoadsOf, CrateInv, CrateTypes
<1>2. \/ \E c \in Loads \ used, n \in 0 .. MaxTubes :
             used' = used \cup {c} /\ scene' = [load |-> c, tubes |-> n]
      \/ used' = used /\ scene' = EmptyPlace
      \/ used' = used /\ scene' \in Scenes /\ scene'.load = scene.load
            /\ (scene'.tubes >= scene.tubes \/ LoadsOf({scene}) \subseteq doubtful')
  <2>1. ASSUME AddTubes PROVE scene' \in Scenes /\ scene'.load = scene.load /\ scene'.tubes >= scene.tubes
    <3>1. scene.load \in Loads /\ scene.tubes \in 0 .. MaxTubes
      BY <1>0, <2>1 DEF AddTubes, Scenes, EmptyPlace
    <3>2. scene' = [scene EXCEPT !.tubes = scene.tubes + 1]
      BY <2>1 DEF AddTubes, Shows
    <3>3. scene' = [load |-> scene.load, tubes |-> scene.tubes + 1]
      BY <1>0, <3>2 DEF Scenes
    <3> QED BY <2>1, <3>1, <3>3 DEF AddTubes, Scenes
  <2>2. ASSUME TakeTubes PROVE scene' \in Scenes /\ scene'.load = scene.load
    <3>1. scene.load \in Loads /\ scene.tubes \in 0 .. MaxTubes
      BY <1>0, <2>2 DEF TakeTubes, Scenes
    <3>2. scene' = [scene EXCEPT !.tubes = scene.tubes - 1]
      BY <2>2 DEF TakeTubes, Shows
    <3>3. scene' = [load |-> scene.load, tubes |-> scene.tubes - 1]
      BY <1>0, <3>2 DEF Scenes
    <3> QED BY <2>2, <3>1, <3>3 DEF TakeTubes, Scenes
  <2>3. CASE AddTubes
    BY <2>1, <2>3 DEF AddTubes
  <2>4. CASE TakeTubes /\ doubtful' = doubtful \cup LoadsOf({scene})
    BY <2>2, <2>4 DEF TakeTubes
  <2>5. CASE Hand
    <3>1. scene.tubes \in Int
      BY <1>0 DEF Scenes
    <3> QED BY <1>0, <2>5, <3>1 DEF Hand, Shows
  <2>6. CASE TakeAway
    BY <2>6 DEF TakeAway, Shows
  <2>7. CASE \E c \in Loads, n \in 0 .. MaxTubes : Bring(c, n)
    BY <2>7 DEF Bring, Shows
  <2> QED BY <2>3, <2>4, <2>5, <2>6, <2>7 DEF World
<1>3. scene' \in Scenes /\ used' \in SUBSET Loads /\ used \subseteq used'
  BY <1>0, <1>2 DEF Scenes, EmptyPlace
<1>4. moved' \in BOOLEAN /\ big' \in BOOLEAN
  BY DEF World, Bring, TakeAway, AddTubes, Hand, TakeTubes, Shows, CrateInv, CrateTypes
<1>5. CrateTypes' /\ ModeInv'
  BY <1>0, <1>1, <1>3, <1>4 DEF CrateInv, CrateTypes, ModeInv
<1>6. ASSUME NEW c \in Loads \ doubtful' PROVE CrateAt(c)'
  <2>1. CrateAt(c)
    BY <1>1, <1>6 DEF CrateInv
  <2>2. Once(c)' /\ LastSeen(c)'
    BY <1>0, <2>1 DEF CrateAt, Once, LastSeen, Of
  <2>3. CASE c \notin used /\ scene'.load = c
    <3>1. ~Of(trig.held, c) /\ ~Of(trig.pending, c) /\ ~Of(trig.fired, c)
          /\ (~ \E e \in Empties : e.load = c) /\ counts[c] = 0
      BY <2>1, <2>3 DEF CrateAt, WasPut
    <3>2. c \in used'
      BY <1>2, <2>1, <2>3 DEF CrateAt, WasPut, EmptyPlace
    <3> QED BY <1>0, <2>2, <3>1, <3>2 DEF CrateAt, WasPut, Stands, Of, Empties
  <2>4. CASE scene'.load # c
    BY <1>0, <1>3, <2>1, <2>2, <2>4 DEF CrateAt, WasPut, Stands, Of, Empties
  <2>5. CASE c \in used /\ scene'.load = c
    <3>1. scene.load = c /\ (scene'.tubes >= scene.tubes \/ LoadsOf({scene}) \subseteq doubtful')
      BY <1>2, <2>5 DEF EmptyPlace
    <3>2. scene'.tubes >= scene.tubes
      BY <1>0, <1>6, <3>1 DEF LoadsOf, Scenes
    <3>3. /\ scene.tubes \in Int /\ scene'.tubes \in Int
          /\ Of(trig.held, c) => trig.held.tubes \in Int
          /\ Of(trig.fired, c) => trig.fired.tubes \in Int
          /\ \A e \in Empties : e.tubes \in Int
      BY <1>0, <1>3 DEF Scenes, Of, Triggers, Shots, Empties, Range
    <3>4. Stands(c)'
      BY <1>0, <2>1, <3>1, <3>2, <3>3 DEF CrateAt, Stands, Of, Empties
    <3>5. WasPut(c)'
      BY <1>3, <2>5 DEF WasPut
    <3> QED BY <2>2, <3>4, <3>5 DEF CrateAt
  <2> QED BY <2>3, <2>4, <2>5
<1> QED BY <1>5, <1>6 DEF CrateInv

-----------------------------------------------------------------------------
(* The polls of the trigger *)

\* What every poll finds: no picture waits to be taken.
LEMMA PollShape ==
    ASSUME CrateInv, loop = "wait"
    PROVE  /\ trig \in Triggers /\ trig.empties \in Seq(Scenes) /\ trig.pending = NoShot
           /\ trig.held \in Shots /\ scene \in Scenes /\ scene.tubes \in Int
           /\ trig.held # NoShot => trig.held.tubes \in Int
           /\ \A e \in Empties : e \in Scenes /\ e.tubes \in Int
           /\ NoShot \notin Scenes
<1>1. trig \in Triggers /\ scene \in Scenes
  BY DEF CrateInv, CrateTypes
<1>2. trig.empties \in Seq(Scenes) /\ trig.held \in Shots
  BY <1>1 DEF Triggers
<1>3. trig.pending = NoShot
  BY DEF CrateInv, ModeInv, Going
<1>4. \A e \in Empties : e \in Scenes
  BY <1>2 DEF Empties, Range
<1>5. \A s \in Scenes : s.tubes \in Int
  BY DEF Scenes
<1> QED BY <1>1, <1>2, <1>3, <1>4, <1>5 DEF Shots

\* The scene at rest is remembered for the load that stands there.
LEMMA RestedShape ==
    ASSUME CrateInv
    PROVE  /\ Rested \in [Loads -> 0 .. MaxTubes]
           /\ scene.load \in Loads => Rested[scene.load] = scene.tubes
           /\ \A c \in Loads : scene.load # c => Rested[c] = stood[c]
<1>1. scene \in Scenes /\ stood \in [Loads -> 0 .. MaxTubes]
  BY DEF CrateInv, CrateTypes
<1>2. scene.load \in Loads => scene.tubes \in 0 .. MaxTubes
  BY <1>1 DEF Scenes
<1> QED BY <1>1, <1>2 DEF Rested

LEMMA ModePoll ==
    ASSUME CrateInv, PollMode
    PROVE  CrateInv'
<1>1. /\ trig' = FreshTrigger(VisionMode, trig.empties)
      /\ moved' = TRUE /\ big' = FALSE
      /\ missed' = missed \cup LoadsOf({trig.held}) /\ loop = "wait"
      /\ UNCHANGED <<scene, used, loop, why, firedIn, counts, stood, doubtful>>
  BY DEF PollMode, ChangeMode
<1>2. trig.empties \in Seq(Scenes)
  BY <1>1, PollShape
<1>3. /\ trig' \in Triggers /\ trig'.empties = trig.empties
      /\ trig'.held = NoShot /\ trig'.pending = NoShot /\ trig'.fired = NoShot
  BY <1>1, <1>2, FreshShape, ModeShape
<1>4. CrateTypes'
  BY <1>1, <1>3 DEF CrateInv, CrateTypes, LoadsOf
<1>5. ModeInv'
  BY <1>1, <1>3 DEF ModeInv, Going
<1>6. ASSUME NEW c \in Loads \ doubtful' PROVE CrateAt(c)'
  <2>1. CrateAt(c)
    BY <1>1, <1>6 DEF CrateInv
  <2> QED BY <1>1, <1>3, <2>1 DEF CrateAt, WasPut, Stands, Once, LastSeen, Of, Empties
<1> QED BY <1>4, <1>5, <1>6 DEF CrateInv

LEMMA QuietPoll ==
    ASSUME CrateInv, PollQuiet
    PROVE  CrateInv'
<1>1. /\ UNCHANGED <<scene, used, loop, why, firedIn, counts, doubtful, missed>>
      /\ moved' = FALSE /\ big' = FALSE /\ stood' = Rested /\ loop = "wait"
  BY DEF PollQuiet, Quiet, ArrivalQuiet, DepartureQuiet, Hold, ToKeep, AtRest
<1>2. /\ trig \in Triggers /\ trig.pending = NoShot /\ scene \in Scenes /\ scene.tubes \in Int
      /\ trig.held # NoShot => trig.held.tubes \in Int
      /\ \A e \in Empties : e \in Scenes /\ e.tubes \in Int
      /\ NoShot \notin Scenes
  BY <1>1, PollShape
<1>3. \/ /\ trig.mode = "arrival" /\ trig' = [trig EXCEPT !.baseline = scene]
      \/ /\ trig.held \in {NoShot, scene} /\ UNCHANGED trig
      \/ /\ trig.mode = "departure" /\ trig' = [trig EXCEPT !.held = scene]
         /\ scene \notin Empties
         /\ trig.held # NoShot => trig.held.load = scene.load
  BY <1>2 DEF PollQuiet, Quiet, ArrivalQuiet, DepartureQuiet, Hold, ToKeep, AtRest, HasLeft,
         KnownEmpty, Empties
<1>4. /\ trig' \in Triggers /\ trig'.mode = trig.mode /\ trig'.pending = NoShot
      /\ trig'.fired = trig.fired /\ trig'.empties = trig.empties
  BY <1>2, <1>3 DEF Triggers, Shots
<1>5. \/ trig'.held = trig.held /\ (trig.held \in {NoShot, scene} \/ trig.mode = "arrival")
      \/ /\ trig.mode = "departure" /\ trig'.held = scene /\ scene \notin Empties
         /\ trig.held # NoShot => trig.held.load = scene.load
  BY <1>2, <1>3 DEF Triggers
<1>6. CrateTypes'
  BY <1>1, <1>4, RestedShape DEF CrateInv, CrateTypes
<1>7. ModeInv'
  BY <1>1, <1>2, <1>4, <1>5 DEF CrateInv, ModeInv, Going
<1>8. ASSUME NEW c \in Loads \ doubtful' PROVE CrateAt(c)'
  <2>1. CrateAt(c)
    BY <1>1, <1>8 DEF CrateInv
  <2>2. WasPut(c)'
    BY <1>1, <1>4, <1>5, <2>1 DEF CrateAt, WasPut, Of, Empties
  <2>3. scene.load = c => \A e \in Empties : e.load = c /\ scene \notin Empties => e.tubes < scene.tubes
    <3> SUFFICES ASSUME scene.load = c, NEW e \in Empties, e.load = c, scene \notin Empties
                 PROVE  e.tubes < scene.tubes
      OBVIOUS
    <3>1. e.tubes <= scene.tubes
      BY <2>1 DEF CrateAt, Stands
    <3>2. e \in Scenes /\ e # scene
      BY <1>2
    <3>3. e.tubes # scene.tubes
      BY <1>2, <3>2 DEF Scenes
    <3> QED BY <1>2, <3>1, <3>3
  <2>4. Stands(c)'
    BY <1>1, <1>2, <1>4, <1>5, <2>1, <2>3 DEF CrateAt, Stands, Of, Empties
  <2>5. Once(c)'
    BY <1>1, <1>2, <1>4, <1>5, <2>1 DEF CrateAt, Stands, Once, Of
  <2>6. LastSeen(c)'
    <3>1. Of(trig'.held, c) /\ trig'.held = trig.held => trig.held = scene
      BY <1>5, <2>1 DEF Of, CrateInv, ModeInv
    <3>2. Of(trig'.held, c) => trig'.held = scene
      BY <1>5, <3>1
    <3>3. scene.load = c => stood'[c] = scene.tubes
      BY <1>1, <1>8, RestedShape
    <3> QED BY <1>4, <3>2, <3>3 DEF LastSeen, Of
  <2> QED BY <2>2, <2>4, <2>5, <2>6 DEF CrateAt
<1> QED BY <1>6, <1>7, <1>8 DEF CrateInv

\* The camera raises while a picture is to be kept.
LEMMA HoldFailsPoll ==
    ASSUME CrateInv, PollHoldFails
    PROVE  CrateInv'
<1>1. /\ UNCHANGED <<trig, scene, used, loop, why, firedIn, counts, doubtful>>
      /\ moved' = FALSE /\ big' = FALSE /\ stood' = Rested /\ loop = "wait"
      /\ missed' = missed \cup LoadsOf({scene})
  BY DEF PollHoldFails, HoldFails, ToKeep, AtRest
<1>2. trig.pending = NoShot /\ scene \in Scenes /\ NoShot \notin Scenes
  BY <1>1, PollShape
<1>3. CrateTypes'
  BY <1>1, RestedShape DEF CrateInv, CrateTypes, LoadsOf
<1>4. ModeInv'
  BY <1>1 DEF CrateInv, ModeInv
<1>5. ASSUME NEW c \in Loads \ doubtful' PROVE CrateAt(c)'
  <2>1. CrateAt(c)
    BY <1>1, <1>5 DEF CrateInv
  <2>2. c \notin missed' => c \notin missed /\ scene.load # c
    BY <1>1, <1>2, <1>5 DEF LoadsOf
  <2>3. scene.load # c => stood'[c] = stood[c]
    BY <1>1, <1>5, RestedShape
  <2>4. LastSeen(c)'
    BY <1>1, <2>1, <2>2, <2>3 DEF CrateAt, LastSeen, Of
  <2> QED BY <1>1, <2>1, <2>4 DEF CrateAt, WasPut, Stands, Once, Of, Empties
<1> QED BY <1>3, <1>4, <1>5 DEF CrateInv

\* A load has come to rest in arrival mode.
LEMMA ArrivalPoll ==
    ASSUME CrateInv, PollFires, ArrivalFires
    PROVE  CrateInv'
<1>1. /\ UNCHANGED <<scene, used, counts, doubtful, missed>>
      /\ moved' = FALSE /\ big' = FALSE /\ stood' = Rested
      /\ loop = "wait" /\ loop' = "ask" /\ why' = "trigger" /\ firedIn' = "arrival"
      /\ trig.mode = "arrival" /\ trig' = [trig EXCEPT !.baseline = scene, !.fired = scene]
  BY DEF PollFires, ArrivalFires, AtRest, Goes
<1>2. trig \in Triggers /\ trig.pending = NoShot /\ scene \in Scenes /\ scene.tubes \in Int
  BY <1>1, PollShape
<1>3. /\ trig' \in Triggers /\ trig'.mode = "arrival" /\ trig'.pending = NoShot
      /\ trig'.held = trig.held /\ trig'.fired = scene /\ trig'.empties = trig.empties
  BY <1>1, <1>2 DEF Triggers, Shots
<1>4. trig.held = NoShot
  BY <1>1 DEF CrateInv, ModeInv
<1>5. CrateTypes'
  BY <1>1, <1>3, RestedShape DEF CrateInv, CrateTypes, Loops, Reasons, Modes
<1>6. ModeInv'
  BY <1>1, <1>3, <1>4 DEF ModeInv
<1>7. ASSUME NEW c \in Loads \ doubtful' PROVE CrateAt(c)'
  <2>1. CrateAt(c)
    BY <1>1, <1>7 DEF CrateInv
  <2> QED BY <1>1, <1>2, <1>3, <1>4, <2>1
          DEF CrateAt, WasPut, Stands, Once, LastSeen, Of, Empties
<1> QED BY <1>5, <1>6, <1>7 DEF CrateInv

\* The crate of the picture kept has left: the picture is handed out, and the
\* next load, if there is one, is kept.
LEMMA DeparturePoll ==
    ASSUME CrateInv, PollFires, DepartureFires \/ DepartureFiresUnkept
    PROVE  CrateInv'
<1>1. /\ UNCHANGED <<scene, used, counts, doubtful, missed>>
      /\ moved' = FALSE /\ big' = FALSE /\ stood' = Rested
      /\ loop = "wait" /\ loop' = "ask" /\ why' = "trigger" /\ firedIn' = "departure"
      /\ trig.mode = "departure" /\ trig.held # NoShot
      /\ KnownEmpty \/ HasLeft(trig.held)
  BY DEF PollFires, DepartureFires, DepartureFiresUnkept, Emit, AtRest, Goes
<1>2. PICK kept \in {NoShot, scene} :
          /\ trig' = [trig EXCEPT !.pending = trig.held, !.fired = trig.held, !.held = kept]
          /\ kept = scene => scene \notin Empties \/ scene = NoShot
  BY DEF DepartureFires, DepartureFiresUnkept, Emit, KnownEmpty, Empties
<1>3. /\ trig \in Triggers /\ trig.held \in Shots /\ trig.pending = NoShot
      /\ scene \in Scenes /\ scene.tubes \in Int /\ trig.held.tubes \in Int
      /\ \A e \in Empties : e \in Scenes /\ e.tubes \in Int
      /\ NoShot \notin Scenes
  BY <1>1, PollShape
<1>4. /\ trig' \in Triggers /\ trig'.mode = "departure" /\ trig'.pending = trig.held
      /\ trig'.held = kept /\ trig'.fired = trig.held /\ trig'.empties = trig.empties
  BY <1>1, <1>2, <1>3 DEF Triggers, Shots
<1>5. CrateTypes'
  BY <1>1, <1>4, RestedShape DEF CrateInv, CrateTypes, Loops, Reasons, Modes
<1>6. ModeInv'
  BY <1>1, <1>4 DEF ModeInv, Going
<1>7. ASSUME NEW c \in Loads \ doubtful' PROVE CrateAt(c)'
  <2>1. CrateAt(c)
    BY <1>1, <1>7 DEF CrateInv
  <2>2. trig.held.load = c => scene.load # c
    <3> SUFFICES ASSUME trig.held.load = c, scene.load = c PROVE FALSE
      OBVIOUS
    <3>1. /\ trig.held.tubes <= scene.tubes
          /\ \A e \in Empties : e.load = c => e.tubes < trig.held.tubes
      BY <1>1, <2>1 DEF CrateAt, Stands, Of
    <3>2. scene \notin Empties
      BY <1>3, <3>1
    <3> QED BY <1>1, <1>3, <3>1, <3>2 DEF KnownEmpty, Empties, HasLeft
  <2>3. WasPut(c)'
    BY <1>1, <1>4, <2>1 DEF CrateAt, WasPut, Of, Empties
  <2>4. scene.load = c /\ kept = scene => \A e \in Empties : e.load = c => e.tubes < scene.tubes
    <3> SUFFICES ASSUME scene.load = c, kept = scene, NEW e \in Empties, e.load = c
                 PROVE  e.tubes < scene.tubes
      OBVIOUS
    <3>1. e.tubes <= scene.tubes
      BY <2>1 DEF CrateAt, Stands
    <3>2. e \in Scenes /\ e # scene
      BY <1>2, <1>3
    <3>3. e.tubes # scene.tubes
      BY <1>3, <3>2 DEF Scenes
    <3> QED BY <1>3, <3>1, <3>3
  <2>5. Stands(c)'
    BY <1>1, <1>2, <1>3, <1>4, <2>1, <2>2, <2>4 DEF CrateAt, Stands, Of, Empties
  <2>6. Once(c)'
    BY <1>1, <1>2, <1>4, <2>1, <2>2 DEF CrateAt, Stands, Once, Of
  <2>7. LastSeen(c)'
    <3>1. scene.load # c => stood'[c] = stood[c]
      BY <1>1, <1>7, RestedShape
    <3>2. scene.load = c => stood'[c] = scene.tubes
      BY <1>1, <1>7, RestedShape
    <3> QED BY <1>1, <1>2, <1>4, <2>1, <2>2, <3>1, <3>2 DEF CrateAt, LastSeen, Of
  <2> QED BY <2>3, <2>5, <2>6, <2>7 DEF CrateAt
<1> QED BY <1>5, <1>6, <1>7 DEF CrateInv

LEMMA Polls ==
    ASSUME CrateInv, PollMode \/ PollQuiet \/ PollHoldFails \/ PollFires
    PROVE  CrateInv'
<1>1. PollFires => ArrivalFires \/ DepartureFires \/ DepartureFiresUnkept
  BY DEF PollFires, Fires
<1> QED BY <1>1, ModePoll, QuietPoll, HoldFailsPoll, ArrivalPoll, DeparturePoll

-----------------------------------------------------------------------------
(* The cycle *)

\* The trigger once the picture has been taken: nothing waits any more.
LEMMA GrabShape ==
    ASSUME CrateInv, loop = "cycle"
    PROVE  /\ AfterGrab \in Triggers /\ AfterGrab.pending = NoShot
           /\ AfterGrab.mode = trig.mode /\ AfterGrab.held = trig.held
           /\ AfterGrab.fired = trig.fired /\ AfterGrab.empties = trig.empties
           /\ Held <=> trig.pending # NoShot
           /\ Held <=> why = "trigger" /\ firedIn = "departure"
<1>1. trig \in Triggers
  BY DEF CrateInv, CrateTypes
<1>2. trig.pending # NoShot <=> why = "trigger" /\ firedIn = "departure"
  BY DEF CrateInv, ModeInv, Going
<1>3. CASE why = "trigger"
  BY <1>1, <1>2, <1>3 DEF AfterGrab, Taken, Held, Triggers, Shots
<1>4. CASE why # "trigger"
  BY <1>1, <1>2, <1>4 DEF AfterGrab, Held
<1> QED BY <1>3, <1>4

\* The cycle ends: only the load of a picture handed out may be counted.
LEMMA GrabStep ==
    ASSUME CrateInv, loop = "cycle", trig' = AfterGrab,
           UNCHANGED <<scene, used, moved, big, stood, firedIn>>,
           loop' \in Loops \ Going, why' \in Reasons,
           counts' \in [Loads -> Nat],
           doubtful \subseteq doubtful', doubtful' \in SUBSET Loads,
           missed \subseteq missed', missed' \in SUBSET Loads,
           \A c \in Loads \ doubtful' :
               counts'[c] = counts[c] \/ (Of(trig.pending, c) /\ counts'[c] = counts[c] + 1)
    PROVE  CrateInv'
<1>1. /\ trig' \in Triggers /\ trig'.pending = NoShot /\ trig'.mode = trig.mode
      /\ trig'.held = trig.held /\ trig'.fired = trig.fired /\ trig'.empties = trig.empties
  BY GrabShape
<1>2. CrateTypes'
  BY <1>1 DEF CrateInv, CrateTypes
<1>3. ModeInv'
  BY <1>1 DEF CrateInv, ModeInv
<1>4. ASSUME NEW c \in Loads \ doubtful' PROVE CrateAt(c)'
  <2>1. CrateAt(c)
    BY <1>4 DEF CrateInv
  <2>2. CASE counts'[c] = counts[c]
    BY <1>1, <2>1, <2>2 DEF CrateAt, WasPut, Stands, Once, LastSeen, Of, Empties
  <2>3. CASE Of(trig.pending, c) /\ counts'[c] = counts[c] + 1
    <3>1. counts[c] = 0 /\ scene.load # c /\ ~Of(trig.held, c) /\ c \in used
      BY <2>1, <2>3 DEF CrateAt, WasPut, Stands, Once
    <3>2. counts'[c] = 1
      BY <2>3, <3>1
    <3> QED BY <1>1, <3>1, <3>2 DEF CrateAt, WasPut, Stands, Once, LastSeen, Of, Empties
  <2> QED BY <1>4, <2>2, <2>3
<1> QED BY <1>2, <1>3, <1>4 DEF CrateInv

LEMMA InspectStep ==
    ASSUME CrateInv, Inspects \/ InspectsUnsent
    PROVE  CrateInv'
<1>0. Inspected
  BY DEF Inspects, InspectsUnsent
<1>1. /\ loop = "cycle" /\ loop' \in {"beat", "top"} /\ trig' = AfterGrab /\ why' \in {why, "idle"}
      /\ UNCHANGED <<scene, used, moved, big, stood, firedIn>>
      /\ why \in Reasons /\ counts \in [Loads -> Nat]
      /\ firedIn \in {"arrival", "departure"}
  BY <1>0 DEF Inspects, InspectsUnsent, Inspected, Goes, CrateInv, CrateTypes, Modes
<1>2. counts' \in [Loads -> Nat]
  BY <1>0, <1>1 DEF Inspected, IsCount
<1>3. /\ doubtful \subseteq doubtful' /\ doubtful' \in SUBSET Loads
      /\ missed \subseteq missed' /\ missed' \in SUBSET Loads
  BY <1>0 DEF Inspected, LoadsOf, CrateInv, CrateTypes
<1>4. ASSUME NEW c \in Loads \ doubtful'
      PROVE  counts'[c] = counts[c] \/ (Of(trig.pending, c) /\ counts'[c] = counts[c] + 1)
  <2>1. CASE ~IsCount \/ Shot.load # c
    BY <1>0, <1>1, <1>2, <2>1 DEF Inspected
  <2>2. CASE IsCount /\ Shot.load = c /\ firedIn = "departure"
    <3>1. Shot = trig.pending /\ trig.pending # NoShot
      BY <1>1, <2>2, GrabShape DEF IsCount, Shot
    <3> QED BY <1>0, <1>1, <2>2, <3>1 DEF Inspected, Of
  <2>3. CASE IsCount /\ Shot.load = c /\ firedIn = "arrival"
    <3>1. Shot # NoShot
      <4>1. ~Held /\ Shot = scene
        BY <1>1, <2>3, GrabShape DEF Shot
      <4> QED BY <4>1 DEF CrateInv, CrateTypes
    <3>2. doubtful' = doubtful \cup LoadsOf({Shot})
      BY <1>0, <2>3 DEF Inspected
    <3>3. c \in LoadsOf({Shot})
      <4> HIDE DEF Shot
      <4> QED BY <2>3, <3>1 DEF LoadsOf
    <3> QED BY <1>4, <3>2, <3>3
  <2> QED BY <1>1, <2>1, <2>2, <2>3
<1> QED BY <1>1, <1>2, <1>3, <1>4, GrabStep DEF Loops, Going, Reasons

LEMMA FailedStep ==
    ASSUME CrateInv, GrabFails \/ InspectionFails
    PROVE  CrateInv'
<1>1. /\ loop = "cycle" /\ loop' \in {"beat", "top"} /\ trig' = AfterGrab
      /\ why' \in {why, "idle"}
      /\ UNCHANGED <<scene, used, moved, big, stood, firedIn, counts, doubtful>>
      /\ why \in Reasons /\ counts \in [Loads -> Nat] /\ doubtful \in SUBSET Loads
  BY DEF GrabFails, InspectionFails, Goes, Ghosts, CrateInv, CrateTypes
<1>2. missed \subseteq missed' /\ missed' \in SUBSET Loads
  BY DEF GrabFails, InspectionFails, Ghosts, LoadsOf, CrateInv, CrateTypes
<1> QED BY <1>1, <1>2, GrabStep DEF Loops, Going, Reasons

\* What learning a scene leaves of the trigger.
LEMMA LearnShape ==
    ASSUME CrateInv, loop = "cycle", Learn(AfterGrab, VisionMode)
    PROVE  /\ trig' \in Triggers /\ Len(trig'.empties) <= MaxEmpties
           /\ trig'.pending = NoShot
           /\ \/ trig'.mode = trig.mode /\ trig'.held = trig.held /\ trig'.fired = trig.fired
              \/ trig'.held = NoShot /\ trig'.fired = NoShot
           /\ Range(trig'.empties) \subseteq Empties \cup ({trig.fired} \ {NoShot})
           /\ moved' \in BOOLEAN /\ big' \in BOOLEAN /\ UNCHANGED <<scene, used>>
<1> DEFINE t == AfterGrab
<1> DEFINE es == SubSeq(Append(t.empties, t.fired),
                        IF Len(t.empties) < MaxEmpties THEN 1 ELSE 2, Len(t.empties) + 1)
<1> DEFINE learnt == IF t.mode = VisionMode THEN [t EXCEPT !.empties = es]
                     ELSE FreshTrigger(VisionMode, es)
<1> HIDE DEF t
<1>1. /\ t \in Triggers /\ t.pending = NoShot /\ t.mode = trig.mode /\ t.held = trig.held
      /\ t.fired = trig.fired /\ t.empties = trig.empties
  BY GrabShape DEF t
<1>2. Len(trig.empties) <= MaxEmpties /\ moved \in BOOLEAN /\ big \in BOOLEAN
  BY DEF CrateInv, CrateTypes
<1>3. /\ trig' = IF t.fired = NoShot THEN t
                 ELSE IF VisionMode = "arrival" THEN [learnt EXCEPT !.baseline = t.fired]
                 ELSE learnt
      /\ moved' = (moved \/ (t.fired # NoShot /\ t.mode # VisionMode))
      /\ big' = (big /\ ~(t.fired # NoShot /\ t.mode # VisionMode))
      /\ UNCHANGED <<scene, used>>
  BY DEF Learn, t
<1>4. CASE t.fired = NoShot
  BY <1>1, <1>2, <1>3, <1>4 DEF Empties
<1>5. CASE t.fired # NoShot
  <2>1. t.fired \in Scenes /\ t.empties \in Seq(Scenes) /\ t.fired \in Shots
    BY <1>1, <1>5 DEF Triggers, Shots
  <2>2. /\ es \in Seq(Scenes) /\ Len(es) <= MaxEmpties
        /\ Range(es) \subseteq Empties \cup {trig.fired}
    BY <1>1, <1>2, <2>1, Learnt DEF Empties
  <2> HIDE DEF es
  <2>3. /\ learnt \in Triggers /\ learnt.empties = es /\ learnt.pending = NoShot
        /\ \/ learnt.mode = trig.mode /\ learnt.held = trig.held /\ learnt.fired = trig.fired
           \/ learnt.held = NoShot /\ learnt.fired = NoShot
    <3>1. CASE t.mode = VisionMode
      BY <1>1, <2>2, <3>1 DEF Triggers
    <3>2. CASE t.mode # VisionMode
      BY <2>2, <3>2, FreshShape, ModeShape
    <3> QED BY <3>1, <3>2
  <2> HIDE DEF learnt
  <2>4. /\ trig' \in Triggers /\ trig'.empties = es /\ trig'.pending = NoShot
        /\ trig'.mode = learnt.mode /\ trig'.held = learnt.held /\ trig'.fired = learnt.fired
    BY <1>3, <1>5, <2>1, <2>3 DEF Triggers
  <2> QED BY <1>1, <1>2, <1>3, <1>5, <2>2, <2>3, <2>4
<1> QED BY <1>4, <1>5

LEMMA EmptyStep ==
    ASSUME CrateInv, EmptyCycle
    PROVE  CrateInv'
<1>1. /\ loop = "cycle" /\ loop' = "beat" /\ Learn(AfterGrab, VisionMode)
      /\ UNCHANGED <<why, firedIn, counts, stood, doubtful>>
  BY DEF EmptyCycle, Goes
<1>2. /\ trig' \in Triggers /\ Len(trig'.empties) <= MaxEmpties /\ trig'.pending = NoShot
      /\ \/ trig'.mode = trig.mode /\ trig'.held = trig.held /\ trig'.fired = trig.fired
         \/ trig'.held = NoShot /\ trig'.fired = NoShot
      /\ Range(trig'.empties) \subseteq Empties \cup ({trig.fired} \ {NoShot})
      /\ moved' \in BOOLEAN /\ big' \in BOOLEAN /\ UNCHANGED <<scene, used>>
  BY <1>1, LearnShape
<1>3. missed \subseteq missed' /\ missed' \in SUBSET Loads
  BY DEF EmptyCycle, LoadsOf, CrateInv, CrateTypes
<1>4. CrateTypes'
  BY <1>1, <1>2, <1>3 DEF CrateInv, CrateTypes, Loops
<1>5. ModeInv'
  BY <1>1, <1>2 DEF CrateInv, ModeInv, Going
<1>6. ASSUME NEW c \in Loads \ doubtful' PROVE CrateAt(c)'
  <2>1. CrateAt(c)
    BY <1>1, <1>6 DEF CrateInv
  <2>2. \A e \in Empties' : e \in Empties \/ (e = trig.fired /\ e # NoShot)
    BY <1>2 DEF Empties
  <2>3. WasPut(c)'
    BY <1>1, <1>2, <2>1, <2>2 DEF CrateAt, WasPut, Of
  <2>4. scene.load = c /\ Of(trig.fired, c) =>
            trig.fired.tubes <= scene.tubes /\ trig.held = NoShot
    BY <2>1 DEF CrateAt, Stands, CrateInv, ModeInv
  <2>5. Stands(c)'
    BY <1>1, <1>2, <2>1, <2>2, <2>4 DEF CrateAt, Stands, Of
  <2>6. Once(c)' /\ LastSeen(c)'
    BY <1>1, <1>2, <1>3, <2>1 DEF CrateAt, Once, LastSeen, Of
  <2> QED BY <2>3, <2>5, <2>6 DEF CrateAt
<1> QED BY <1>4, <1>5, <1>6 DEF CrateInv

LEMMA RestartStep ==
    ASSUME CrateInv, Restart
    PROVE  CrateInv'
<1>1. /\ trig' = FreshTrigger(VisionMode', <<>>) /\ VisionMode' \in Modes
      /\ moved' = TRUE /\ big' = FALSE /\ loop' = "top" /\ why' = "idle"
      /\ UNCHANGED <<scene, used, firedIn, counts, stood, doubtful>>
      /\ missed' = missed \cup LoadsOf({trig.held, trig.pending})
  BY DEF Restart, VisionMode, Modes
<1>2. /\ trig' \in Triggers /\ trig'.empties = <<>>
      /\ trig'.held = NoShot /\ trig'.pending = NoShot /\ trig'.fired = NoShot
  BY <1>1, EmptyList, FreshShape
<1>3. Len(trig'.empties) <= MaxEmpties /\ Empties' = {}
  BY <1>2, EmptyList DEF Empties
<1>4. CrateTypes'
  BY <1>1, <1>2, <1>3 DEF CrateInv, CrateTypes, LoadsOf, Loops, Reasons
<1>5. ModeInv'
  BY <1>1, <1>2 DEF ModeInv, Going
<1>6. ASSUME NEW c \in Loads \ doubtful' PROVE CrateAt(c)'
  <2>1. CrateAt(c)
    BY <1>1, <1>6 DEF CrateInv
  <2> QED BY <1>1, <1>2, <1>3, <2>1 DEF CrateAt, WasPut, Stands, Once, LastSeen, Of
<1> QED BY <1>4, <1>5, <1>6 DEF CrateInv

-----------------------------------------------------------------------------
(* The crates *)

LEMMA CrateStep == CrateInv /\ [Next]_vars => CrateInv'
<1> SUFFICES ASSUME CrateInv, [Next]_vars PROVE CrateInv'
  OBVIOUS
<1>0. loop \in Loops /\ why \in Reasons
  BY DEF CrateInv, CrateTypes
<1>1. CASE World
  BY <1>1, WorldStep
<1>2. CASE PollMode \/ PollQuiet \/ PollHoldFails \/ PollFires
  BY <1>2, Polls
<1>3. CASE EmptyCycle
  BY <1>3, EmptyStep
<1>4. CASE Inspects \/ InspectsUnsent
  BY <1>4, InspectStep
<1>5. CASE GrabFails \/ InspectionFails
  BY <1>5, FailedStep
<1>6. CASE Restart
  BY <1>6, RestartStep
<1>7. CASE Person \/ Screen \/ Publisher \/ UNCHANGED vars
  <2>1. UNCHANGED <<triggerVars, Ghosts, loop, why, firedIn>>
    BY <1>7 DEF Person, Screen, Publisher, vars, loopVars, Ghosts
  <2> QED BY <1>0, <2>1, LoopSteps
<1>8. CASE TakeRequest \/ WaitForTrigger \/ TriggerIdle \/ Beats \/ Obeys \/ BeatLost
  <2>1. /\ UNCHANGED <<triggerVars, Ghosts, firedIn>>
        /\ loop \in {"top", "wait", "beat", "obey"}
        /\ loop' \in {"top", "wait", "obey"} \/ (loop' = "ask" /\ why' \in {"manual", "idle"})
        /\ why' \in {why, "manual", "idle"}
    BY <1>8 DEF TakeRequest, WaitForTrigger, TriggerIdle, Beats, Obeys, BeatLost, Goes
  <2> QED BY <1>0, <2>1, LoopSteps DEF Loops, Reasons, Going
<1>9. CASE Asks \/ Switches \/ Refetches
  <2>1. /\ UNCHANGED <<triggerVars, Ghosts, firedIn, why>>
        /\ loop \in {"ask", "switch", "refetch"}
        /\ loop' \in {"switch", "refetch", "cycle"} \/ (loop' = "beat" /\ why = "idle")
    BY <1>9 DEF Asks, Switches, Refetches, Goes
  <2> QED BY <1>0, <2>1, LoopSteps DEF Loops, Reasons, Going
<1> QED BY <1>1, <1>2, <1>3, <1>4, <1>5, <1>6, <1>7, <1>8, <1>9 DEF Next, Turn

LEMMA CratesHold == Spec => []CrateInv
  BY CrateInitially, CrateStep, PTL DEF Spec

\* For every number of loads and tubes, whatever is put before the camera,
\* whatever mode the station changes to, whoever asks for pictures and whatever
\* fails: a crate is counted at most once, unless tubes were taken out of it or
\* the stage changed between the trigger and the picture.
THEOREM CountedOnce == Spec => []CrateCountedOnce
<1>1. CrateInv => CrateCountedOnce
  BY DEF CrateInv, CrateAt, Once, CrateCountedOnce
<1> QED BY <1>1, CratesHold, PTL

\* The picture the trigger keeps for a crate, and the one it hands out when the
\* crate has left, show it as it last stood at rest.
THEOREM KeptAsItStood == Spec => []KeptIsLastScene
<1>1. CrateInv => KeptIsLastScene
  BY DEF CrateInv, CrateAt, LastSeen, Of, KeptIsLastScene
<1> QED BY <1>1, CratesHold, PTL

-----------------------------------------------------------------------------
(* The types *)

LiveInv == LiveTypeOK /\ reply \in Answers

LEMMA LiveInitially == Init => LiveInv
<1> SUFFICES ASSUME Init PROVE LiveInv
  OBVIOUS
<1>1. NoAnswer \in Answers
  BY DEF NoAnswer, Answers
<1>2. relay = Blank /\ sending = <<"no", NoAnswer>> /\ fails = 0 /\ reply = NoAnswer
  BY DEF Init, LiveInit, Idle
<1>3. /\ screen \in BOOLEAN /\ active \in BOOLEAN /\ capture \in BOOLEAN
      /\ late \in BOOLEAN /\ lost \in BOOLEAN
  BY DEF Init, LiveInit
<1>4. Blank \in [requested : BOOLEAN, capture : BOOLEAN, frame : BOOLEAN]
  BY DEF Blank
<1>5. sending \in {"no", "sent", "answered"} \X Answers
  BY <1>1, <1>2
<1> QED BY <1>1, <1>2, <1>3, <1>4, <1>5 DEF LiveInv, LiveTypeOK

LEMMA RelayShape ==
    ASSUME LiveInv
    PROVE  /\ sending[1] \in {"no", "sent", "answered"} /\ sending[2] \in Answers
           /\ sending[2].live \in BOOLEAN /\ sending[2].capture \in BOOLEAN
           /\ reply.live \in BOOLEAN /\ reply.capture \in BOOLEAN
           /\ relay.requested \in BOOLEAN /\ relay.capture \in BOOLEAN /\ relay.frame \in BOOLEAN
           /\ Wants \in Answers /\ NoAnswer \in Answers
           /\ Idle \in {"no", "sent", "answered"} \X Answers
<1>1. sending[1] \in {"no", "sent", "answered"} /\ sending[2] \in Answers /\ reply \in Answers
  BY DEF LiveInv, LiveTypeOK
<1>2. relay \in [requested : BOOLEAN, capture : BOOLEAN, frame : BOOLEAN]
  BY DEF LiveInv, LiveTypeOK
<1> QED BY <1>1, <1>2 DEF Answers, Wants, NoAnswer, Idle

LEMMA ScreenStep ==
    ASSUME LiveInv, Screen
    PROVE  LiveInv'
<1>1. UNCHANGED <<active, sending, fails, capture, late, reply>>
  BY DEF Screen, StartView, StopView, LeaveScreen, RunsOut, SessionOver, RequestCapture,
         RestartApi, publisherVars
<1>2. screen' \in BOOLEAN /\ lost' \in BOOLEAN
  BY RelayShape DEF Screen, StartView, StopView, LeaveScreen, RunsOut, SessionOver,
         RequestCapture, RestartApi, publisherVars, LiveInv, LiveTypeOK
<1>3. relay' \in [requested : BOOLEAN, capture : BOOLEAN, frame : BOOLEAN]
  <2>0. relay \in [requested : BOOLEAN, capture : BOOLEAN, frame : BOOLEAN]
    BY DEF LiveInv, LiveTypeOK
  <2>1. ASSUME NEW r \in BOOLEAN, NEW f \in BOOLEAN
        PROVE  [relay EXCEPT !.requested = r, !.frame = f]
                   \in [requested : BOOLEAN, capture : BOOLEAN, frame : BOOLEAN]
    BY <2>0
  <2>2. CASE StartView
    <3>1. (relay.frame /\ relay.requested) \in BOOLEAN
      OBVIOUS
    <3>2. relay' = [relay EXCEPT !.requested = TRUE, !.frame = relay.frame /\ relay.requested]
      BY <2>2 DEF StartView
    <3> QED BY <2>1, <3>1, <3>2
  <2>3. CASE StopView
    <3>1. relay' = [relay EXCEPT !.requested = FALSE, !.frame = FALSE]
      BY <2>3 DEF StopView
    <3> QED BY <2>1, <3>1
  <2>4. CASE LeaveScreen \/ RunsOut \/ SessionOver \/ RequestCapture
    <3>1. \/ relay' = relay
          \/ relay' = [relay EXCEPT !.requested = FALSE]
          \/ relay' = [relay EXCEPT !.capture = TRUE]
      BY <2>4 DEF LeaveScreen, RunsOut, SessionOver, RequestCapture
    <3> QED BY <2>0, <3>1
  <2>5. CASE RestartApi
    BY <2>5 DEF RestartApi, Blank
  <2> QED BY <2>2, <2>3, <2>4, <2>5 DEF Screen
<1> QED BY <1>1, <1>2, <1>3 DEF LiveInv, LiveTypeOK

LEMMA PublisherStep ==
    ASSUME LiveInv, Publisher
    PROVE  LiveInv'
<1>0. UNCHANGED <<screen, reply>>
  BY DEF Publisher, Publish, SendFrame, FrameArrives, Answered, LateFrame, NoPreview,
         AnswerLost, FrameLost
<1>1. relay' \in [requested : BOOLEAN, capture : BOOLEAN, frame : BOOLEAN]
  BY RelayShape DEF Publisher, Publish, SendFrame, FrameArrives, Answered, LateFrame, NoPreview,
         AnswerLost, FrameLost, RelayAfterFrame, LiveInv, LiveTypeOK
<1>2. sending' \in {"no", "sent", "answered"} \X Answers
  BY RelayShape DEF Publisher, Publish, SendFrame, FrameArrives, Answered, LateFrame, NoPreview,
         AnswerLost, FrameLost, LiveInv, LiveTypeOK
<1>3. active' \in BOOLEAN
  BY RelayShape DEF Publisher, Publish, SendFrame, FrameArrives, Answered, LateFrame, NoPreview,
         AnswerLost, FrameLost, Fails, LiveInv, LiveTypeOK
<1>4. fails' \in 0 .. MaxFails
  <2>1. fails' = fails \/ fails' = 0 \/ Fails
    BY DEF Publisher, Publish, SendFrame, FrameArrives, Answered, LateFrame, NoPreview,
           AnswerLost, FrameLost
  <2>2. fails' \in {fails, 0} \/ (fails < MaxFails /\ fails' = fails + 1)
    BY <2>1 DEF Fails
  <2> QED BY <2>2 DEF LiveInv, LiveTypeOK
<1>5. capture' \in BOOLEAN /\ late' \in BOOLEAN /\ lost' \in BOOLEAN
  BY RelayShape DEF Publisher, Publish, SendFrame, FrameArrives, Answered, LateFrame, NoPreview,
         AnswerLost, FrameLost, LiveInv, LiveTypeOK
<1> QED BY <1>0, <1>1, <1>2, <1>3, <1>4, <1>5 DEF LiveInv, LiveTypeOK

LEMMA HeartbeatStep ==
    ASSUME LiveInv, TakeRequest \/ Beats \/ Obeys \/ BeatLost \/ Restart
    PROVE  LiveInv'
<1>1. reply' \in Answers
  BY RelayShape DEF TakeRequest, Beats, Obeys, BeatLost, Restart, LiveInv
<1>2. relay' \in [requested : BOOLEAN, capture : BOOLEAN, frame : BOOLEAN]
  BY RelayShape DEF TakeRequest, Beats, Obeys, BeatLost, Restart, RestartPublisher,
         RelayAfterBeat, LiveInv, LiveTypeOK
<1>3. sending' \in {"no", "sent", "answered"} \X Answers /\ screen' \in BOOLEAN
  BY RelayShape DEF TakeRequest, Beats, Obeys, BeatLost, Restart, RestartPublisher, LiveInv,
         LiveTypeOK
<1>4. active' \in BOOLEAN /\ capture' \in BOOLEAN
  BY RelayShape DEF TakeRequest, Beats, Obeys, BeatLost, Restart, RestartPublisher, Obey,
         LiveInv, LiveTypeOK
<1>5. fails' \in 0 .. MaxFails
  <2>1. fails' \in {fails, 0}
    BY DEF TakeRequest, Beats, Obeys, BeatLost, Restart, RestartPublisher, Obey
  <2> QED BY <2>1 DEF LiveInv, LiveTypeOK
<1>6. late' \in BOOLEAN /\ lost' \in BOOLEAN
  BY RelayShape DEF TakeRequest, Beats, Obeys, BeatLost, Restart, RestartPublisher, LiveInv,
         LiveTypeOK
<1> QED BY <1>1, <1>2, <1>3, <1>4, <1>5, <1>6 DEF LiveInv, LiveTypeOK

LEMMA LiveStep == LiveInv /\ [Next]_vars => LiveInv'
<1> SUFFICES ASSUME LiveInv, [Next]_vars PROVE LiveInv'
  OBVIOUS
<1>1. CASE UNCHANGED <<liveVars, reply>>
  BY <1>1 DEF liveVars, LiveInv, LiveTypeOK
<1>2. \/ Screen \/ Publisher \/ TakeRequest \/ Beats \/ Obeys \/ BeatLost \/ Restart
      \/ UNCHANGED <<liveVars, reply>>
  BY DEF Next, Person, World, Turn, WaitForTrigger, PollMode, PollQuiet, PollFires, Asks,
         Switches, Refetches, EmptyCycle, Inspects, InspectsUnsent, Inspected, TriggerIdle,
         PollHoldFails, GrabFails,
         InspectionFails, vars, loopVars
<1> QED BY <1>1, <1>2, ScreenStep, PublisherStep, HeartbeatStep

\* Every variable of the trigger, the orders, the live view and the loop keeps
\* its type.
THEOREM StationTypeCorrect == Spec => []TypeOK
<1>1. Spec => []LabelInv /\ []LiveInv
  BY LabelInitially, LabelStep, LiveInitially, LiveStep, PTL DEF Spec
<1>2. LabelInv /\ LiveInv /\ CrateInv => TypeOK
  <2> SUFFICES ASSUME LabelInv, LiveInv, CrateInv PROVE TypeOK
    OBVIOUS
  <2>1. /\ OrderTypeOK /\ LiveTypeOK /\ reply \in Answers
        /\ loop \in Loops /\ why \in Reasons /\ firedIn \in Modes
        /\ counts \in [Loads -> Nat] /\ stood \in [Loads -> 0 .. MaxTubes]
        /\ doubtful \cup missed \subseteq Loads
    BY DEF LabelInv, LiveInv, CrateInv, CrateTypes
  <2>2. /\ trig \in Triggers /\ Len(trig.empties) <= MaxEmpties
        /\ scene \in Scenes /\ used \in SUBSET Loads /\ moved \in BOOLEAN /\ big \in BOOLEAN
    BY DEF CrateInv, CrateTypes
  <2>3. Range(trig.empties) \subseteq Scenes
    BY <2>2 DEF Triggers, Range
  <2>4. TriggerTypeOK
    BY <2>2, <2>3 DEF TriggerTypeOK, Triggers, Shots
  <2> QED BY <2>1, <2>4 DEF TypeOK
<1> QED BY <1>1, <1>2, CratesHold, PTL

-----------------------------------------------------------------------------
(* No crate is forgotten *)

\* The trigger keeps a picture of load c, or has handed one out.
InHand(c) == Of(trig.held, c) \/ Of(trig.pending, c)

\* A load in hand stays in hand until it is counted, or named in missed.
CarriedOn(c) == InHand(c) => InHand(c)' \/ counts'[c] = counts[c] + 1 \/ c \in missed'

\* A crate the trigger has kept a picture of is not dropped: the picture is
\* kept, replaced by a later one of the same crate, or handed out, and the one
\* handed out is counted - unless the stage changed, the camera or the
\* inspection failed, the crate was taken for none, or the worker died
\* (VisionTrigger._stable_departure, take_frame, Worker.run).
KeptUntilCounted == [][\A c \in Loads : CarriedOn(c)]_vars

\* The polls: a picture is handed out when none waits.
LEMMA PollCarries ==
    ASSUME CrateInv, NEW c \in Loads, PollMode \/ PollQuiet \/ PollHoldFails \/ PollFires
    PROVE  CarriedOn(c)
<1>0. trig.pending = NoShot /\ trig \in Triggers /\ loop = "wait"
  <2>1. loop = "wait"
    BY DEF PollMode, PollQuiet, PollHoldFails, PollFires, Goes
  <2> QED BY <2>1, PollShape
<1>1. CASE PollMode
  BY <1>0, <1>1 DEF PollMode, CarriedOn, InHand, Of, LoadsOf
<1>2. CASE trig.held' = scene /\ ToKeep /\ trig'.pending = trig.pending
  BY <1>0, <1>2 DEF ToKeep, HasLeft, CarriedOn, InHand, Of, CrateInv, CrateTypes, Scenes, Shots
<1>3. CASE trig'.held = trig.held /\ trig'.pending = trig.pending
  BY <1>3 DEF CarriedOn, InHand, Of
<1>4. CASE trig'.pending = trig.held
  BY <1>0, <1>4 DEF CarriedOn, InHand, Of
<1>5. CASE PollQuiet
  <2>1. CASE Hold
    BY <1>0, <1>2, <2>1 DEF Hold, Triggers
  <2>2. CASE ArrivalQuiet \/ DepartureQuiet
    BY <1>0, <1>3, <2>2 DEF ArrivalQuiet, DepartureQuiet, Triggers
  <2> QED BY <1>5, <2>1, <2>2 DEF PollQuiet, Quiet
<1>6. CASE PollHoldFails
  BY <1>3, <1>6 DEF PollHoldFails, HoldFails
<1>7. CASE PollFires
  <2>1. CASE ArrivalFires
    BY <1>0, <1>3, <2>1 DEF ArrivalFires, Triggers
  <2>2. CASE DepartureFires \/ DepartureFiresUnkept
    BY <1>0, <1>4, <2>2 DEF DepartureFires, DepartureFiresUnkept, Emit, Triggers
  <2> QED BY <1>7, <2>1, <2>2 DEF PollFires, Fires
<1> QED BY <1>1, <1>5, <1>6, <1>7

\* The cycle: the picture handed out is counted, or its load missed, and what
\* is kept of the next load stays.
LEMMA CycleCarries ==
    ASSUME CrateInv, NEW c \in Loads,
           EmptyCycle \/ Inspects \/ InspectsUnsent \/ GrabFails \/ InspectionFails
    PROVE  CarriedOn(c)
<1>0. /\ loop = "cycle" /\ AfterGrab.held = trig.held
      /\ Held <=> trig.pending # NoShot
      /\ Held <=> why = "trigger" /\ firedIn = "departure"
  <2>1. loop = "cycle"
    BY DEF EmptyCycle, Inspects, InspectsUnsent, Inspected, GrabFails, InspectionFails, Goes
  <2> QED BY <2>1, GrabShape
<1>1. trig.pending # NoShot => Shot = trig.pending
  BY <1>0 DEF Shot
<1>2. CASE EmptyCycle
  <2>1. /\ trig'.held = trig.held \/ trig'.held = NoShot
        /\ missed' = missed \cup LoadsOf({Shot} \cup ({trig.held} \ {trig'.held}))
    BY <1>0, <1>2, LearnShape DEF EmptyCycle
  <2>2. Of(trig.pending, c) => c \in missed'
    BY <1>1, <2>1 DEF Of, LoadsOf
  <2>3. Of(trig.held, c) => Of(trig'.held, c) \/ c \in missed'
    BY <2>1 DEF Of, LoadsOf
  <2> QED BY <2>2, <2>3 DEF CarriedOn, InHand, Of
<1>3. CASE Inspects \/ InspectsUnsent
  <2>1. trig' = AfterGrab
    BY <1>3 DEF Inspects, InspectsUnsent, Inspected
  <2>2. ASSUME Of(trig.pending, c) PROVE counts'[c] = counts[c] + 1 \/ c \in missed'
    <3>1. Shot.load = c /\ Shot # NoShot /\ why = "trigger" /\ firedIn = "departure"
      BY <1>0, <1>1, <2>2 DEF Of
    <3>2. CASE IsCount
      <4>1. counts' = [counts EXCEPT ![c] = @ + 1] /\ counts \in [Loads -> Nat]
        BY <1>3, <3>1, <3>2 DEF Inspects, InspectsUnsent, Inspected, CrateInv, CrateTypes
      <4> QED BY <4>1
    <3>3. CASE ~IsCount
      BY <1>3, <3>1, <3>3 DEF Inspects, InspectsUnsent, Inspected, LoadsOf
    <3> QED BY <3>2, <3>3
  <2> QED BY <1>0, <2>1, <2>2 DEF CarriedOn, InHand, Of
<1>4. CASE GrabFails
  BY <1>0, <1>4 DEF GrabFails, CarriedOn, InHand, Of
<1>5. CASE InspectionFails
  <2>1. trig' = AfterGrab /\ missed' = IF Held THEN missed \cup LoadsOf({Shot}) ELSE missed
    BY <1>5 DEF InspectionFails
  <2>2. Of(trig.pending, c) => c \in missed'
    BY <1>0, <1>1, <2>1 DEF Of, LoadsOf
  <2> QED BY <1>0, <2>1, <2>2 DEF CarriedOn, InHand, Of
<1> QED BY <1>2, <1>3, <1>4, <1>5

\* A crate the trigger has kept is in hand until it is counted, whatever is put
\* before the camera meanwhile and whoever asks for pictures - unless what
\* missed names has happened.  With CountedOnce: it is counted exactly once.
THEOREM NoCrateForgotten == Spec => KeptUntilCounted
<1>1. CrateInv /\ [Next]_vars => [\A c \in Loads : CarriedOn(c)]_vars
  <2> SUFFICES ASSUME CrateInv, Next, NEW c \in Loads PROVE CarriedOn(c)
    OBVIOUS
  <2>1. CASE UNCHANGED trig
    BY <2>1 DEF CarriedOn, InHand, Of
  <2>2. CASE Restart
    BY <2>2 DEF Restart, CarriedOn, InHand, Of, LoadsOf
  <2>3. \/ UNCHANGED trig \/ Restart
        \/ PollMode \/ PollQuiet \/ PollHoldFails \/ PollFires
        \/ EmptyCycle \/ Inspects \/ InspectsUnsent \/ GrabFails \/ InspectionFails
    BY DEF Next, Turn, Person, World, Bring, TakeAway, AddTubes, Hand, TakeTubes, Shows, Screen,
           Publisher, TakeRequest, WaitForTrigger, TriggerIdle, Asks, Switches, Refetches, Beats,
           Obeys, BeatLost, triggerVars
  <2> QED BY <2>1, <2>2, <2>3, PollCarries, CycleCarries
<1> QED BY <1>1, CratesHold, PTL DEF Spec, KeptUntilCounted

-----------------------------------------------------------------------------
(* No request for a picture is forgotten *)

\* The turn that serves a person's request, before the picture is taken.
ManualTurn == why = "manual" /\ loop \in {"ask", "switch", "refetch"}

\* Where a request may be, and where it is next.
RequestMoves ==
    /\ relay.capture => relay'.capture \/ reply'.capture \/ sending'[2].capture \/ lost'
    /\ reply.capture => reply'.capture \/ capture' \/ lost'
    /\ sending[2].capture => sending'[2].capture \/ capture' \/ lost'
    /\ capture => capture' \/ ManualTurn' \/ lost'
    /\ ManualTurn => ManualTurn' \/ (why' = "manual" /\ loop' = "cycle") \/ lost'

\* A picture somebody asked for is handed on from the relay to an answer - to a
\* heartbeat or to a frame -, from there to the worker and from there to a turn
\* that takes it, and is dropped nowhere but where an answer is lost or one of
\* the two programs starts again (LiveRelay.wants, LivePublisher on_capture,
\* Worker._handle_commands).
RequestHandedOn == [][RequestMoves]_vars

\* A heartbeat carries a request only on its way back, a frame only in its answer.
CarriersInv ==
    /\ loop # "obey" => reply = NoAnswer
    /\ sending[1] # "answered" => sending[2] = NoAnswer

LEMMA CarriersInitially == Init => CarriersInv
  BY DEF Init, LiveInit, Idle, CarriersInv

LEMMA PublisherCarries ==
    ASSUME LiveInv, CarriersInv, Publisher
    PROVE  CarriersInv' /\ RequestMoves
<1>0. /\ sending \in {"no", "sent", "answered"} \X Answers
      /\ UNCHANGED <<loop, why, reply>>
  BY DEF Publisher, LiveInv, LiveTypeOK
<1>1. CASE SendFrame \/ NoPreview
  <2>1. /\ sending = <<"no", NoAnswer>> /\ UNCHANGED <<relay, capture>>
        /\ sending' = <<"sent", NoAnswer>> \/ sending' = sending
    BY <1>1 DEF SendFrame, NoPreview, Idle
  <2>2. sending[2] = NoAnswer /\ sending'[2] = NoAnswer
    BY <2>1
  <2>3. ~NoAnswer.capture
    BY DEF NoAnswer
  <2> QED BY <1>0, <2>1, <2>2, <2>3 DEF CarriersInv, RequestMoves, ManualTurn
<1>2. CASE FrameArrives
  BY <1>0, <1>2, RelayShape
     DEF FrameArrives, RelayAfterFrame, Wants, NoAnswer, CarriersInv, RequestMoves, ManualTurn
<1>3. CASE Answered
  BY <1>0, <1>3 DEF Answered, Idle, NoAnswer, CarriersInv, RequestMoves, ManualTurn
<1>4. CASE LateFrame
  BY <1>0, <1>4, RelayShape DEF LateFrame, RelayAfterFrame, CarriersInv, RequestMoves, ManualTurn
<1>5. CASE AnswerLost
  BY <1>0, <1>5 DEF AnswerLost, Idle, NoAnswer, CarriersInv, RequestMoves, ManualTurn
<1>6. CASE \E arrives \in BOOLEAN : FrameLost(arrives)
  BY <1>0, <1>6 DEF FrameLost, Idle, NoAnswer, CarriersInv, RequestMoves, ManualTurn
<1> QED BY <1>1, <1>2, <1>3, <1>4, <1>5, <1>6 DEF Publisher, Publish

LEMMA ScreenCarries ==
    ASSUME LiveInv, CarriersInv, Screen
    PROVE  CarriersInv' /\ RequestMoves
<1>1. UNCHANGED <<loop, why, reply, sending, capture>>
  BY DEF Screen, StartView, StopView, LeaveScreen, RunsOut, SessionOver, RequestCapture,
         RestartApi, publisherVars
<1>2. relay.capture => relay'.capture \/ lost'
  BY RelayShape DEF Screen, StartView, StopView, LeaveScreen, RunsOut, SessionOver, RequestCapture,
         RestartApi, publisherVars, LiveInv, LiveTypeOK
<1> QED BY <1>1, <1>2 DEF CarriersInv, RequestMoves, ManualTurn

LEMMA LoopCarries ==
    ASSUME LiveInv, CarriersInv, Beats \/ Obeys \/ BeatLost \/ TakeRequest
    PROVE  CarriersInv' /\ RequestMoves
<1>1. CASE Beats
  BY <1>1, RelayShape DEF Beats, Goes, RelayAfterBeat, Wants, NoAnswer, CarriersInv, RequestMoves,
                          ManualTurn
<1>2. CASE Obeys
  BY <1>2 DEF Obeys, Obey, Goes, CarriersInv, RequestMoves, ManualTurn
<1>3. CASE BeatLost
  BY <1>3 DEF BeatLost, Goes, CarriersInv, RequestMoves, ManualTurn
<1>4. CASE TakeRequest
  BY <1>4 DEF TakeRequest, Goes, CarriersInv, RequestMoves, ManualTurn
<1> QED BY <1>1, <1>2, <1>3, <1>4

LEMMA RestartCarries ==
    ASSUME LiveInv, CarriersInv, Restart
    PROVE  CarriersInv' /\ RequestMoves
<1>1. /\ reply' = NoAnswer /\ sending' = <<"no", NoAnswer>> /\ relay' = relay
      /\ reply.capture \/ capture \/ sending[2].capture \/ ManualTurn => lost'
  BY DEF Restart, RestartPublisher, Idle, ManualTurn
<1> QED BY <1>1 DEF CarriersInv, RequestMoves

\* The other steps leave the request where it is, or carry the turn on.
LEMMA TurnCarries ==
    ASSUME LiveInv, CarriersInv, UNCHANGED <<liveVars, reply>>, loop' # "obey" => loop # "obey",
           ManualTurn => ManualTurn' \/ (why' = "manual" /\ loop' = "cycle")
    PROVE  CarriersInv' /\ RequestMoves
<1>1. UNCHANGED <<relay, sending, capture, lost, reply>>
  BY DEF liveVars
<1> QED BY <1>1 DEF CarriersInv, RequestMoves

LEMMA CarriersStep == LiveInv /\ CarriersInv /\ [Next]_vars => CarriersInv' /\ RequestMoves
<1> SUFFICES ASSUME LiveInv, CarriersInv, [Next]_vars PROVE CarriersInv' /\ RequestMoves
  OBVIOUS
<1>1. CASE Person \/ World \/ UNCHANGED vars
  <2>1. UNCHANGED <<liveVars, reply, loop, why>>
    BY <1>1 DEF Person, World, vars, loopVars
  <2> QED BY <2>1, TurnCarries DEF ManualTurn
<1>2. CASE \/ WaitForTrigger \/ PollMode \/ PollQuiet \/ PollHoldFails \/ PollFires \/ TriggerIdle
           \/ EmptyCycle \/ Inspects \/ InspectsUnsent \/ GrabFails \/ InspectionFails
  <2>1. UNCHANGED <<liveVars, reply>> /\ loop \in {"top", "wait", "cycle"}
    BY <1>2 DEF WaitForTrigger, PollMode, PollQuiet, PollHoldFails, PollFires, TriggerIdle, EmptyCycle,
                Inspects, InspectsUnsent, Inspected, GrabFails, InspectionFails, Goes
  <2> QED BY <2>1, TurnCarries DEF ManualTurn
<1>3. CASE Asks \/ Switches \/ Refetches
  <2>1. /\ UNCHANGED <<liveVars, reply, why>> /\ loop # "obey"
        /\ loop' \in {"switch", "refetch"} \/ loop' = IF why = "idle" THEN "beat" ELSE "cycle"
    BY <1>3 DEF Asks, Switches, Refetches, Goes
  <2> QED BY <2>1, TurnCarries DEF ManualTurn
<1> QED BY <1>1, <1>2, <1>3, ScreenCarries, PublisherCarries, LoopCarries, RestartCarries
        DEF Next, Turn

\* However answers to frames and heartbeats overtake each other, a request for
\* a picture is handed on until a turn takes the picture, or an answer is lost
\* or a program starts again.
THEOREM NoRequestForgotten == Spec => RequestHandedOn
<1>1. Spec => []LiveInv
  BY LiveInitially, LiveStep, PTL DEF Spec
<1>2. LiveInv /\ CarriersInv /\ [Next]_vars => [RequestMoves]_vars
  BY CarriersStep
<1>3. LiveInv /\ CarriersInv /\ [Next]_vars => CarriersInv'
  BY CarriersStep
<1> QED BY <1>1, <1>2, <1>3, CarriersInitially, PTL DEF Spec, RequestHandedOn
=============================================================================
