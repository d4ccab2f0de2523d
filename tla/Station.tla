------------------------------- MODULE Station -------------------------------
(***************************************************************************)
(* One inspection station: the worker's main loop (services/vision/worker/ *)
(* runner.py, Worker.run) with the trigger, the change of orders and the   *)
(* live view around it.  A turn of the loop asks for the order and the     *)
(* master data, takes a picture when the trigger or a person asked for     *)
(* one, and ends with a heartbeat whose answer carries the screen's wishes.*)
(*                                                                         *)
(* The reload is made in every turn; a turn in which it is not due         *)
(* (item_reload_s) is one whose three requests found nothing new.          *)
(***************************************************************************)
EXTENDS VisionTrigger, OrderSwitch, LiveView

CONSTANTS
    EmptyAtMost,  \* _looks_empty: this many tubes are taken for none
    Budgets       \* how often each actor may act, see Spend

VARIABLES
    loop,      \* where the main loop is
    why,       \* what this turn is for
    firedIn,   \* the mode the trigger fired in
    reply,     \* the answer to the heartbeat
    counts,    \* how many counts of each load the trigger has caused
    stood,     \* history: the tubes in each load when it was last seen at rest
    doubtful,  \* history: loads that may be counted more than once
    missed,    \* history: loads that may not be counted
    left       \* what is left of the budget

loopVars == <<loop, why, firedIn, reply, counts, stood, doubtful, missed,
              left>>
vars == <<triggerVars, switchVars, liveVars, loopVars>>

Loops == {"top", "wait", "ask", "switch", "refetch", "cycle", "beat", "obey"}
Reasons == {"idle", "trigger", "manual"}

\* The types of the trigger, the switch and the live view, and of the loop:
\* every turn is for one reason, a count belongs to a load.
TypeOK ==
    /\ TriggerTypeOK /\ OrderTypeOK /\ LiveTypeOK
    /\ loop \in Loops
    /\ why \in Reasons
    /\ firedIn \in Modes
    /\ reply \in Answers
    /\ counts \in [Loads -> Nat]
    /\ stood \in [Loads -> 0 .. MaxTubes]
    /\ doubtful \cup missed \subseteq Loads

Init ==
    /\ SwitchInit /\ TriggerInit(VisionMode) /\ LiveInit
    /\ loop = "top"
    /\ why = "idle"
    /\ firedIn = VisionMode
    /\ reply = NoAnswer
    /\ counts = [c \in Loads |-> 0]
    /\ stood = [c \in Loads |-> 0]
    /\ doubtful = {} /\ missed = {}
    /\ left \in Budgets

\* A budget bounds the changes of orders, stages and items, the moves before
\* the camera, what the screen asks for, the failures and the restarts.
Spend(what) == left[what] > 0 /\ left' = [left EXCEPT ![what] = @ - 1]

Ghosts == <<counts, stood, doubtful, missed>>

LoadsOf(shots) == {s.load : s \in shots \ {NoShot}} \cap Loads

-----------------------------------------------------------------------------
(* The surroundings *)

Person ==
    /\ \/ Spend("orders") /\ SetOrder
       \/ Spend("stages") /\ SetStage
       \/ Spend("items") /\ SetItem
    /\ UNCHANGED <<triggerVars, liveVars, loop, why, firedIn, reply, Ghosts>>

World ==
    /\ Spend("moves")
    /\ \/ /\ \/ \E c \in Loads, n \in 0 .. MaxTubes : Bring(c, n)
             \/ TakeAway \/ AddTubes \/ Hand
          /\ UNCHANGED doubtful
       \/ TakeTubes /\ doubtful' = doubtful \cup LoadsOf({scene})
    /\ UNCHANGED <<switchVars, liveVars, loop, why, firedIn, reply, counts, stood,
                   missed>>

Screen ==
    /\ \/ Spend("views") /\ (StartView \/ StopView \/ LeaveScreen \/ RequestCapture)
       \/ Spend("failures") /\ (SessionOver \/ RestartApi)
       \/ RunsOut /\ UNCHANGED left
    /\ UNCHANGED <<triggerVars, switchVars, loop, why, firedIn, reply, Ghosts>>

Publisher ==
    /\ \/ Publish /\ UNCHANGED left
       \/ /\ Spend("failures")
          /\ NoPreview \/ AnswerLost \/ \E arrives \in BOOLEAN : FrameLost(arrives)
    /\ UNCHANGED <<triggerVars, switchVars, loop, why, firedIn, reply, Ghosts>>

-----------------------------------------------------------------------------
(* The main loop *)

Goes(from, to) == loop = from /\ loop' = to

\* The request for one picture goes before the trigger.
TakeRequest ==
    /\ capture
    /\ Goes("top", "ask") /\ why' = "manual"
    /\ capture' = FALSE
    /\ UNCHANGED <<triggerVars, switchVars, relay, screen, active, sending, fails,
                   late, lost, firedIn, reply, Ghosts, left>>

WaitForTrigger ==
    /\ ~capture
    /\ Goes("top", "wait")
    /\ UNCHANGED <<triggerVars, switchVars, liveVars, why, firedIn, reply, Ghosts, left>>

\* The load at rest is what a picture handed out later must show.
Rested == IF scene.load \in Loads THEN [stood EXCEPT ![scene.load] = scene.tubes]
                                  ELSE stood

\* The stage has changed: what was kept is forgotten.
PollMode ==
    /\ loop = "wait"
    /\ ChangeMode(VisionMode)
    /\ missed' = missed \cup LoadsOf({trig.held})
    /\ UNCHANGED <<switchVars, liveVars, loop, why, firedIn, reply, counts, stood,
                   doubtful, left>>

PollQuiet ==
    /\ loop = "wait"
    /\ trig.mode = VisionMode
    /\ Quiet
    /\ stood' = Rested
    /\ UNCHANGED <<switchVars, liveVars, loop, why, firedIn, reply, counts, doubtful,
                   missed, left>>

\* The picture kept is now an old one, or there is none.
PollHoldFails ==
    /\ loop = "wait"
    /\ trig.mode = VisionMode
    /\ HoldFails /\ Spend("failures")
    /\ stood' = Rested
    /\ missed' = missed \cup LoadsOf({scene})
    /\ UNCHANGED <<switchVars, liveVars, loop, why, firedIn, reply, counts, doubtful>>

PollFires ==
    /\ Goes("wait", "ask") /\ why' = "trigger"
    /\ trig.mode = VisionMode
    /\ \/ Fires /\ UNCHANGED left
       \/ DepartureFiresUnkept /\ Spend("failures")
    /\ firedIn' = trig.mode
    /\ stood' = Rested
    /\ UNCHANGED <<switchVars, liveVars, reply, counts, doubtful, missed>>

\* trigger_idle_s without a picture.
TriggerIdle ==
    /\ Goes("wait", "ask") /\ why' = "idle"
    /\ UNCHANGED <<triggerVars, switchVars, liveVars, firedIn, reply, Ghosts, left>>

Asks ==
    /\ Goes("ask", "switch")
    /\ \/ AskOrder(Active) /\ UNCHANGED left
       \/ AskOrder(NoOrder) /\ Spend("failures")
    /\ UNCHANGED <<triggerVars, liveVars, why, firedIn, reply, Ghosts>>

Switches ==
    /\ Goes("switch", "refetch")
    /\ \/ (KeepItem \/ SwitchItem) /\ UNCHANGED left
       \/ SwitchFails /\ IF Known(seen.item) THEN Spend("failures") ELSE UNCHANGED left
    /\ UNCHANGED <<triggerVars, liveVars, why, firedIn, reply, Ghosts>>

Refetches ==
    /\ Goes("refetch", IF why = "idle" THEN "beat" ELSE "cycle")
    /\ \/ Refetch /\ UNCHANGED left
       \/ RefetchFails /\ IF Known(item.code) THEN Spend("failures") ELSE UNCHANGED left
    /\ UNCHANGED <<triggerVars, liveVars, why, firedIn, reply, Ghosts>>

\* _grab_cycle: the picture the trigger kept, unless a person asked for one.
Held == why = "trigger" /\ trig.pending # NoShot
Shot == IF Held THEN trig.pending ELSE scene
AfterGrab == IF why = "trigger" THEN Taken ELSE trig

\* _empty_gate and _looks_empty: a picture without a product is not stored,
\* and the trigger learns it.
LooksEmpty == why # "manual" /\ Shot.tubes <= EmptyAtMost

EmptyCycle ==
    /\ Goes("cycle", "beat")
    /\ LooksEmpty
    /\ Learn(AfterGrab, VisionMode)
    /\ missed' = missed \cup LoadsOf({Shot} \cup ({trig.held} \ {trig'.held}))
    /\ UNCHANGED <<switchVars, liveVars, why, firedIn, reply, counts, stood, doubtful,
                   left>>

\* run_once: the count of a crate is one result, which the production of the
\* MES adds up.
IsCount == CurStage = "COUNT" /\ why = "trigger" /\ Shot.load \in Loads

Inspected ==
    /\ ~LooksEmpty
    /\ trig' = AfterGrab
    /\ counts' = IF IsCount THEN [counts EXCEPT ![Shot.load] = @ + 1] ELSE counts
    /\ doubtful' = IF IsCount /\ firedIn = "arrival"
                   THEN doubtful \cup LoadsOf({Shot}) ELSE doubtful
    /\ missed' = IF ~IsCount /\ firedIn = "departure"
                 THEN missed \cup LoadsOf({Shot}) ELSE missed
    /\ UNCHANGED <<scene, used, moved, big, switchVars, liveVars, firedIn, reply, stood>>

Inspects == Goes("cycle", "beat") /\ Inspected /\ UNCHANGED <<why, left>>

\* _run_once_batch with pictures that could not be uploaded: its rows are
\* spooled, and the turn ends without a heartbeat.
InspectsUnsent ==
    /\ Goes("cycle", "top") /\ why' = "idle"
    /\ CurStage # "COUNT" /\ Spend("failures")
    /\ Inspected

\* The camera gives no picture: the heartbeat says so.
GrabFails ==
    /\ Goes("cycle", "beat")
    /\ ~Held /\ Spend("failures")
    /\ trig' = AfterGrab
    /\ UNCHANGED <<scene, used, moved, big, switchVars, liveVars, why, firedIn,
                   reply, Ghosts>>

\* An exception after the picture was taken: no row, no heartbeat, and the
\* picture the trigger had kept is gone.
InspectionFails ==
    /\ Goes("cycle", "top") /\ why' = "idle"
    /\ Spend("failures")
    /\ trig' = AfterGrab
    /\ missed' = IF Held THEN missed \cup LoadsOf({Shot}) ELSE missed
    /\ UNCHANGED <<scene, used, moved, big, switchVars, liveVars, firedIn, reply,
                   counts, stood, doubtful>>

\* report_status: the API answers with the screen's wishes.
Beats ==
    /\ Goes("beat", "obey")
    /\ reply' = Wants
    /\ relay' = RelayAfterBeat
    /\ why' = "idle"
    /\ UNCHANGED <<triggerVars, switchVars, screen, active, sending, fails, capture,
                   late, lost, firedIn, Ghosts, left>>

Obeys ==
    /\ Goes("obey", "top")
    /\ Obey(reply)
    /\ reply' = NoAnswer
    /\ UNCHANGED <<triggerVars, switchVars, relay, screen, sending, late, lost, why,
                   firedIn, Ghosts, left>>

BeatLost ==
    /\ Goes("obey", "top")
    /\ Spend("failures")
    /\ lost' = (lost \/ reply.capture)
    /\ reply' = NoAnswer
    /\ UNCHANGED <<triggerVars, switchVars, relay, screen, active, sending, fails,
                   capture, late, why, firedIn, Ghosts>>

\* The worker dies, or an update restarts it.
Restart ==
    /\ Spend("restarts")
    /\ loop' = "top" /\ why' = "idle" /\ reply' = NoAnswer
    /\ RestartWorker
    /\ RestartPublisher(reply.capture \/ (why = "manual" /\ loop \in {"ask", "switch", "refetch", "cycle"}))
    /\ trig' = FreshTrigger(VisionMode', <<>>)
    /\ moved' = TRUE /\ big' = FALSE
    /\ missed' = missed \cup LoadsOf({trig.held, trig.pending})
    /\ UNCHANGED <<scene, used, firedIn, counts, stood, doubtful>>

Turn ==
    \/ TakeRequest \/ WaitForTrigger \/ PollMode \/ PollQuiet \/ PollFires
    \/ Asks \/ Switches \/ Refetches \/ EmptyCycle \/ Inspects \/ Beats \/ Obeys

Next ==
    \/ Person \/ World \/ Screen \/ Publisher
    \/ Turn \/ TriggerIdle \/ PollHoldFails \/ GrabFails \/ InspectionFails
    \/ InspectsUnsent \/ BeatLost \/ Restart

Spec == Init /\ [][Next]_vars

\* The loop goes on; a camera that is polled 8 times a second sees a scene at
\* rest sooner or later between two waits (SF); the publisher's thread and the
\* API go on, and the time a screen asked for runs out.
FairSpec ==
    /\ Spec
    /\ WF_vars(Turn) /\ WF_vars(TriggerIdle)
    /\ SF_vars(PollMode) /\ SF_vars(PollQuiet) /\ SF_vars(PollFires)
    /\ WF_vars(Publisher /\ Publish)
    /\ WF_vars(Screen /\ RunsOut)

-----------------------------------------------------------------------------
(* Safety *)

\* The worker never mixes two orders: the item it inspects and the lot it
\* writes into the results come from one order, from one that a change of
\* stage has rewritten, or from the environment - also when the item of a new
\* order cannot be fetched and when the order changes between two requests.
LabelsOrdered ==
    <<item.code, label.lot>> \in ordered \cup patched \cup {<<EnvItem, NoLot>>}

\* A crate is counted once, although its tubes are put in one by one, hands
\* pass, modes change and people ask for pictures of their own: production
\* adds the counts up.  Tubes taken out look like a crate that leaves, and a
\* stage that changes between the trigger and the picture counts a crate on
\* its arrival.
CrateCountedOnce == \A c \in Loads \ doubtful : counts[c] <= 1

\* The picture kept for a crate, and the one handed out when it has left,
\* show it as it last stood at rest.
KeptIsLastScene ==
    \A s \in {trig.held, trig.pending} \ {NoShot} :
        s.load \in Loads \ (doubtful \cup missed) => s.tubes = stood[s.load]

-----------------------------------------------------------------------------
(* Liveness *)

\* Once people stop changing orders, the worker inspects the item, the lot
\* and the stage of the order, with the master data as they are now, unless
\* the item was deleted and created again.
OrderReaches ==
    <>[](order # NoOrder /\ Known(order.item) =>
             /\ item.code = order.item /\ label = LabelOf(Active)
             /\ item.code \notin recreated => item.data = master[item.code])

\* A crate whose picture is kept is counted when it has left, unless the
\* stage changed, the camera or the inspection failed or the worker died in
\* between.
LeftIsCounted ==
    \A c \in Loads :
        trig.held # NoShot /\ trig.held.load = c /\ scene.load # c
            ~> counts[c] > 0 \/ c \in missed

\* A view somebody asked for gets a frame, although an answer older than the
\* request may stop the publisher that the heartbeat has just started.
ViewStreams == relay.requested ~> relay.frame \/ ~relay.requested

\* Nobody looks: the publisher stops sending.
ViewStops == ~relay.requested ~> ~active \/ relay.requested

\* A picture somebody asked for is taken, unless the answer that carried the
\* request was lost or one of the two programs was restarted.
CaptureTaken == relay.capture ~> (loop = "cycle" /\ why = "manual") \/ lost
=============================================================================
