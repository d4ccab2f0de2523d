---------------------------- MODULE VisionTrigger ----------------------------
(***************************************************************************)
(* services/vision/acquisition/trigger.py, VisionTrigger: the camera's     *)
(* preview decides when a picture is taken.  In "arrival" mode it fires    *)
(* once a moving scene has come to rest; in "departure" mode (the station  *)
(* that counts crates) it keeps a picture of every scene that came to rest *)
(* and hands the last one out when the crate leaves.                       *)
(*                                                                         *)
(* A scene is what stands in the inspection area: a load (a crate or a     *)
(* bundle) and the tubes in it.  Two previews of one scene differ by less  *)
(* than change_thr, two loads by more than big_change; a load that lost    *)
(* tubes has lost texture.  A poll that sees motion, or a scene that has   *)
(* not rested long enough, changes nothing but moved and big.              *)
(***************************************************************************)
EXTENDS Naturals, Sequences, SequencesExt

CONSTANTS
    Loads,        \* crates and bundles, each put before the camera once
    NoLoad,
    MaxTubes,     \* a bound on the tubes of a load
    MaxEmpties,   \* VisionTrigger._MAX_EMPTIES
    NoShot

Scenes == [load : Loads, tubes : 0 .. MaxTubes]
              \cup {[load |-> NoLoad, tubes |-> 0]}

EmptyPlace == [load |-> NoLoad, tubes |-> 0]

ASSUME TriggerAssumption ==
    /\ NoLoad \notin Loads
    /\ NoShot \notin Scenes
    /\ MaxTubes \in Nat
    /\ MaxEmpties \in Nat \ {0}

Modes == {"arrival", "departure"}

VARIABLES
    scene,   \* what stands before the camera
    used,    \* the loads that have been put there
    moved,   \* _moved: something moved since the last scene at rest
    big,     \* _episode_peak >= big_change
    trig     \* the rest of the trigger's state

triggerVars == <<scene, used, moved, big, trig>>

\* _reset_state, which the change of mode keeps the empty scenes out of.
FreshTrigger(m, es) ==
    [mode |-> m, held |-> NoShot, pending |-> NoShot, baseline |-> NoShot,
     fired |-> NoShot, empties |-> es]

TriggerTypeOK ==
    /\ scene \in Scenes
    /\ used \in SUBSET Loads
    /\ moved \in BOOLEAN
    /\ big \in BOOLEAN
    /\ trig.mode \in Modes
    /\ {trig.held, trig.pending, trig.baseline, trig.fired}
           \subseteq Scenes \cup {NoShot}
    /\ Len(trig.empties) <= MaxEmpties
    /\ Range(trig.empties) \subseteq Scenes

TriggerInit(m) ==
    /\ scene = EmptyPlace
    /\ used = {}
    /\ moved = TRUE
    /\ big = FALSE
    /\ trig = FreshTrigger(m, <<>>)

-----------------------------------------------------------------------------
(* The place before the camera *)

\* Motion is measured against the scene the mode compares with.
Shows(s) ==
    /\ scene' = s
    /\ moved' = TRUE
    /\ big' = (big \/ (trig.mode = "arrival" /\ trig.baseline # NoShot
                          /\ s.load # scene.load))
    /\ UNCHANGED trig

Bring(c, n) ==
    /\ c \notin used
    /\ used' = used \cup {c}
    /\ Shows([load |-> c, tubes |-> n])

TakeAway == scene # EmptyPlace /\ Shows(EmptyPlace) /\ UNCHANGED used

AddTubes == 
    /\ scene # EmptyPlace /\ scene.tubes < MaxTubes
    /\ Shows([scene EXCEPT !.tubes = @ + 1])
    /\ UNCHANGED used

TakeTubes ==
    /\ scene.tubes > 0
    /\ Shows([scene EXCEPT !.tubes = @ - 1])
    /\ UNCHANGED used

\* A hand passes: motion, and the same scene again.
Hand == ~moved /\ Shows(scene) /\ UNCHANGED used

-----------------------------------------------------------------------------
(* One poll of the preview (_step); m is what mode() answers *)

KnownEmpty == scene \in Range(trig.empties)

ChangeMode(m) ==
    /\ trig.mode # m
    /\ trig' = FreshTrigger(m, trig.empties)
    /\ moved' = TRUE /\ big' = FALSE
    /\ UNCHANGED <<scene, used>>

\* The scene has rested for the settle time.
AtRest(m) ==
    /\ trig.mode = m
    /\ moved
    /\ moved' = FALSE /\ big' = FALSE
    /\ UNCHANGED <<scene, used>>

\* _stable_arrival: an empty scene, or the load the last picture shows.
ArrivalQuiet ==
    /\ AtRest("arrival")
    /\ KnownEmpty \/ (~big /\ trig.baseline = scene)
    /\ trig' = [trig EXCEPT !.baseline = scene]

ArrivalFires ==
    /\ AtRest("arrival")
    /\ ~KnownEmpty /\ (big \/ trig.baseline # scene)
    /\ trig' = [trig EXCEPT !.baseline = scene, !.fired = scene]

\* Faulty variant: only the texture is looked at.
HasLeftByTubes(held) == scene.tubes < held.tubes

\* A tube less, or another load: the crate has gone.
HasLeft(held) == scene.load # held.load \/ scene.tubes < held.tubes

\* _stable_departure: nothing kept and nothing there, or the same scene.
DepartureQuiet ==
    /\ AtRest("departure")
    /\ IF trig.held = NoShot THEN KnownEmpty ELSE ~KnownEmpty /\ trig.held = scene
    /\ UNCHANGED trig

\* There is a scene to keep: the first one, or one with more tubes.
ToKeep ==
    /\ AtRest("departure")
    /\ ~KnownEmpty
    /\ trig.held # NoShot => trig.held # scene /\ ~HasLeft(trig.held)

\* Faulty variant: a scene with more tubes is taken for the one already kept.
HoldFirst ==
    /\ ToKeep
    /\ trig' = [trig EXCEPT !.held = IF @ = NoShot THEN scene ELSE @]

\* _hold
Hold == ToKeep /\ trig' = [trig EXCEPT !.held = scene]

\* The camera raises: what was kept before stays.
HoldFails == ToKeep /\ UNCHANGED trig

\* _emit: the picture kept is handed out.
Emit(kept) ==
    /\ AtRest("departure")
    /\ trig.held # NoShot
    /\ KnownEmpty \/ HasLeft(trig.held)
    /\ trig' = [trig EXCEPT !.pending = trig.held, !.fired = trig.held, !.held = kept]

\* Faulty variant: the picture handed out is kept as well.
DepartureFiresTwice == Emit(trig.held)

\* The next load is kept at once; the camera may raise here as well.
DepartureFires == Emit(IF KnownEmpty THEN NoShot ELSE scene)

DepartureFiresUnkept == ~KnownEmpty /\ Emit(NoShot)

Fires == ArrivalFires \/ DepartureFires

Quiet == ArrivalQuiet \/ DepartureQuiet \/ Hold

-----------------------------------------------------------------------------
(* What the worker asks of the trigger *)

\* Faulty variant: the empty scenes are never forgotten.
LearnAll(t, m) ==
    /\ trig' = IF t.fired = NoShot THEN t
               ELSE [t EXCEPT !.empties = Append(@, t.fired)]
    /\ UNCHANGED <<scene, used, moved, big>>

\* learn_empty: the scene of the last picture is an empty one.  It asks for
\* the mode once the scene has been learnt, which may start the trigger anew.
Learn(t, m) ==
    LET es == SubSeq(Append(t.empties, t.fired),
                     IF Len(t.empties) < MaxEmpties THEN 1 ELSE 2,
                     Len(t.empties) + 1)
        learnt == IF t.mode = m THEN [t EXCEPT !.empties = es] ELSE FreshTrigger(m, es)
        anew == t.fired # NoShot /\ t.mode # m
    IN  /\ trig' = IF t.fired = NoShot THEN t
                   ELSE IF m = "arrival" THEN [learnt EXCEPT !.baseline = t.fired]
                   ELSE learnt
        /\ moved' = (moved \/ anew)
        /\ big' = (big /\ ~anew)
        /\ UNCHANGED <<scene, used>>

\* take_frame: the trigger after the picture has been handed out.
Taken == [trig EXCEPT !.pending = NoShot]
=============================================================================
