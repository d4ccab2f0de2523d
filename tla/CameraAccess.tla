----------------------------- MODULE CameraAccess -----------------------------
(***************************************************************************)
(* One camera, several threads: the worker's main thread (vision trigger,  *)
(* recipes, watchdog), one thread per attempt to take a picture            *)
(* (services/vision/acquisition/__init__.py) and the live view's publisher *)
(* (services/vision/worker/live.py).  LockedCamera lets one of them at a   *)
(* time into the adapter, which opens the device when it needs it          *)
(* (acquisition/camera.py).  A call of the device may never return.         *)
(*                                                                         *)
(* Every thread but the main one runs one call of the camera at a time and *)
(* is "out" between two calls.  An attempt the watchdog gave up on goes on *)
(* in its thread; a thread that has ended may stand for a new one, so the  *)
(* number of threads, not of attempts, is bounded.                         *)
(***************************************************************************)
EXTENDS Naturals, FiniteSets

CONSTANTS
    Grabs,       \* the threads "aivis-camera-grab": a bound on those alive at once
    Main,        \* the worker's main thread
    Live,        \* the thread "aivis-live"
    NoThread,
    MaxRetries   \* AcquisitionService.max_retries

Threads == Grabs \cup {Main, Live}

ASSUME ThreadsAssumption ==
    /\ IsFiniteSet(Grabs)
    /\ Main # Live
    /\ Main \notin Grabs /\ Live \notin Grabs
    /\ NoThread \notin Threads

ASSUME RetriesAssumption == MaxRetries \in Nat \ {0}

VARIABLES
    phase,     \* what the main thread is doing
    attempt,   \* attempts made by this cycle
    joined,    \* the thread the main thread waits for
    at,        \* where a thread is: "out", waiting for the "lock", or "in" the adapter
    lock,      \* who holds LockedCamera._lock
    device,    \* the adapter's handle: _picam2, _started
    outcome,   \* what an attempt has left for the main thread
    got,       \* the attempt whose frame the last cycle went on with
    late       \* history: threads started by an earlier cycle

vars == <<phase, attempt, joined, at, lock, device, outcome, got, late>>

\* "camera": the main thread uses the camera itself, for a preview of the
\* vision trigger or to configure a recipe; "close": the watchdog closes it.
Phases == {"cycle", "camera", "wait", "close"}

\* Calls the device: an attempt, a preview, a recipe - everything but close().
Calls(t) == at[t] = "in" /\ ~(t = Main /\ phase = "close")

TypeOK ==
    /\ phase \in Phases
    /\ attempt \in 0 .. MaxRetries
    /\ joined \in Grabs \cup {NoThread}
    /\ at \in [Threads -> {"out", "lock", "in"}]
    /\ lock \in Threads \cup {NoThread}
    /\ device \in {"open", "closed"}
    /\ outcome \in [Grabs -> {"none", "frame", "error"}]
    /\ got \in Grabs \cup {NoThread}
    /\ late \in SUBSET Grabs

Init ==
    /\ phase = "cycle"
    /\ attempt = 0
    /\ joined = NoThread
    /\ at = [t \in Threads |-> "out"]
    /\ lock = NoThread
    /\ device = "closed"
    /\ outcome = [g \in Grabs |-> "none"]
    /\ got = NoThread
    /\ late = {}

-----------------------------------------------------------------------------
(* The adapter behind the lock *)

Ask(t) == at' = [at EXCEPT ![t] = "lock"]

\* Faulty variant: the call does not take the lock.
EnterUnlocked(t) ==
    /\ at[t] = "lock"
    /\ lock' = t
    /\ at' = [at EXCEPT ![t] = "in"]
    /\ UNCHANGED <<phase, attempt, joined, device, outcome, got, late>>

Enter(t) ==
    /\ at[t] = "lock"
    /\ lock = NoThread
    /\ lock' = t
    /\ at' = [at EXCEPT ![t] = "in"]
    /\ UNCHANGED <<phase, attempt, joined, device, outcome, got, late>>

\* The device is opened by the first call that needs it.
Open(t) ==
    /\ Calls(t)
    /\ device = "closed"
    /\ device' = "open"
    /\ UNCHANGED <<phase, attempt, joined, at, lock, outcome, got, late>>

Leave(t) ==
    /\ at' = [at EXCEPT ![t] = "out"]
    /\ lock' = NoThread

\* A picture comes from an open device only; opening and capturing may fail.
Answer(t, what) ==
    /\ Calls(t)
    /\ what = "frame" => device = "open"
    /\ Leave(t)
    /\ UNCHANGED <<attempt, joined, device, got, late>>

-----------------------------------------------------------------------------
(* The threads *)

\* The publisher takes a preview.
StartPreview ==
    /\ at[Live] = "out"
    /\ Ask(Live)
    /\ UNCHANGED <<phase, attempt, joined, lock, device, outcome, got, late>>

PreviewDone ==
    /\ \E what \in {"frame", "error"} : Answer(Live, what)
    /\ UNCHANGED <<phase, outcome>>

\* The vision trigger's preview and held picture, a recipe at a switch of orders.
UseCamera ==
    /\ phase = "cycle"
    /\ phase' = "camera"
    /\ Ask(Main)
    /\ UNCHANGED <<attempt, joined, lock, device, outcome, got, late>>

CameraUsed ==
    /\ phase = "camera"
    /\ \E what \in {"frame", "error"} : Answer(Main, what)
    /\ phase' = "cycle"
    /\ UNCHANGED outcome

\* One attempt: a new thread calls grab(), the main thread joins it.
StartAttempt(g) ==
    /\ at[g] = "out"
    /\ attempt' = attempt + 1
    /\ joined' = g
    /\ Ask(g)
    /\ outcome' = [outcome EXCEPT ![g] = "none"]
    /\ phase' = "wait"

\* There are threads enough for every attempt of the cycle (bound: Grabs).
ThreadsLeft == Cardinality({g \in Grabs : at[g] = "out"}) >= MaxRetries

\* A trigger: grab_with_retry begins.
StartCycle(g) ==
    /\ phase = "cycle" /\ attempt = 0
    /\ ThreadsLeft
    /\ StartAttempt(g)
    /\ got' = NoThread
    /\ late' = Grabs \ {g}
    /\ UNCHANGED <<lock, device>>

GrabDone(g, what) ==
    /\ Answer(g, what)
    /\ outcome' = [outcome EXCEPT ![g] = what]
    /\ UNCHANGED phase

-----------------------------------------------------------------------------
(* The watchdog *)

\* Faulty variant: one outcome for all attempts, which a late one fills too.
JoinFrameOfAny ==
    /\ phase = "wait"
    /\ \E g \in Grabs : outcome[g] = "frame" /\ got' = g
    /\ phase' = "cycle"
    /\ attempt' = 0
    /\ joined' = NoThread
    /\ UNCHANGED <<at, lock, device, outcome, late>>

JoinFrame ==
    /\ phase = "wait"
    /\ outcome[joined] = "frame"
    /\ got' = joined
    /\ phase' = "cycle"
    /\ attempt' = 0
    /\ joined' = NoThread
    /\ UNCHANGED <<at, lock, device, outcome, late>>

\* The last attempt has failed, or an exception that is no CameraError ends
\* the cycle at once.
CycleFails ==
    /\ phase = "wait"
    /\ outcome[joined] = "error"
    /\ phase' = "cycle"
    /\ attempt' = 0
    /\ joined' = NoThread
    /\ UNCHANGED <<at, lock, device, outcome, got, late>>

\* Faulty variant: attempts that end with an error are not counted.
RetryUncounted(g) ==
    /\ phase = "wait"
    /\ outcome[joined] = "error"
    /\ at[g] = "out"
    /\ joined' = g
    /\ Ask(g)
    /\ outcome' = [outcome EXCEPT ![g] = "none"]
    /\ late' = late \ {g}
    /\ UNCHANGED <<phase, attempt, lock, device, got>>

\* Faulty variant: one attempt too many.
RetryOnceMore(g) ==
    /\ phase = "wait" /\ attempt <= MaxRetries
    /\ outcome[joined] = "error"
    /\ StartAttempt(g)
    /\ late' = late \ {g}
    /\ UNCHANGED <<lock, device, got>>

\* CameraError: the next attempt.
Retry(g) ==
    /\ phase = "wait" /\ attempt < MaxRetries
    /\ outcome[joined] = "error"
    /\ StartAttempt(g)
    /\ late' = late \ {g}
    /\ UNCHANGED <<lock, device, got>>

\* The join ends by the clock: the watchdog closes the camera - through the
\* lock.  (The thread may have left its outcome and not have ended yet.)
TimedOut ==
    /\ phase = "wait"
    /\ phase' = "close"
    /\ Ask(Main)
    /\ UNCHANGED <<attempt, joined, lock, device, outcome, got, late>>

\* close() has set the handle to None and stopped the device.
Closed ==
    /\ phase = "close" /\ at[Main] = "in"
    /\ device' = "closed"
    /\ lock' = NoThread

RetryAfterClose(g) ==
    /\ Closed
    /\ attempt < MaxRetries
    /\ at[g] = "out"
    /\ attempt' = attempt + 1
    /\ joined' = g
    /\ at' = [at EXCEPT ![Main] = "out", ![g] = "lock"]
    /\ outcome' = [outcome EXCEPT ![g] = "none"]
    /\ phase' = "wait"
    /\ late' = late \ {g}
    /\ UNCHANGED got

FailAfterClose ==
    /\ Closed
    /\ attempt = MaxRetries
    /\ at' = [at EXCEPT ![Main] = "out"]
    /\ phase' = "cycle"
    /\ attempt' = 0
    /\ joined' = NoThread
    /\ UNCHANGED <<outcome, got, late>>

-----------------------------------------------------------------------------
MainStep ==
    \/ JoinFrame \/ CycleFails \/ FailAfterClose
    \/ \E g \in Grabs : Retry(g) \/ RetryAfterClose(g)

GrabStep(g) == \E what \in {"frame", "error"} : GrabDone(g, what)

Next ==
    \/ MainStep
    \/ \E g \in Grabs : StartCycle(g) \/ GrabStep(g)
    \/ UseCamera \/ CameraUsed \/ TimedOut
    \/ StartPreview \/ PreviewDone
    \/ \E t \in Threads : Enter(t) \/ Open(t)

Spec == Init /\ [][Next]_vars

-----------------------------------------------------------------------------
(* Fairness *)

\* The threads run, a join without outcome ends by the clock, and a thread that waits for the
\* lock gets it some time if it is free again and again: the publisher sleeps
\* between two previews.  close() ends once it has the lock; nothing is said
\* about the other calls of the device.
FairSpec ==
    /\ Spec
    /\ WF_vars(MainStep)
    /\ WF_vars(TimedOut /\ outcome[joined] = "none")
    /\ \A t \in Threads : SF_vars(Enter(t))

\* The driver answers every call, with a picture or an error, at some time -
\* perhaps long after the watchdog has given up on it.
DriverAnswers ==
    /\ \A g \in Grabs : WF_vars(GrabStep(g))
    /\ WF_vars(PreviewDone)
    /\ WF_vars(CameraUsed)

AnsweringSpec == FairSpec /\ DriverAnswers

-----------------------------------------------------------------------------
(* Properties *)

\* Never are two threads in the adapter: no capture runs beside another one or
\* beside a close() (LockedCamera; picamera2 is not safe for several threads).
DeviceExclusive == \A t, u \in Threads : at[t] = "in" /\ at[u] = "in" => t = u

\* A cycle goes on with a frame an attempt of its own has taken, never with
\* that of an attempt the watchdog gave up on in an earlier cycle
\* (_grab_once's outcome).
FrameOfCycle == got # NoThread => got \notin late

\* grab_with_retry returns: its attempts are finite and a stalled one does not
\* hold the cycle up for ever.
GrabReturns == phase \in {"wait", "close"} ~> phase = "cycle"
=============================================================================
