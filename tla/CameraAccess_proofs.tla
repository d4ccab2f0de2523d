-------------------------- MODULE CameraAccess_proofs --------------------------
(***************************************************************************)
(* Proofs about the camera shared by several threads, for every number of  *)
(* threads and of attempts.                                                *)
(***************************************************************************)
EXTENDS CameraAccess, TLAPS

\* Whoever is in the adapter holds the lock.
HolderInside == \A t \in Threads : at[t] = "in" => lock = t

\* The main thread waits for an attempt of its own cycle.
JoinedIsOwn ==
    /\ phase \in {"wait", "close"} => joined \in Grabs \ late
    /\ FrameOfCycle

CameraInv == TypeOK /\ HolderInside /\ JoinedIsOwn

-----------------------------------------------------------------------------
\* At the start nobody uses the camera and no frame has been taken.
LEMMA CameraInitially == Init => CameraInv
BY ThreadsAssumption, RetriesAssumption
   DEF Init, CameraInv, TypeOK, Phases, HolderInside, JoinedIsOwn, FrameOfCycle, Threads

\* What the threads do at the lock and in the adapter.
LEMMA AdapterSteps ==
    ASSUME CameraInv, NEW t \in Threads, Enter(t) \/ Open(t)
    PROVE  CameraInv'
<1>1. CASE Enter(t)
  <2>1. TypeOK'
    BY <1>1 DEF CameraInv, TypeOK, Enter
  <2>2. HolderInside'
    <3> SUFFICES ASSUME NEW u \in Threads, at'[u] = "in" PROVE lock' = u
      BY DEF HolderInside
    <3>1. CASE u = t
      BY <3>1, <1>1 DEF Enter
    <3>2. CASE u # t
      BY <3>2, <1>1, ThreadsAssumption DEF CameraInv, TypeOK, HolderInside, Enter
    <3> QED BY <3>1, <3>2
  <2>3. JoinedIsOwn'
    BY <1>1 DEF CameraInv, JoinedIsOwn, FrameOfCycle, Enter
  <2> QED BY <2>1, <2>2, <2>3 DEF CameraInv
<1>2. CASE Open(t)
  BY <1>2 DEF CameraInv, TypeOK, HolderInside, JoinedIsOwn, FrameOfCycle, Open
<1> QED BY <1>1, <1>2

\* A thread that leaves the adapter, and releases the lock.
LEMMA LeavingSteps ==
    ASSUME CameraInv,
           NEW t \in Threads,
           at[t] = "in",
           Leave(t)
    PROVE  /\ at' \in [Threads -> {"out", "lock", "in"}]
           /\ lock' \in Threads \cup {NoThread}
           /\ HolderInside'
<1>1. /\ at' \in [Threads -> {"out", "lock", "in"}]
      /\ lock' \in Threads \cup {NoThread}
  BY DEF CameraInv, TypeOK, Leave
<1>2. ASSUME NEW u \in Threads, at'[u] = "in" PROVE FALSE
  <2>1. u # t /\ at[u] = "in"
    BY <1>2 DEF CameraInv, TypeOK, Leave
  <2> QED BY <2>1 DEF CameraInv, HolderInside
<1> QED BY <1>1, <1>2 DEF HolderInside

\* A thread that starts to wait for the lock.
LEMMA AskingSteps ==
    ASSUME CameraInv, NEW t \in Threads, Ask(t), UNCHANGED lock
    PROVE  at' \in [Threads -> {"out", "lock", "in"}] /\ HolderInside'
BY DEF CameraInv, TypeOK, HolderInside, Ask

\* Attempts that end and previews.
LEMMA CallSteps ==
    ASSUME CameraInv,
           \/ \E g \in Grabs : GrabStep(g)
           \/ StartPreview \/ PreviewDone \/ CameraUsed
    PROVE  CameraInv'
<1>1. ASSUME NEW g \in Grabs, GrabStep(g) PROVE CameraInv'
  <2> PICK what \in {"frame", "error"} : GrabDone(g, what)
    BY <1>1 DEF GrabStep
  <2>1. g \in Threads /\ at[g] = "in" /\ Leave(g)
    BY DEF GrabDone, Answer, Calls, Threads
  <2> QED BY <2>1, LeavingSteps
          DEF CameraInv, TypeOK, JoinedIsOwn, FrameOfCycle, GrabDone, Answer
<1>2. CASE StartPreview
  <2>1. Live \in Threads
    BY DEF Threads
  <2> QED BY <1>2, <2>1, AskingSteps
          DEF CameraInv, TypeOK, JoinedIsOwn, FrameOfCycle, StartPreview
<1>3. CASE PreviewDone
  <2> PICK what \in {"frame", "error"} : Answer(Live, what)
    BY <1>3 DEF PreviewDone
  <2>1. Live \in Threads /\ at[Live] = "in" /\ Leave(Live)
    BY DEF Answer, Calls, Threads
  <2> QED BY <1>3, <2>1, LeavingSteps
          DEF CameraInv, TypeOK, JoinedIsOwn, FrameOfCycle, PreviewDone, Answer
<1>4. CASE CameraUsed
  <2> PICK what \in {"frame", "error"} : Answer(Main, what)
    BY <1>4 DEF CameraUsed
  <2>1. Main \in Threads /\ at[Main] = "in" /\ Leave(Main)
    BY DEF Answer, Calls, Threads
  <2> QED BY <1>4, <2>1, LeavingSteps
          DEF CameraInv, TypeOK, JoinedIsOwn, FrameOfCycle, CameraUsed, Answer, Phases
<1> QED BY <1>1, <1>2, <1>3, <1>4

\* The main thread: cycles, attempts, timeouts.
LEMMA StartSteps ==
    ASSUME CameraInv,
           \/ \E g \in Grabs : StartCycle(g) \/ Retry(g)
           \/ UseCamera \/ TimedOut
    PROVE  CameraInv'
<1>1. ASSUME NEW g \in Grabs, StartCycle(g) \/ Retry(g) PROVE CameraInv'
  <2>1. StartAttempt(g) /\ UNCHANGED <<lock, device>>
    BY <1>1 DEF StartCycle, Retry
  <2>2. at' \in [Threads -> {"out", "lock", "in"}] /\ HolderInside'
    BY <2>1, AskingSteps DEF StartAttempt, Threads
  <2>3. TypeOK'
    BY <1>1, <2>1, <2>2, RetriesAssumption
       DEF CameraInv, TypeOK, Phases, StartAttempt, StartCycle, Retry
  <2>4. JoinedIsOwn'
    BY <1>1, <2>1, ThreadsAssumption
       DEF CameraInv, TypeOK, JoinedIsOwn, FrameOfCycle, StartAttempt, StartCycle, Retry
  <2> QED BY <2>2, <2>3, <2>4 DEF CameraInv
<1>2. CASE UseCamera \/ TimedOut
  <2>1. Ask(Main) /\ UNCHANGED lock /\ Main \in Threads
    BY <1>2 DEF UseCamera, TimedOut, Threads
  <2> QED BY <1>2, <2>1, AskingSteps
          DEF CameraInv, TypeOK, Phases, JoinedIsOwn, FrameOfCycle, UseCamera, TimedOut
<1> QED BY <1>1, <1>2

\* The main thread: a cycle that ends, with a frame or without.
LEMMA EndSteps ==
    ASSUME CameraInv, JoinFrame \/ CycleFails \/ FailAfterClose
    PROVE  CameraInv'
<1>1. CASE JoinFrame \/ CycleFails
  BY <1>1, RetriesAssumption
     DEF CameraInv, TypeOK, Phases, HolderInside, JoinedIsOwn, FrameOfCycle, JoinFrame,
         CycleFails
<1>2. CASE FailAfterClose
  <2>1. Main \in Threads /\ at[Main] = "in" /\ Leave(Main)
    BY <1>2 DEF FailAfterClose, Closed, Leave, Threads
  <2> QED BY <1>2, <2>1, LeavingSteps, RetriesAssumption
          DEF CameraInv, TypeOK, Phases, JoinedIsOwn, FrameOfCycle, FailAfterClose, Closed
<1> QED BY <1>1, <1>2

\* The main thread leaves close() and the next attempt starts to wait.
LEMMA NextAttemptStep ==
    ASSUME CameraInv, NEW g \in Grabs, RetryAfterClose(g)
    PROVE  CameraInv'
<1> USE DEF RetryAfterClose, Closed
<1>1. /\ g \in Threads /\ Main \in Threads
      /\ at' \in [Threads -> {"out", "lock", "in"}]
  BY DEF CameraInv, TypeOK, Threads
<1>2. TypeOK'
  BY <1>1, RetriesAssumption DEF CameraInv, TypeOK, Phases
<1>3. HolderInside'
  <2> SUFFICES ASSUME NEW t \in Threads, at'[t] = "in" PROVE FALSE
    BY DEF HolderInside
  <2>1. t # Main /\ t # g /\ at[t] = "in"
    BY <1>1 DEF CameraInv, TypeOK
  <2> QED BY <1>1, <2>1 DEF CameraInv, HolderInside
<1>4. JoinedIsOwn'
  BY DEF CameraInv, TypeOK, JoinedIsOwn, FrameOfCycle
<1> QED BY <1>2, <1>3, <1>4 DEF CameraInv

\* CameraInv is an invariant.
THEOREM CameraInvariant == Spec => []CameraInv
<1>1. CameraInv /\ [Next]_vars => CameraInv'
  <2> SUFFICES ASSUME CameraInv, [Next]_vars PROVE CameraInv'
    OBVIOUS
  <2>1. CASE MainStep
    BY <2>1, EndSteps, StartSteps, NextAttemptStep DEF MainStep
  <2>2. CASE \E g \in Grabs : StartCycle(g) \/ GrabStep(g)
    BY <2>2, StartSteps, CallSteps
  <2>3. CASE UseCamera \/ CameraUsed \/ TimedOut \/ StartPreview \/ PreviewDone
    BY <2>3, StartSteps, CallSteps
  <2>4. CASE \E t \in Threads : Enter(t) \/ Open(t)
    BY <2>4, AdapterSteps
  <2>5. CASE UNCHANGED vars
    BY <2>5 DEF vars, CameraInv, TypeOK, HolderInside, JoinedIsOwn, FrameOfCycle
  <2> QED BY <2>1, <2>2, <2>3, <2>4, <2>5 DEF Next
<1> QED BY CameraInitially, <1>1, PTL DEF Spec

\* The main loop, the threads it abandons and the lock keep their types, for
\* every number of retries and of abandoned attempts.
THEOREM CameraTypeCorrect == Spec => []TypeOK
<1>1. CameraInv => TypeOK
  BY DEF CameraInv
<1> QED BY <1>1, CameraInvariant, PTL

\* Two threads are never in the camera adapter at a time.
THEOREM OneInAdapter == Spec => []DeviceExclusive
<1>1. CameraInv => DeviceExclusive
  BY DEF CameraInv, HolderInside, DeviceExclusive
<1> QED BY <1>1, CameraInvariant, PTL

\* A cycle never goes on with a frame of an earlier cycle's attempt.
THEOREM FrameIsOwn == Spec => []FrameOfCycle
<1>1. CameraInv => FrameOfCycle
  BY DEF CameraInv, JoinedIsOwn
<1> QED BY <1>1, CameraInvariant, PTL

-----------------------------------------------------------------------------
(* What a thread waits for *)

\* Nobody waits for nothing: the lock is held by a thread that is in the
\* adapter, never by one that waits itself; the main thread is at the lock or
\* in the adapter exactly while it uses or closes the camera; and an attempt
\* it joins is under way until it has left an outcome (_grab_once).  So a call
\* of the driver that does not return is the only thing that can hold up
\* grab_with_retry.
WaitsEnd ==
    /\ lock # NoThread => at[lock] = "in"
    /\ phase \in {"camera", "close"} <=> at[Main] # "out"
    /\ phase = "wait" /\ outcome[joined] = "none" => at[joined] # "out"

LEMMA WaitsInitially == Init => WaitsEnd
BY ThreadsAssumption DEF Init, WaitsEnd, Threads

\* The threads at the lock and in the adapter.
LEMMA WaitsAtAdapter ==
    ASSUME CameraInv, WaitsEnd, NEW t \in Threads, Enter(t) \/ Open(t)
    PROVE  WaitsEnd'
<1>0. /\ at \in [Threads -> {"out", "lock", "in"}] /\ Main \in Threads
      /\ phase = "wait" => joined \in Threads
  BY DEF CameraInv, TypeOK, JoinedIsOwn, Threads
<1>1. CASE Enter(t)
  <2>1. \A u \in Threads : at'[u] = "out" <=> at[u] = "out"
    BY <1>0, <1>1 DEF Enter
  <2>2. lock' = t /\ at'[t] = "in"
    BY <1>0, <1>1 DEF Enter
  <2> QED BY <1>0, <1>1, <2>1, <2>2 DEF WaitsEnd, Enter
<1>2. CASE Open(t)
  BY <1>2 DEF WaitsEnd, Open
<1> QED BY <1>1, <1>2

\* An attempt, a preview or a use of the camera that ends.
LEMMA WaitsAtEnds ==
    ASSUME CameraInv, WaitsEnd,
           \/ \E g \in Grabs : GrabStep(g)
           \/ PreviewDone \/ CameraUsed
    PROVE  WaitsEnd'
<1>0. /\ at \in [Threads -> {"out", "lock", "in"}] /\ Main \in Threads /\ Live \in Threads
      /\ outcome \in [Grabs -> {"none", "frame", "error"}]
      /\ phase = "wait" => joined \in Grabs
  BY DEF CameraInv, TypeOK, JoinedIsOwn, Threads
<1>1. ASSUME NEW g \in Grabs, GrabStep(g) PROVE WaitsEnd'
  <2>1. PICK what \in {"frame", "error"} : GrabDone(g, what)
    BY <1>1 DEF GrabStep
  <2>2. /\ at' = [at EXCEPT ![g] = "out"] /\ lock' = NoThread
        /\ outcome' = [outcome EXCEPT ![g] = what] /\ UNCHANGED <<phase, joined>>
    BY <2>1 DEF GrabDone, Answer, Leave
  <2>3. g \in Threads /\ g # Main
    BY ThreadsAssumption DEF Threads
  <2>4. at'[Main] = at[Main]
    BY <1>0, <2>2, <2>3
  <2>5. phase' = "wait" /\ outcome'[joined'] = "none" => at'[joined'] # "out"
    BY <1>0, <2>2 DEF WaitsEnd, Threads
  <2> QED BY <2>2, <2>4, <2>5 DEF WaitsEnd
<1>2. CASE PreviewDone
  <2>1. /\ at' = [at EXCEPT ![Live] = "out"] /\ lock' = NoThread
        /\ UNCHANGED <<phase, joined, outcome>>
    BY <1>2 DEF PreviewDone, Answer, Leave
  <2> QED BY <1>0, <2>1, ThreadsAssumption DEF WaitsEnd, Threads
<1>3. CASE CameraUsed
  <2>1. at' = [at EXCEPT ![Main] = "out"] /\ lock' = NoThread /\ phase' = "cycle"
    BY <1>3 DEF CameraUsed, Answer, Leave
  <2> QED BY <1>0, <2>1 DEF WaitsEnd
<1> QED BY <1>1, <1>2, <1>3

\* A thread that starts to wait for the lock was not the one that held it.
LEMMA WaitsAtStarts ==
    ASSUME CameraInv, WaitsEnd,
           \/ \E g \in Grabs : StartCycle(g) \/ Retry(g)
           \/ UseCamera \/ TimedOut \/ StartPreview
    PROVE  WaitsEnd'
<1>0. /\ at \in [Threads -> {"out", "lock", "in"}] /\ Main \in Threads /\ Live \in Threads
      /\ outcome \in [Grabs -> {"none", "frame", "error"}]
      /\ phase = "wait" => joined \in Grabs
      /\ lock \in Threads \cup {NoThread}
  BY DEF CameraInv, TypeOK, JoinedIsOwn, Threads
<1>1. ASSUME NEW g \in Grabs, StartCycle(g) \/ Retry(g) PROVE WaitsEnd'
  <2>1. /\ at[g] = "out" /\ at' = [at EXCEPT ![g] = "lock"] /\ lock' = lock
        /\ joined' = g /\ phase' = "wait" /\ phase \in {"cycle", "wait"}
    BY <1>1 DEF StartCycle, Retry, StartAttempt, Ask
  <2>2. g \in Threads /\ g # Main
    BY ThreadsAssumption DEF Threads
  <2>3. at'[Main] = "out" /\ at'[g] = "lock"
    BY <1>0, <2>1, <2>2 DEF WaitsEnd
  <2>4. lock # NoThread => at'[lock] = "in"
    BY <1>0, <2>1 DEF WaitsEnd
  <2> QED BY <2>1, <2>3, <2>4 DEF WaitsEnd
<1>2. CASE UseCamera \/ TimedOut
  <2>1. /\ at' = [at EXCEPT ![Main] = "lock"] /\ lock' = lock
        /\ phase \in {"cycle", "wait"} /\ phase' \in {"camera", "close"}
    BY <1>2 DEF UseCamera, TimedOut, Ask
  <2> QED BY <1>0, <2>1 DEF WaitsEnd
<1>3. CASE StartPreview
  <2>1. /\ at[Live] = "out" /\ at' = [at EXCEPT ![Live] = "lock"]
        /\ UNCHANGED <<phase, joined, lock, outcome>>
    BY <1>3 DEF StartPreview, Ask
  <2> QED BY <1>0, <2>1, ThreadsAssumption DEF WaitsEnd, Threads
<1> QED BY <1>1, <1>2, <1>3

\* A cycle that ends, and the next attempt after close().
LEMMA WaitsAtMain ==
    ASSUME CameraInv, WaitsEnd,
           \/ JoinFrame \/ CycleFails \/ FailAfterClose
           \/ \E g \in Grabs : RetryAfterClose(g)
    PROVE  WaitsEnd'
<1>0. at \in [Threads -> {"out", "lock", "in"}] /\ Main \in Threads
  BY DEF CameraInv, TypeOK, Threads
<1>1. CASE JoinFrame \/ CycleFails
  BY <1>1 DEF WaitsEnd, JoinFrame, CycleFails
<1>2. CASE FailAfterClose
  BY <1>0, <1>2 DEF WaitsEnd, FailAfterClose, Closed
<1>3. ASSUME NEW g \in Grabs, RetryAfterClose(g) PROVE WaitsEnd'
  <2>1. g \in Threads /\ g # Main
    BY ThreadsAssumption DEF Threads
  <2> QED BY <1>0, <1>3, <2>1 DEF WaitsEnd, RetryAfterClose, Closed
<1> QED BY <1>1, <1>2, <1>3

\* However many attempts the watchdog has given up on: nobody holds the lock
\* while waiting, and the main thread joins an attempt that is under way or
\* has left its outcome.
THEOREM NobodyWaitsForNothing == Spec => []WaitsEnd
<1>1. CameraInv /\ WaitsEnd /\ [Next]_vars => WaitsEnd'
  <2> SUFFICES ASSUME CameraInv, WaitsEnd, [Next]_vars PROVE WaitsEnd'
    OBVIOUS
  <2>1. CASE MainStep
    BY <2>1, WaitsAtMain, WaitsAtStarts DEF MainStep
  <2>2. CASE \E g \in Grabs : StartCycle(g) \/ GrabStep(g)
    BY <2>2, WaitsAtStarts, WaitsAtEnds
  <2>3. CASE UseCamera \/ CameraUsed \/ TimedOut \/ StartPreview \/ PreviewDone
    BY <2>3, WaitsAtStarts, WaitsAtEnds
  <2>4. CASE \E t \in Threads : Enter(t) \/ Open(t)
    BY <2>4, WaitsAtAdapter
  <2>5. CASE UNCHANGED vars
    BY <2>5 DEF vars, WaitsEnd
  <2> QED BY <2>1, <2>2, <2>3, <2>4, <2>5 DEF Next
<1> QED BY WaitsInitially, <1>1, CameraInvariant, PTL DEF Spec
=============================================================================
