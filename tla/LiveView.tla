------------------------------ MODULE LiveView ------------------------------
(***************************************************************************)
(* The live view of one camera: the relay in the API (services/api/core/   *)
(* live.py), the screen that looks at it, and the worker's publisher       *)
(* (services/vision/worker/live.py), which the answers to the heartbeat    *)
(* start and the answers to its own frames stop.  The same answers carry   *)
(* the request for one picture.                                            *)
(*                                                                         *)
(* requested stands for "the time asked for is not over and the session is *)
(* not too long"; it runs out when no screen reads the state, and after    *)
(* MAX_SESSION_S in any case.                                              *)
(***************************************************************************)
EXTENDS Naturals

CONSTANT MaxFails    \* LivePublisher._MAX_FAILS

ASSUME FailsAssumption == MaxFails \in Nat

Answers == [live : BOOLEAN, capture : BOOLEAN]
NoAnswer == [live |-> FALSE, capture |-> FALSE]

VARIABLES
    relay,     \* requested, capture, and whether there is a frame
    screen,    \* somebody reads the state of the view
    active,    \* LivePublisher._active
    sending,   \* its frame: "no", "sent", or the answer on its way back
    fails,     \* LivePublisher._fails
    capture,   \* Worker._capture
    late,      \* a frame whose sender has given up is still on its way
    lost       \* history: a request for a picture was handed out and lost

liveVars == <<relay, screen, active, sending, fails, capture, late, lost>>

LiveTypeOK ==
    /\ relay \in [requested : BOOLEAN, capture : BOOLEAN, frame : BOOLEAN]
    /\ screen \in BOOLEAN
    /\ active \in BOOLEAN
    /\ sending \in {"no", "sent", "answered"} \X Answers
    /\ fails \in 0 .. MaxFails
    /\ capture \in BOOLEAN
    /\ late \in BOOLEAN
    /\ lost \in BOOLEAN

Blank == [requested |-> FALSE, capture |-> FALSE, frame |-> FALSE]
Idle == <<"no", NoAnswer>>

LiveInit ==
    /\ relay = Blank
    /\ screen = FALSE
    /\ active = FALSE
    /\ sending = Idle
    /\ fails = 0
    /\ capture = FALSE
    /\ late = FALSE
    /\ lost = FALSE

publisherVars == <<active, sending, fails, capture, late, lost>>

-----------------------------------------------------------------------------
(* The screen and the relay *)

\* start: a new session forgets the last frame.
StartView ==
    /\ relay' = [relay EXCEPT !.requested = TRUE,
                              !.frame = @ /\ relay.requested]
    /\ screen' = TRUE
    /\ UNCHANGED publisherVars

StopView ==
    /\ relay' = [relay EXCEPT !.requested = FALSE, !.frame = FALSE]
    /\ screen' = FALSE
    /\ UNCHANGED publisherVars

\* The browser is closed: nothing is called.
LeaveScreen ==
    /\ screen /\ screen' = FALSE
    /\ UNCHANGED <<relay, publisherVars>>

\* VIEW_TTL_S without a call of touch.
RunsOut ==
    /\ relay.requested /\ ~screen
    /\ relay' = [relay EXCEPT !.requested = FALSE]
    /\ UNCHANGED <<screen, publisherVars>>

\* MAX_SESSION_S: touch no longer extends it.
SessionOver ==
    /\ relay.requested
    /\ relay' = [relay EXCEPT !.requested = FALSE]
    /\ UNCHANGED <<screen, publisherVars>>

RequestCapture ==
    /\ relay' = [relay EXCEPT !.capture = TRUE]
    /\ UNCHANGED <<screen, publisherVars>>

\* The relay lives in memory.
RestartApi ==
    /\ relay' = Blank
    /\ lost' = (lost \/ relay.capture)
    /\ UNCHANGED <<screen, active, sending, fails, capture, late>>

\* wants: a capture is handed out once.
Wants == [live |-> relay.requested, capture |-> relay.capture]

\* put_frame: a frame nobody asked for is dropped.
RelayAfterFrame ==
    [relay EXCEPT !.capture = FALSE, !.frame = relay.requested \/ @]

-----------------------------------------------------------------------------
(* The publisher *)

\* publish_once: the preview is taken and sent.
SendFrame ==
    /\ active /\ sending = Idle
    /\ sending' = <<"sent", NoAnswer>>
    /\ UNCHANGED <<relay, screen, active, fails, capture, late, lost>>

\* The API has the frame and answers.
FrameArrives ==
    /\ sending[1] = "sent"
    /\ relay' = RelayAfterFrame
    /\ sending' = <<"answered", Wants>>
    /\ UNCHANGED <<screen, active, fails, capture, late, lost>>

\* Faulty variant: the publisher goes on whatever the answer says.
AnsweredOn ==
    /\ sending[1] = "answered"
    /\ fails' = 0
    /\ capture' = (capture \/ sending[2].capture)
    /\ sending' = Idle
    /\ UNCHANGED <<relay, screen, active, late, lost>>

\* Faulty variant: the answer is only asked whether to go on.
AnsweredDeaf ==
    /\ sending[1] = "answered"
    /\ fails' = 0
    /\ active' = (active /\ sending[2].live)
    /\ sending' = Idle
    /\ UNCHANGED <<relay, screen, capture, late, lost>>

\* on_capture, and deactivate on an answer that does not ask for more.
Answered ==
    /\ sending[1] = "answered"
    /\ fails' = 0
    /\ capture' = (capture \/ sending[2].capture)
    /\ active' = (active /\ sending[2].live)
    /\ sending' = Idle
    /\ UNCHANGED <<relay, screen, late, lost>>

\* No preview, no connection, or no answer in time: after MaxFails of them
\* the publisher stops itself.
Fails ==
    /\ fails' = IF fails < MaxFails THEN fails + 1 ELSE fails
    /\ active' = (active /\ fails + 1 < MaxFails)

NoPreview ==
    /\ active /\ sending = Idle
    /\ Fails
    /\ UNCHANGED <<relay, screen, sending, capture, late, lost>>

FrameLost(arrives) ==
    /\ sending[1] = "sent"
    /\ Fails
    /\ sending' = Idle
    /\ late' = (late \/ arrives)
    /\ UNCHANGED <<relay, screen, capture, lost>>

AnswerLost ==
    /\ sending[1] = "answered"
    /\ Fails
    /\ sending' = Idle
    /\ lost' = (lost \/ sending[2].capture)
    /\ UNCHANGED <<relay, screen, capture, late>>

LateFrame ==
    /\ late /\ late' = FALSE
    /\ relay' = RelayAfterFrame
    /\ lost' = (lost \/ relay.capture)
    /\ UNCHANGED <<screen, active, sending, fails, capture>>

Publish == SendFrame \/ FrameArrives \/ Answered \/ LateFrame

-----------------------------------------------------------------------------
(* The heartbeat of the worker's main thread *)

\* report_status (routers/inspection.py) answers with Wants.
RelayAfterBeat == [relay EXCEPT !.capture = FALSE]

\* Faulty variant: a publisher that has given up is not started again.
ObeyOnce(a) ==
    /\ active' = (active \/ (a.live /\ fails < MaxFails))
    /\ fails' = fails
    /\ capture' = (capture \/ a.capture)

\* activate, and the event of _handle_commands.
Obey(a) ==
    /\ active' = (active \/ a.live)
    /\ fails' = IF a.live /\ ~active THEN 0 ELSE fails
    /\ capture' = (capture \/ a.capture)

\* The worker starts again; dropped: it had a request in hand.
RestartPublisher(dropped) ==
    /\ active' = FALSE /\ fails' = 0 /\ capture' = FALSE
    /\ sending' = Idle
    /\ lost' = (lost \/ dropped \/ capture \/ sending[2].capture)
    /\ late' = (late \/ sending[1] = "sent")
    /\ UNCHANGED <<relay, screen>>
=============================================================================
