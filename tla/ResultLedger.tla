----------------------------- MODULE ResultLedger -----------------------------
(***************************************************************************)
(* What the delivery of inspection results promises, whatever happens to   *)
(* the network, the worker and the API: a result is held by the worker     *)
(* from its inspection on; once it is safe (in the database or the local   *)
(* queue) it stays safe; the worker is told that it may forget a result    *)
(* only if that result is safe; a result that is not safe may be lost, and *)
(* may yet become safe when a late request arrives; a result is alarmed    *)
(* once at most, and only when it is safe.                                 *)
(***************************************************************************)
CONSTANT Tubes

VARIABLES status, acknowledged, alarmed

vars == <<status, acknowledged, alarmed>>

Init ==
    /\ status = [t \in Tubes |-> "unseen"]
    /\ acknowledged = {}
    /\ alarmed = {}

\* The results of ts, all in state `from`, go to state `to`.
Change(ts, from, to) ==
    /\ \A t \in ts : status[t] \in from
    /\ status' = [t \in Tubes |-> IF t \in ts THEN to ELSE status[t]]
    /\ UNCHANGED <<acknowledged, alarmed>>

Inspect(ts) == Change(ts, {"unseen"}, "held")

Secure(t) == Change({t}, {"held", "lost"}, "safe")

Lose(ts) == Change(ts, {"held"}, "lost")

Acknowledge(t) ==
    /\ status[t] = "safe"
    /\ acknowledged' = acknowledged \cup {t}
    /\ UNCHANGED <<status, alarmed>>

Alarm(t) ==
    /\ status[t] = "safe" /\ t \notin alarmed
    /\ alarmed' = alarmed \cup {t}
    /\ UNCHANGED <<status, acknowledged>>

Next ==
    \/ \E ts \in SUBSET Tubes : Inspect(ts) \/ Lose(ts)
    \/ \E t \in Tubes : Secure(t) \/ Acknowledge(t) \/ Alarm(t)

Spec == Init /\ [][Next]_vars

-----------------------------------------------------------------------------
\* What the worker may forget and what was alarmed is safe ...
KnownIsSafe == \A t \in acknowledged \cup alarmed : status[t] = "safe"

\* ... and safe is for ever; nothing is taken back, nothing comes back unseen.
SafeStays ==
    [][/\ \A t \in Tubes : /\ status[t] = "safe" => status'[t] = "safe"
                          /\ status'[t] = "unseen" => status[t] = "unseen"
       /\ acknowledged \subseteq acknowledged' /\ alarmed \subseteq alarmed']_vars
=============================================================================
