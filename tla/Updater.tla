------------------------------- MODULE Updater -------------------------------
(***************************************************************************)
(* The update a person starts from the screen (services/api/core/          *)
(* updater.py) and the script it runs beside the API                       *)
(* (scripts/aivis-update.sh).  The script fetches the code, merges it,     *)
(* makes again the parts its changes touch, as far as the tools for it are *)
(* there, and restarts the service; the API learns what became of it from  *)
(* the script's process and its log.                                       *)
(*                                                                         *)
(* Versions are numbered in the order they are published.  How far a part  *)
(* that is made from the code is from it is told by the versions whose     *)
(* change is in the code but not in the part, or the other way round.      *)
(***************************************************************************)
EXTENDS Naturals

CONSTANTS
    Versions,   \* 1 .. the newest that will be published
    Parts,      \* what is made from the code: packages, screens
    Slots       \* processes of the script

ASSUME UpdaterAssumption == Versions \subseteq Nat /\ 0 \notin Versions /\ 1 \in Versions

VARIABLES
    systemd,    \* the service is installed (restart_supported)
    missing,    \* parts whose tool, npm or the virtual environment, is not there
    remote,     \* the newest version published
    origin,     \* the newest version fetched: origin/<branch>
    head,       \* the version checked out
    gap,        \* <<version, part>>: the change is in one of code and part only
    running,    \* the version the service runs
    lastGood,   \* .last_good_commit, 0 for none
    scripts,    \* the processes of the script
    log,        \* what the log file says, as far as it is asked for
    status,     \* state.json: the state, and the process it belongs to
    settling,   \* outcomes read from the log and not written yet
    asked,      \* requests that found no update running
    unbuilt,    \* history: what a script in its build could not or did not make
    doubled     \* history: two updates ran at the same time

codeVars == <<remote, origin, head, gap, running, lastGood, unbuilt>>
requestVars == <<status, settling, asked>>
updateVars == <<systemd, missing, codeVars, scripts, log, requestVars, doubled>>

ScriptSteps == {"none", "begin", "fetch", "merge", "build", "restart"}
Process(step, prev, target) == [step |-> step, prev |-> prev, target |-> target]
NoProcess == Process("none", 0, 0)
Marks == {"latest", "done"}
States == {"idle", "running", "success", "failed"}

\* An outcome on its way to the state file, of a request that only wants to
\* know or of one that wants to start an update.
Outcomes == [state : {"success", "failed"}, asks : BOOLEAN]

UpdateTypeOK ==
    /\ systemd \in BOOLEAN /\ missing \subseteq Parts
    /\ {remote, origin, head, running} \subseteq Versions
    /\ gap \subseteq Versions \X Parts /\ unbuilt \subseteq Versions \X Parts
    /\ lastGood \in Versions \cup {0}
    /\ scripts \in [Slots -> [step : ScriptSteps, prev : Versions \cup {0},
                              target : Versions \cup {0}]]
    /\ log \subseteq Marks
    /\ status \in [state : States, pid : Slots \cup {0}]
    /\ settling \subseteq Outcomes
    /\ asked \in Nat
    /\ doubled \in BOOLEAN

UpdateInit ==
    /\ systemd \in BOOLEAN /\ missing \in SUBSET Parts
    /\ remote = 1 /\ origin = 1 /\ head = 1 /\ running = 1 /\ lastGood = 0
    /\ gap = {} /\ unbuilt = {}
    /\ scripts = [i \in Slots |-> NoProcess]
    /\ log = {}
    /\ status = [state |-> "idle", pid |-> 0]
    /\ settling = {} /\ asked = 0 /\ doubled = FALSE

\* git diff a b: the versions whose change lies between the two.
Between(a, b) == {v \in Versions : (a < v /\ v <= b) \/ (b < v /\ v <= a)}

\* The code goes from one version to another; the parts stay as they are.
Differ(a, b) ==
    LET all == Between(a, b) \X Parts IN (gap \ all) \cup (all \ gap)

Alive(i) == scripts[i].step # "none"
Becomes(i, process) == scripts' = [scripts EXCEPT ![i] = process]
Goes(i, step) == Becomes(i, Process(step, scripts[i].prev, scripts[i].target))
Dies(i) == Becomes(i, NoProcess)

-----------------------------------------------------------------------------
(* services/api/core/updater.py *)

\* The log says how it ended, if it can be read.
Outcome(unread) == IF log \cap Marks # {} /\ ~unread THEN "success" ELSE "failed"

\* get_state settles a run whose process is gone, or is too old.
Over(late) == status.state = "running" /\ (late \/ status.pid = 0 \/ ~Alive(status.pid))

\* get_state: what the state file and the log say is taken for the outcome ...
Judge(unread, asks) ==
    /\ settling' = settling \cup {[state |-> Outcome(unread), asks |-> asks]}
    /\ UNCHANGED <<systemd, missing, codeVars, scripts, log, status, asked, doubled>>

\* The screen asks how far it is.
GetState(late, unread) == Over(late) /\ Judge(unread, FALSE)

\* ... and written, whatever the state file says by then; a failing write is
\* passed over (_write_state).  A request for an update goes on.
SettleWrites(r, fails) ==
    /\ r \in settling
    /\ settling' = settling \ {r}
    /\ status' = IF fails THEN status ELSE [state |-> r.state, pid |-> 0]
    /\ asked' = IF r.asks THEN asked + 1 ELSE asked
    /\ UNCHANGED <<systemd, missing, codeVars, scripts, log, doubled>>

\* start_update: the check.  A state file that is just being written, or
\* cannot be read, is one that says nothing (_read_state) ...
AskUpdate(misread, unread) ==
    IF ~misread /\ status.state = "running"
    THEN Over(FALSE) /\ Judge(unread, TRUE)
    ELSE /\ asked' = asked + 1
         /\ UNCHANGED <<systemd, missing, codeVars, scripts, log, status, settling, doubled>>

\* ... and the start, by which time another request may have started one.
StartScript(i, fails) ==
    /\ asked > 0
    /\ ~Alive(i) /\ i # status.pid
    /\ asked' = asked - 1
    /\ log' = {}
    /\ Becomes(i, Process("begin", 0, 0))
    /\ status' = IF fails THEN status ELSE [state |-> "running", pid |-> i]
    /\ doubled' = (doubled \/ \E j \in Slots : Alive(j))
    /\ UNCHANGED <<systemd, missing, codeVars, settling>>

\* The script cannot be started; the log is empty by then.
StartFails ==
    /\ asked > 0
    /\ asked' = asked - 1
    /\ log' = {}
    /\ UNCHANGED <<systemd, missing, codeVars, scripts, status, settling, doubled>>

\* check_remote: the screen asks for a newer version, and fetches it.
CheckRemote ==
    /\ origin # remote
    /\ origin' = remote
    /\ UNCHANGED <<systemd, missing, remote, head, gap, running, lastGood, unbuilt,
                   scripts, log, requestVars, doubled>>

-----------------------------------------------------------------------------
(* scripts/aivis-update.sh *)

ScriptOnly == UNCHANGED <<systemd, missing, remote, requestVars, doubled>>

\* [1/5] the version before
BeginScript(i) ==
    /\ scripts[i].step = "begin"
    /\ Becomes(i, Process("fetch", head, 0))
    /\ ScriptOnly /\ UNCHANGED <<codeVars, log>>

\* [2/5] git fetch
Fetch(i) ==
    /\ scripts[i].step = "fetch"
    /\ Goes(i, "merge")
    /\ origin' = remote
    /\ log' = IF remote = scripts[i].prev THEN log \cup {"latest"} ELSE log
    /\ ScriptOnly /\ UNCHANGED <<head, gap, running, lastGood, unbuilt>>

\* [2/5] git merge or checkout, of what has been fetched by now; the version
\* before can be rolled back to, if it can be written down.
Merge(i) ==
    /\ scripts[i].step = "merge"
    /\ head' = origin
    /\ gap' = Differ(head, origin)
    /\ lastGood' \in {lastGood, scripts[i].prev}
    /\ Becomes(i, Process("build", scripts[i].prev, origin))
    /\ ScriptOnly /\ UNCHANGED <<origin, running, unbuilt, log>>

\* [3/5]: what has changed since the version before, by part.
Changed(i) == Between(scripts[i].prev, scripts[i].target)
Due(i) == gap \cap (Changed(i) \X Parts)
Makes(i) == Changed(i) \X (Parts \ missing)

\* Faulty variant: the changes are looked for after the merge.
BuildFromHead(i) ==
    LET made == Between(head, scripts[i].target) \X (Parts \ missing)
    IN  /\ scripts[i].step = "build"
        /\ gap' = gap \ made
        /\ unbuilt' = (unbuilt \ made) \cup {d \in Due(i) : d[2] \in missing}
        /\ Goes(i, "restart")
        /\ ScriptOnly /\ UNCHANGED <<origin, head, running, lastGood, log>>

\* [4/5]: it is made again.  Where the tool is missing the script warns, and
\* goes on as if it had been made.
Build(i) ==
    /\ scripts[i].step = "build"
    /\ gap' = gap \ Makes(i)
    /\ unbuilt' = (unbuilt \cup Due(i)) \ Makes(i)
    /\ Goes(i, "restart")
    /\ ScriptOnly /\ UNCHANGED <<origin, head, running, lastGood, log>>

\* What the scripts that are in their build have still to make.
Building == UNION {Due(i) : i \in {j \in Slots : scripts[j].step = "build"}}

\* die: no step is undone.
ScriptFails(i) ==
    /\ scripts[i].step \in {"fetch", "merge", "build"}
         \cup (IF systemd THEN {"restart"} ELSE {})
    /\ Dies(i)
    /\ unbuilt' = IF scripts[i].step = "build" THEN unbuilt \cup Due(i) ELSE unbuilt
    /\ ScriptOnly /\ UNCHANGED <<origin, head, gap, running, lastGood, log>>

\* [5/5] without a service there is nothing to restart.
ScriptDone(i) ==
    /\ scripts[i].step = "restart"
    /\ ~systemd
    /\ log' = log \cup {"done"}
    /\ Dies(i)
    /\ ScriptOnly /\ UNCHANGED codeVars

\* The service restarts: every process of its control group ends, the script
\* and the requests among them.
ServiceRestarts ==
    /\ running' = head
    /\ scripts' = [i \in Slots |-> NoProcess]
    /\ unbuilt' = unbuilt \cup Building
    /\ asked' = 0 /\ settling' = {}
    /\ UNCHANGED <<systemd, missing, remote, origin, head, gap, lastGood, log, status,
                   doubled>>

\* [5/5] systemctl restart
ScriptRestarts(i) == scripts[i].step = "restart" /\ systemd /\ ServiceRestarts

\* --rollback, in a terminal, by a person who has seen what became of the
\* update: the code goes back, the parts stay.
Rollback ==
    /\ status.state # "running"
    /\ lastGood # 0
    /\ \A i \in Slots : ~Alive(i)
    /\ head' = lastGood
    /\ gap' = Differ(head, lastGood)
    /\ unbuilt' = unbuilt \ (Between(head, lastGood) \X Parts)
    /\ UNCHANGED <<systemd, missing, remote, origin, running, lastGood, scripts, log,
                   requestVars, doubled>>

\* A version is published.
Publish ==
    /\ remote + 1 \in Versions
    /\ remote' = remote + 1
    /\ UNCHANGED <<systemd, missing, origin, head, gap, running, lastGood, unbuilt,
                   scripts, log, requestVars, doubled>>
=============================================================================
