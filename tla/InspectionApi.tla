---------------------------- MODULE InspectionApi ----------------------------
(***************************************************************************)
(* The API's side of a result: POST /inspection (create_inspection and     *)
(* _save_with_backup, services/api/routers/inspection.py), the idempotent  *)
(* save (core/inspection_service.py), the local queue of results the       *)
(* database did not take (core/local_queue.py) and its replay by           *)
(* POST /inspection/retry-queue.                                           *)
(*                                                                         *)
(* create_inspection is a coroutine that calls _save_with_backup without   *)
(* awaiting: one call at a time is between "find" and its outcome.         *)
(* retry-queue is a plain function, run by a thread pool: drains run       *)
(* concurrently with the calls and with each other.                        *)
(*                                                                         *)
(* rows and queue are on disk and survive a crash of the API, calls and    *)
(* drains do not.                                                          *)
(***************************************************************************)
EXTENDS Inspections

CONSTANTS
    Drainers,   \* threads that may run POST /inspection/retry-queue
    MaxCalls    \* bound: requests on their way or being handled at a time

VARIABLES
    rows,       \* how many inspection rows hold the tube's natural key
    queue,      \* tubes with a file in the local queue (copies are not told apart)
    announced,  \* how often the row of a tube was broadcast and counted as NG/OK
    calls,      \* POST /inspection requests on their way or being handled
    answer,     \* the response on its way to the worker
    drain       \* what each drain is doing

apiVars == <<rows, queue, announced, calls, answer, drain>>

Answers == {"none", "stored", "refused", "error"}

\* The stages of a call: "sent" until the handler starts, "insert" after the
\* natural key was not found, "backup" after an exception, "announce" after
\* the commit of a new row.  live: the worker is still waiting for the answer.
Call(t, live, stage) == [tube |-> t, live |-> live, stage |-> stage]
Calls == [tube : Tubes, live : BOOLEAN,
          stage : {"sent", "insert", "backup", "announce"}]

IdleDrain == [todo |-> {}, tube |-> NoTube, stage |-> "idle"]
Drains == [todo : SUBSET Tubes, tube : Tubes \cup {NoTube},
           stage : {"idle", "insert", "remove"}]

ApiTypeOK ==
    /\ rows \in [Tubes -> Nat]
    /\ queue \in SUBSET Tubes
    /\ announced \in [Tubes -> Nat]
    /\ calls \in SUBSET Calls
    /\ answer \in Answers
    /\ drain \in [Drainers -> Drains]

ApiInit ==
    /\ rows = [t \in Tubes |-> 0]
    /\ queue = {}
    /\ announced = [t \in Tubes |-> 0]
    /\ calls = {}
    /\ answer = "none"
    /\ drain = [d \in Drainers |-> IdleDrain]

-----------------------------------------------------------------------------
(* save_inspection *)

\* find_by_natural_key
Exists(t) == rows[t] > 0

\* INSERT and commit: the unique index ux_insp_natkey refuses a second row.
InsertRow(t) ==
    /\ rows[t] = 0
    /\ rows' = [rows EXCEPT ![t] = @ + 1]

-----------------------------------------------------------------------------
(* POST /inspection *)

EventLoopFree == \A c \in calls : c.stage \notin {"insert", "backup"}

\* The call moves to its next stage.
Move(c, stage) ==
    /\ calls' = (calls \ {c}) \cup {[c EXCEPT !.stage = stage]}
    /\ UNCHANGED answer

\* The handler returns; only a worker that still waits gets the response.
Return(c, outcome) ==
    /\ calls' = calls \ {c}
    /\ answer' = IF c.live THEN outcome ELSE answer

\* Authentication or validation refuses the request: 401, 403, 422.
Refuse(c) ==
    /\ c.stage = "sent"
    /\ Return(c, "refused")
    /\ UNCHANGED <<rows, queue, announced, drain>>

\* The handler starts: find_by_natural_key finds no row.
FindNone(c) ==
    /\ c.stage = "sent" /\ EventLoopFree
    /\ ~Exists(c.tube)
    /\ Move(c, "insert")
    /\ UNCHANGED <<rows, queue, announced, drain>>

\* Faulty variant: `created` is not looked at, a resend is announced again.
DuplicateAnnounced(c) ==
    /\ \/ c.stage = "sent" /\ EventLoopFree
       \/ c.stage = "insert"
    /\ Exists(c.tube)
    /\ Move(c, "announce")
    /\ UNCHANGED <<rows, queue, announced, drain>>

\* There is a row already, now or when the unique index refuses the insert
\* (IntegrityError, rollback, query again): 2xx without an announcement.
Duplicate(c) ==
    /\ \/ c.stage = "sent" /\ EventLoopFree
       \/ c.stage = "insert"
    /\ Exists(c.tube)
    /\ Return(c, "stored")
    /\ UNCHANGED <<rows, queue, announced, drain>>

\* INSERT and commit succeed, and so does write_log.
Commit(c) ==
    /\ c.stage = "insert"
    /\ InsertRow(c.tube)
    /\ Move(c, "announce")
    /\ UNCHANGED <<queue, announced, drain>>

\* The commit succeeds but what follows it in the same try block (refresh,
\* write_log) raises: the handler backs up a result that is already stored.
CommitThenRaise(c) ==
    /\ c.stage = "insert"
    /\ InsertRow(c.tube)
    /\ Move(c, "backup")
    /\ UNCHANGED <<queue, announced, drain>>

\* The database raises before anything is committed.
DatabaseFails(c) ==
    /\ \/ c.stage = "sent" /\ EventLoopFree
       \/ c.stage = "insert"
    /\ Move(c, "backup")
    /\ UNCHANGED <<rows, queue, announced, drain>>

\* Faulty variant: the response is one the worker does not classify.
BackupUnclassified(c) ==
    /\ c.stage = "backup"
    /\ queue' = queue \cup {c.tube}
    /\ Return(c, "queued")
    /\ UNCHANGED <<rows, announced, drain>>

\* local_queue.backup succeeds: the response is 2xx, status=queued.
Backup(c) ==
    /\ c.stage = "backup"
    /\ queue' = queue \cup {c.tube}
    /\ Return(c, "stored")
    /\ UNCHANGED <<rows, announced, drain>>

\* Faulty variant: the second exception is swallowed as well.
BackupFailsSilently(c) ==
    /\ c.stage = "backup"
    /\ Return(c, "stored")
    /\ UNCHANGED <<rows, queue, announced, drain>>

\* local_queue.backup fails too: the exception goes on and becomes a 500.
BackupFails(c) ==
    /\ c.stage = "backup"
    /\ Return(c, "error")
    /\ UNCHANGED <<rows, queue, announced, drain>>

\* hub.broadcast, tracker.record and the alarms, then the response.
Announce(c) ==
    /\ c.stage = "announce"
    /\ announced' = [announced EXCEPT ![c.tube] = @ + 1]
    /\ Return(c, "stored")
    /\ UNCHANGED <<rows, queue, drain>>

\* A request is lost on its way.
LoseCall(c) ==
    /\ c.stage = "sent"
    /\ calls' = calls \ {c}
    /\ UNCHANGED <<rows, queue, announced, answer, drain>>

HandleCall(c) ==
    \/ Refuse(c) \/ FindNone(c) \/ Duplicate(c)
    \/ Commit(c) \/ CommitThenRaise(c) \/ DatabaseFails(c)
    \/ Backup(c) \/ BackupFails(c)
    \/ Announce(c) \/ LoseCall(c)

-----------------------------------------------------------------------------
(* POST /inspection/retry-queue *)

\* pending_files: the files listed once, at the start.
DrainStart(d) ==
    /\ drain[d] = IdleDrain
    /\ queue # {}
    /\ drain' = [drain EXCEPT ![d].todo = queue]
    /\ UNCHANGED <<rows, queue, announced, calls, answer>>

\* The drain goes on with the next file, whatever became of this one.
NextFile(d, t) ==
    drain' = [drain EXCEPT ![d] = [todo |-> @.todo \ {t}, tube |-> NoTube, stage |-> "idle"]]

\* Faulty variant: the file is removed whatever the saver did.
DrainSkipRemoving(d, t) ==
    /\ t \in drain[d].todo
    /\ drain[d].tube \in {NoTube, t} /\ drain[d].stage # "remove"
    /\ NextFile(d, t)
    /\ queue' = queue \ {t}
    /\ UNCHANGED <<rows, announced, calls, answer>>

\* load or the saver raises (the file is gone, the database is down): the
\* file, if there is one, stays.
DrainSkip(d, t) ==
    /\ t \in drain[d].todo
    /\ drain[d].tube \in {NoTube, t} /\ drain[d].stage # "remove"
    /\ NextFile(d, t)
    /\ UNCHANGED <<rows, queue, announced, calls, answer>>

\* The saver looks for the natural key.
DrainFind(d, t) ==
    /\ t \in drain[d].todo /\ t \in queue
    /\ drain[d].tube = NoTube
    /\ drain' = [drain EXCEPT ![d].tube = t,
                              ![d].stage = IF Exists(t) THEN "remove" ELSE "insert"]
    /\ UNCHANGED <<rows, queue, announced, calls, answer>>

\* The saver inserts the row, or loses the race for it to another thread.
DrainInsert(d) ==
    /\ drain[d].stage = "insert"
    /\ IF Exists(drain[d].tube) THEN UNCHANGED rows ELSE InsertRow(drain[d].tube)
    /\ drain' = [drain EXCEPT ![d].stage = "remove"]
    /\ UNCHANGED <<queue, announced, calls, answer>>

\* os.remove.  It is outside the try: when another drain has removed the file
\* the exception ends this drain.
DrainRemove(d) ==
    LET t == drain[d].tube
    IN  /\ drain[d].stage = "remove"
        /\ queue' = queue \ {t}
        /\ IF t \in queue THEN NextFile(d, t)
                          ELSE drain' = [drain EXCEPT ![d] = IdleDrain]
        /\ UNCHANGED <<rows, announced, calls, answer>>

Drain(d) ==
    \/ DrainStart(d) \/ DrainInsert(d) \/ DrainRemove(d)
    \/ \E t \in Tubes : DrainSkip(d, t) \/ DrainFind(d, t)

-----------------------------------------------------------------------------
\* The API process dies and is restarted: what it was handling is gone.
ApiCrash ==
    /\ calls' = {c \in calls : c.stage = "sent"}
    /\ drain' = [d \in Drainers |-> IdleDrain]
    /\ UNCHANGED <<rows, queue, announced, answer>>

ApiNext ==
    \/ \E c \in calls : HandleCall(c)
    \/ \E d \in Drainers : Drain(d)
    \/ ApiCrash

=============================================================================
