------------------------------ MODULE NasArchive ------------------------------
(***************************************************************************)
(* The second copy of every picture on a network drive                     *)
(* (services/vision/imaging/archive.py).  The main thread hands pictures   *)
(* over; a background thread writes them under the mount point, if the     *)
(* marker file shows that the drive is mounted, else into a spool of       *)
(* limited size on the SD card, from where it moves them later.            *)
(*                                                                         *)
(* Every picture counts one unit of the spool.  The drive comes and goes;  *)
(* a file written below the mount point while it is away stays on the SD   *)
(* card, hidden by the next mount.                                         *)
(***************************************************************************)
EXTENDS Naturals, FiniteSets, Sequences, SequencesExt

CONSTANTS
    Pictures,       \* keys: raw/<name>, result/<name>, review/<name>
    QueueSize,      \* QUEUE_MAX
    SpoolMax,       \* spool_max_bytes, in pictures
    MaxCrashes,     \* bound on the restarts of the worker
    MaxUnmounts     \* bound on the times the drive goes away

ASSUME ArchiveAssumption ==
    QueueSize \in Nat /\ SpoolMax \in Nat /\ MaxCrashes \in Nat /\ MaxUnmounts \in Nat

VARIABLES
    todo,       \* pictures the main thread is about to submit
    q,          \* _q, tasks in memory
    thread,     \* what the background thread is doing
    spool,      \* files of the spool
    bytes,      \* _spool_bytes
    pending,    \* _pending
    dropped,    \* pictures given up: counted in dropped, or reported by _fail
    mounted,    \* the marker file is there
    nas,        \* pictures on the drive
    misplaced,  \* pictures on the SD card below the mount point
    lost,       \* history: pictures that died with the process
    unseen,     \* history: files a start whose listing failed did not count
    crashes, unmounts

archiveVars == <<todo, q, thread, spool, bytes, pending, dropped, mounted,
                 nas, misplaced, lost, crashes, unmounts, unseen>>

NoTask == [step |-> "idle"]
Threads ==
    {NoTask}
    \cup [step : {"check", "write", "spool"}, pic : Pictures]
    \cup [step : {"moveCheck", "moveWrite", "unlink", "count"}, pic : Pictures,
          rest : SUBSET Pictures]

ArchiveTypeOK ==
    /\ todo \in Seq(Pictures)
    /\ q \in Seq(Pictures) /\ Len(q) <= QueueSize
    /\ thread \in Threads
    /\ bytes \in Nat /\ pending \in Nat
    /\ spool \in SUBSET Pictures /\ dropped \in SUBSET Pictures
    /\ nas \in SUBSET Pictures /\ misplaced \in SUBSET Pictures /\ lost \in SUBSET Pictures
    /\ mounted \in BOOLEAN
    /\ unseen \in Nat
    /\ crashes \in 0 .. MaxCrashes
    /\ unmounts \in 0 .. MaxUnmounts

ArchiveInit ==
    /\ todo = <<>> /\ q = <<>> /\ spool = {}
    /\ thread = NoTask
    /\ bytes = 0 /\ pending = 0
    /\ dropped = {} /\ nas = {} /\ misplaced = {} /\ lost = {}
    /\ mounted \in BOOLEAN
    /\ unseen = 0 /\ crashes = 0 /\ unmounts = 0

InHand == IF thread.step \in {"check", "write", "spool"} THEN {thread.pic} ELSE {}

\* _to_spool, under the lock: counted as dropped over the limit or on an error.
ToSpool(p) ==
    \/ /\ bytes + 1 <= SpoolMax
       /\ spool' = spool \cup {p}
       /\ bytes' = bytes + 1
       /\ pending' = pending + 1
       /\ UNCHANGED dropped
    \/ /\ dropped' = dropped \cup {p}
       /\ UNCHANGED <<spool, bytes, pending>>

-----------------------------------------------------------------------------
(* The main thread: submit *)

\* Faulty variant: a queue without a limit.
RoomAlways == TRUE

RoomInQueue == Len(q) < QueueSize

Submit ==
    /\ todo # <<>>
    /\ todo' = Tail(todo)
    /\ IF RoomInQueue
       THEN /\ q' = Append(q, Head(todo))
            /\ UNCHANGED <<spool, bytes, pending, dropped>>
       ELSE /\ ToSpool(Head(todo))
            /\ UNCHANGED q
    /\ UNCHANGED <<thread, mounted, nas, misplaced, lost, crashes, unmounts, unseen>>

-----------------------------------------------------------------------------
(* The background thread: _loop, _handle, _write_nas *)

Take ==
    /\ thread = NoTask
    /\ q # <<>>
    /\ thread' = [step |-> "check", pic |-> Head(q)]
    /\ q' = Tail(q)
    /\ UNCHANGED <<todo, spool, bytes, pending, dropped, mounted, nas, misplaced,
                   lost, crashes, unmounts, unseen>>

\* _encode raises: the picture is gone, and only last_error says so.
EncodeFails ==
    /\ thread.step = "check"
    /\ dropped' = dropped \cup {thread.pic}
    /\ thread' = NoTask
    /\ UNCHANGED <<todo, q, spool, bytes, pending, mounted, nas, misplaced,
                   lost, crashes, unmounts, unseen>>

\* nas_available ...
CheckMarker ==
    /\ thread.step = "check"
    /\ thread' = [thread EXCEPT !.step = IF mounted THEN "write" ELSE "spool"]
    /\ UNCHANGED <<todo, q, spool, bytes, pending, dropped, mounted, nas, misplaced,
                   lost, crashes, unmounts, unseen>>

\* ... then _atomic_write, wherever the path leads by now.
Put(p) ==
    IF mounted
    THEN nas' = nas \cup {p} /\ UNCHANGED misplaced
    ELSE misplaced' = misplaced \cup {p} /\ UNCHANGED nas

WriteNas ==
    /\ thread.step = "write"
    /\ Put(thread.pic)
    /\ thread' = NoTask
    /\ UNCHANGED <<todo, q, spool, bytes, pending, dropped, mounted, lost,
                   crashes, unmounts, unseen>>

WriteFails ==
    /\ thread.step = "write"
    /\ thread' = [thread EXCEPT !.step = "spool"]
    /\ UNCHANGED <<todo, q, spool, bytes, pending, dropped, mounted, nas, misplaced,
                   lost, crashes, unmounts, unseen>>

SpoolIt ==
    /\ thread.step = "spool"
    /\ ToSpool(thread.pic)
    /\ thread' = NoTask
    /\ UNCHANGED <<todo, q, mounted, nas, misplaced, lost, crashes, unmounts, unseen>>

-----------------------------------------------------------------------------
(* retry_spool: every retry_s seconds, between two tasks *)

\* The next of the files listed at the start; in the order of their times,
\* which nothing here depends on.
Move(rest) ==
    IF rest = {} THEN {NoTask}
    ELSE {[step |-> "moveCheck", pic |-> p, rest |-> rest \ {p}] : p \in rest}

\* Faulty variant: one file is not worth the way.
RetryDueForTwo == pending > 1 /\ mounted

RetryDue == pending > 0 /\ mounted

RetryStart ==
    /\ thread = NoTask
    /\ RetryDue
    /\ spool # {}
    /\ thread' \in Move(spool)
    /\ UNCHANGED <<todo, q, spool, bytes, pending, dropped, mounted, nas, misplaced,
                   lost, crashes, unmounts, unseen>>

\* Faulty variant: the marker is looked for once at the start of the retry.
MarkerOnce == TRUE

MarkerSeen == mounted

MoveCheck ==
    /\ thread.step = "moveCheck"
    /\ thread' = IF MarkerSeen THEN [thread EXCEPT !.step = "moveWrite"] ELSE NoTask
    /\ UNCHANGED <<todo, q, spool, bytes, pending, dropped, mounted, nas, misplaced,
                   lost, crashes, unmounts, unseen>>

MoveWrite ==
    /\ thread.step = "moveWrite"
    /\ Put(thread.pic)
    /\ thread' = [thread EXCEPT !.step = "unlink"]
    /\ UNCHANGED <<todo, q, spool, bytes, pending, dropped, mounted, lost,
                   crashes, unmounts, unseen>>

\* Faulty variant: a failed write is taken for a done one.
MoveFailsUnseen ==
    /\ thread.step = "moveWrite"
    /\ thread' = [thread EXCEPT !.step = "unlink"]
    /\ UNCHANGED <<todo, q, spool, bytes, pending, dropped, mounted, nas, misplaced,
                   lost, crashes, unmounts, unseen>>

\* The file cannot be read, written or removed: the retry ends.
MoveFails ==
    /\ thread.step \in {"moveCheck", "moveWrite", "unlink"}
    /\ thread' = NoTask
    /\ UNCHANGED <<todo, q, spool, bytes, pending, dropped, mounted, nas, misplaced,
                   lost, crashes, unmounts, unseen>>

Unlink ==
    /\ thread.step = "unlink"
    /\ spool' = spool \ {thread.pic}
    /\ thread' = [thread EXCEPT !.step = "count"]
    /\ UNCHANGED <<todo, q, bytes, pending, dropped, mounted, nas, misplaced,
                   lost, crashes, unmounts, unseen>>

\* Faulty variant: the size of the moved file is not taken off.
CountMovedBytesKept ==
    /\ thread.step = "count"
    /\ bytes' = bytes
    /\ pending' = IF pending > 0 THEN pending - 1 ELSE 0
    /\ thread' \in Move(thread.rest)
    /\ UNCHANGED <<todo, q, spool, dropped, mounted, nas, misplaced, lost,
                   crashes, unmounts, unseen>>

\* The counters follow under the lock, after the file.
CountMoved ==
    /\ thread.step = "count"
    /\ bytes' = IF bytes > 0 THEN bytes - 1 ELSE 0
    /\ pending' = IF pending > 0 THEN pending - 1 ELSE 0
    /\ thread' \in Move(thread.rest)
    /\ UNCHANGED <<todo, q, spool, dropped, mounted, nas, misplaced, lost,
                   crashes, unmounts, unseen>>

-----------------------------------------------------------------------------
(* The surroundings *)

Mount ==
    /\ ~mounted
    /\ mounted' = TRUE
    /\ UNCHANGED <<todo, q, thread, spool, bytes, pending, dropped, nas, misplaced,
                   lost, crashes, unmounts, unseen>>

Unmount ==
    /\ mounted
    /\ unmounts < MaxUnmounts
    /\ mounted' = FALSE
    /\ unmounts' = unmounts + 1
    /\ UNCHANGED <<todo, q, thread, spool, bytes, pending, dropped, nas, misplaced,
                   lost, crashes, unseen>>

\* _scan_spool: the files of the spool are counted, or, when one of them or
\* the folder cannot be read, none is.
Scan ==
    \/ /\ bytes' = Cardinality(spool) /\ pending' = Cardinality(spool)
       /\ unseen' = 0
    \/ /\ bytes' = 0 /\ pending' = 0
       /\ unseen' = Cardinality(spool)

\* Killed, or stopped while close() was still waiting for the thread: the
\* daemon thread ends with the process.  At the start the spool is counted.
Restart ==
    /\ crashes < MaxCrashes
    /\ crashes' = crashes + 1
    /\ lost' = lost \cup (ToSet(todo) \cup ToSet(q) \cup InHand)
    /\ todo' = <<>> /\ q' = <<>>
    /\ thread' = NoTask
    /\ Scan
    /\ UNCHANGED <<spool, dropped, mounted, nas, misplaced, unmounts>>

ThreadNext ==
    \/ Take \/ CheckMarker \/ WriteNas \/ SpoolIt
    \/ RetryStart \/ MoveCheck \/ MoveWrite \/ Unlink \/ CountMoved

ThreadFails == EncodeFails \/ WriteFails \/ MoveFails

ArchiveNext == Submit \/ ThreadNext \/ ThreadFails \/ Mount \/ Unmount \/ Restart

-----------------------------------------------------------------------------
(* Properties *)

\* The counters never drift from the spool - otherwise the limit or the retry
\* would stop working (_to_spool, retry_spool, _scan_spool).  They count the
\* file the thread has just removed for one moment more, no file that is not
\* there, and all that are there but those the last start could not list.
Size == Cardinality(spool) + (IF thread.step = "count" THEN 1 ELSE 0)

CountersTrue ==
    \A counter \in {bytes, pending} : counter <= Size /\ Size <= counter + unseen

\* Each time the drive goes away at most one picture ends up on the SD card
\* below the mount point: the marker is looked for before every write.
MisplacedBounded == Cardinality(misplaced) <= unmounts

\* A spooled picture leaves the spool, once the drive stays mounted and
\* writing works again - unless the worker could not list the spool when it
\* started, and has counted nothing since that is still pending.
SpoolReachesNas ==
    \A p \in Pictures : p \in spool ~> p \notin spool \/ (pending = 0 /\ unseen > 0)
=============================================================================
