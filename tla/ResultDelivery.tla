---------------------------- MODULE ResultDelivery ----------------------------
(***************************************************************************)
(* How an inspection result gets from the edge worker to the inspection    *)
(* table: the worker's cycle (services/vision/worker/runner.py), its image *)
(* upload (services/vision/imaging/save.py), its spool (module SpoolQueue),*)
(* the network in between, and the API (module InspectionApi).             *)
(*                                                                         *)
(* The worker is one thread: it takes a frame, saves the frame's images,   *)
(* posts (or spools) one result per tube, then flushes a batch of the      *)
(* spool.  It may crash between any two steps and restart; requests and    *)
(* responses may be lost, and a request the worker gave up waiting for may *)
(* still be handled later.                                                 *)
(***************************************************************************)
EXTENDS SpoolQueue, InspectionApi

VARIABLES
    phase,     \* what the worker is doing
    frame,     \* the last frame taken
    left,      \* images still to save (phase "save") or to upload (phase "flush")
    spooled,   \* images of this frame that went to the spool: pending_images
    batch,     \* tubes of this frame still to be handed over
    listing,   \* files this flush has still to try
    current,   \* the file the flush is working on
    posting,   \* the tube whose POST the worker is waiting for
    paths,     \* images the results of a frame refer to: raw/result_image_path
    remote,    \* images the storage holds
    fate       \* history: what has become of a tube, as the worker sees it

workerVars == <<phase, frame, left, spooled, batch, listing, current, posting>>
historyVars == <<paths, fate>>
vars == <<spoolVars, apiVars, workerVars, historyVars, remote>>

Phases == {"idle", "save", "deliver", "flush", "down"}

\* "unseen" until inspected, "kept" while the worker is responsible for it,
\* "handed" after a 2xx; "given up" in the cases the code knows about: a 4xx,
\* a file that cannot be read back or written, the size limit, and a crash
\* while the result was in memory only.
Fates == {"unseen", "kept", "handed", "given up"}

TypeOK ==
    /\ SpoolTypeOK
    /\ ApiTypeOK
    /\ phase \in Phases
    /\ frame \in 0 .. LastFrame
    /\ left \in SUBSET Keys
    /\ spooled \in SUBSET Keys
    /\ batch \in SUBSET Tubes
    /\ listing \in SUBSET Tubes
    /\ current \in Tubes \cup {NoTube}
    /\ posting \in Tubes \cup {NoTube}
    /\ paths \in [Frames -> SUBSET Keys]
    /\ remote \in SUBSET Keys
    /\ fate \in [Tubes -> Fates]

Init ==
    /\ SpoolInit
    /\ ApiInit
    /\ phase = "flush"      \* the flush at startup, of an empty spool
    /\ frame = 0
    /\ left = {}
    /\ spooled = {}
    /\ batch = {}
    /\ listing = {}
    /\ current = NoTube
    /\ posting = NoTube
    /\ paths = [f \in Frames |-> {}]
    /\ remote = {}
    /\ fate = [t \in Tubes |-> "unseen"]

\* History: what was handed over stays so, whatever is retried afterwards.
GiveUp(ts) ==
    fate' = [t \in Tubes |-> IF t \in ts /\ fate[t] # "handed" THEN "given up" ELSE fate[t]]

-----------------------------------------------------------------------------
(* Saving the images of a frame *)

\* A trigger: the frame is grabbed and judged.  AIVIS_REMOTE_RAW may say that
\* the original of this frame is not uploaded.
StartCycle ==
    /\ phase = "idle" /\ frame < LastFrame
    /\ phase' = "save"
    /\ frame' = frame + 1
    /\ left' \in {KeysOf(frame'), KeysOf(frame') \ {<<frame', "raw">>}}
    /\ spooled' = {}
    /\ batch' = TubesOf(frame')
    /\ fate' = [t \in Tubes |-> IF t \in TubesOf(frame') THEN "kept" ELSE fate[t]]
    /\ UNCHANGED <<spoolVars, apiVars, listing, current, posting, paths, remote>>

\* The images are saved in order: the original, then the result overlay.
NextImage(k) ==
    /\ phase = "save"
    /\ k \in left
    /\ k[2] = "raw" \/ <<k[1], "raw">> \notin left

ImageUploaded(k) ==
    /\ NextImage(k)
    /\ left' = left \ {k}
    /\ remote' = remote \cup {k}
    /\ paths' = [paths EXCEPT ![frame] = @ \cup {k}]
    /\ UNCHANGED <<spoolVars, apiVars, phase, frame, spooled, batch, listing, current, posting, fate>>

\* The upload fails, or its response does: the bytes go to the spool.
ImageSpooled(k) ==
    /\ NextImage(k)
    /\ left' = left \ {k}
    /\ SaveImage(k)
    /\ spooled' = spooled \cup {k}
    /\ remote' \in {remote, remote \cup {k}}
    /\ paths' = [paths EXCEPT ![frame] = @ \cup {k}]
    /\ UNCHANGED <<apiVars, phase, frame, batch, listing, current, posting, fate>>

\* Faulty variant: the paths of the images saved before are kept.
ImageFailsKeepingPaths(k) ==
    /\ NextImage(k)
    /\ left' = {}
    /\ spooled' = {}
    /\ remote' \in {remote, remote \cup {k}}
    /\ UNCHANGED <<spoolVars, apiVars, phase, frame, batch, listing, current, posting, paths, fate>>

\* The upload fails and the spool cannot be written either: the exception
\* makes every path None and leaves no image pending, whatever the images of
\* this frame that were saved before.
ImageFails(k) ==
    /\ NextImage(k)
    /\ left' = {}
    /\ spooled' = {}
    /\ remote' \in {remote, remote \cup {k}}
    /\ paths' = [paths EXCEPT ![frame] = {}]
    /\ UNCHANGED <<spoolVars, apiVars, phase, frame, batch, listing, current, posting, fate>>

ImagesSaved ==
    /\ phase = "save" /\ left = {}
    /\ phase' = "deliver"
    /\ UNCHANGED <<spoolVars, apiVars, frame, left, spooled, batch, listing, current, posting,
                   historyVars, remote>>

-----------------------------------------------------------------------------
(* Handing over the results of a frame *)

\* enqueue writes the file and enforces the size limit, or returns None.
EnqueueOrLose(t, keys) ==
    \/ Enqueue(t, keys) /\ GiveUp((pending \cup {t}) \ pending')
    \/ UNCHANGED spoolVars /\ GiveUp({t})

\* Some image is not in the storage yet: every result of the frame goes to
\* the spool together with the list of the spooled images.
SpoolResult(t) ==
    /\ phase = "deliver" /\ spooled # {}
    /\ t \in batch
    /\ EnqueueOrLose(t, spooled)
    /\ batch' = batch \ {t}
    /\ UNCHANGED <<apiVars, phase, frame, left, spooled, listing, current, posting, paths, remote>>

Post(t) ==
    /\ Cardinality(calls) < MaxCalls
    /\ posting' = t
    /\ calls' = calls \cup {Call(t, TRUE, "sent")}
    /\ UNCHANGED <<rows, queue, announced, answer, drain>>

PostResult(t) ==
    /\ phase = "deliver" /\ spooled = {}
    /\ posting = NoTube
    /\ t \in batch
    /\ Post(t)
    /\ UNCHANGED <<spoolVars, phase, frame, left, spooled, batch, listing, current,
                   historyVars, remote>>

\* The worker has its response, or stops waiting for one; in both cases the
\* call it made is no longer live.
StopWaiting ==
    /\ posting' = NoTube
    /\ answer' = "none"
    /\ calls' = {[c EXCEPT !.live = FALSE] : c \in calls}
    /\ UNCHANGED <<rows, queue, announced, drain>>

\* post_inspection_json gives up: status 0.  The API may have the result, may
\* have sent a response that is lost, or may still get the request.
TimedOut == posting # NoTube

Delivered ==
    /\ phase = "deliver" /\ posting # NoTube
    /\ answer = "stored"
    /\ StopWaiting
    /\ batch' = batch \ {posting}
    /\ fate' = [fate EXCEPT ![posting] = "handed"]
    /\ UNCHANGED <<spoolVars, phase, frame, left, spooled, listing, current, paths, remote>>

\* 4xx: counted as a failure, not spooled.
DeliveryRefused ==
    /\ phase = "deliver" /\ posting # NoTube
    /\ answer = "refused"
    /\ StopWaiting
    /\ batch' = batch \ {posting}
    /\ GiveUp({posting})
    /\ UNCHANGED <<spoolVars, phase, frame, left, spooled, listing, current, paths, remote>>

\* 5xx, or status 0: the result goes to the spool, with no image pending.
DeliveryFailed ==
    /\ phase = "deliver" /\ posting # NoTube
    /\ answer = "error" \/ TimedOut
    /\ StopWaiting
    /\ EnqueueOrLose(posting, {})
    /\ batch' = batch \ {posting}
    /\ UNCHANGED <<phase, frame, left, spooled, listing, current, paths, remote>>

-----------------------------------------------------------------------------
(* Flushing the spool *)

\* Faulty variant: the spool is flushed at startup and after a cycle only.
BeginFlushAfterCycle ==
    /\ \/ phase = "deliver" /\ batch = {}
       \/ phase = "down"
    /\ phase' = "flush"
    /\ listing' \in Listings
    /\ spooled' = {}
    /\ UNCHANGED <<spoolVars, apiVars, frame, left, batch, current, posting, historyVars, remote>>

\* After a cycle, when no product came (idle) and at startup (down).
BeginFlush ==
    /\ \/ phase = "deliver" /\ batch = {}
       \/ phase = "idle" /\ pending # {}
       \/ phase = "down"
    /\ phase' = "flush"
    /\ listing' \in Listings
    /\ spooled' = {}
    /\ UNCHANGED <<spoolVars, apiVars, frame, left, batch, current, posting, historyVars, remote>>

\* The oldest file of the listing.
NextFlushed(t) ==
    /\ phase = "flush" /\ current = NoTube
    /\ t \in listing
    /\ OldestFirst({t}, listing)

\* The file is read: its images come first.
OpenFile(t) ==
    /\ NextFlushed(t) /\ t \notin corrupt
    /\ current' = t
    /\ left' = pendingImages[t]
    /\ UNCHANGED <<spoolVars, apiVars, phase, frame, spooled, batch, listing, posting,
                   historyVars, remote>>

\* The file cannot be read: it goes to dead/.
FileCorrupt(t) ==
    /\ NextFlushed(t) /\ t \in corrupt
    /\ MoveDead(t)
    /\ listing' = listing \ {t}
    /\ GiveUp({t} \ pending')
    /\ UNCHANGED <<apiVars, phase, frame, left, spooled, batch, current, posting, paths, remote>>

NextUpload(k) == phase = "flush" /\ current # NoTube /\ k \in left

\* There is no such file: taken for an image that is already uploaded.
ImageMissing(k) ==
    /\ NextUpload(k) /\ k \notin images
    /\ left' = left \ {k}
    /\ UNCHANGED <<spoolVars, apiVars, phase, frame, spooled, batch, listing, current, posting,
                   historyVars, remote>>

ImageFlushed(k) ==
    /\ NextUpload(k) /\ k \in images
    /\ left' = left \ {k}
    /\ remote' = remote \cup {k}
    /\ UnlinkImage(k)
    /\ UNCHANGED <<apiVars, phase, frame, spooled, batch, listing, current, posting, historyVars>>

\* The file stays pending; the flush goes on with the files in `rest`.
Hold(rest) ==
    /\ listing' = rest
    /\ current' = NoTube
    /\ left' = {}

\* The upload fails (or only its response does): "hold" when the storage
\* refuses, "abort" when the connection fails.
UploadFails(k) ==
    /\ NextUpload(k) /\ k \in images
    /\ Hold(listing \ {current}) \/ Hold({})
    /\ remote' \in {remote, remote \cup {k}}
    /\ UNCHANGED <<spoolVars, apiVars, phase, frame, spooled, batch, posting, historyVars>>

FlushPost ==
    /\ phase = "flush" /\ current # NoTube /\ left = {}
    /\ posting = NoTube
    /\ Post(current)
    /\ UNCHANGED <<spoolVars, phase, frame, left, spooled, batch, listing, current,
                   historyVars, remote>>

FlushSent ==
    /\ phase = "flush" /\ posting # NoTube
    /\ answer = "stored"
    /\ StopWaiting
    /\ Unlink(posting)
    /\ Hold(listing \ {posting})
    /\ fate' = [fate EXCEPT ![posting] = "handed"]
    /\ UNCHANGED <<phase, frame, spooled, batch, paths, remote>>

FlushRefused ==
    /\ phase = "flush" /\ posting # NoTube
    /\ answer = "refused"
    /\ StopWaiting
    /\ MoveDead(posting)
    /\ Hold(listing \ {posting})
    /\ GiveUp({posting} \ pending')
    /\ UNCHANGED <<phase, frame, spooled, batch, paths, remote>>

\* 5xx: the next file.  Status 0: the network is down, the flush ends.
FlushHeld ==
    /\ phase = "flush" /\ posting # NoTube
    /\ StopWaiting
    /\ \/ answer = "error" /\ Hold(listing \ {posting})
       \/ TimedOut /\ Hold({})
    /\ UNCHANGED <<spoolVars, phase, frame, spooled, batch, historyVars, remote>>

EndFlush ==
    /\ phase = "flush" /\ listing = {} /\ current = NoTube
    /\ phase' = "idle"
    /\ UNCHANGED <<spoolVars, apiVars, frame, left, spooled, batch, listing, current, posting,
                   historyVars, remote>>

-----------------------------------------------------------------------------
(* Crash of the worker *)

\* What the worker held in memory is gone: the results not handed over yet.
\* (An exception that ends a cycle early loses them the same way.)  A power cut
\* may also tear a file written for the last frame.
WorkerCrash ==
    /\ phase # "down"
    /\ phase' = "down"
    /\ batch' = {} /\ left' = {} /\ spooled' = {} /\ listing' = {}
    /\ current' = NoTube
    /\ StopWaiting
    /\ \/ UNCHANGED spoolVars
       \/ \E t \in pending : FrameOf[t] = frame /\ Tear(t)
    /\ GiveUp(batch)
    /\ UNCHANGED <<frame, paths, remote>>

-----------------------------------------------------------------------------
SaveImages == \E k \in left : ImageUploaded(k) \/ ImageSpooled(k) \/ ImageFails(k)

DeliverResults ==
    \/ \E t \in batch : SpoolResult(t) \/ PostResult(t)
    \/ Delivered \/ DeliveryRefused \/ DeliveryFailed

FlushSpool ==
    \/ \E t \in listing : OpenFile(t) \/ FileCorrupt(t)
    \/ \E k \in left : ImageMissing(k) \/ ImageFlushed(k) \/ UploadFails(k)
    \/ FlushPost \/ FlushSent \/ FlushRefused \/ FlushHeld \/ EndFlush

WorkerNext ==
    \/ StartCycle \/ SaveImages \/ ImagesSaved
    \/ DeliverResults
    \/ BeginFlush \/ FlushSpool

Next ==
    \/ WorkerNext
    \/ WorkerCrash
    \/ ApiNext /\ UNCHANGED <<spoolVars, workerVars, historyVars, remote>>

Spec == Init /\ [][Next]_vars

-----------------------------------------------------------------------------
(* Fairness *)

ApiOnly == UNCHANGED <<spoolVars, workerVars, historyVars, remote>>

\* Of a request nobody waits for any more, a loss or a failing backup looks
\* like its normal end; so does a crash when it was the only one.
ApiFails ==
    \/ /\ ApiCrash
       /\ ~\E c \in calls : HandleCall(c)
       /\ ~\E d \in Drainers : Drain(d)
    \/ \E c \in calls :
           \/ DatabaseFails(c)
           \/ CommitThenRaise(c)
           \/ c.live /\ (LoseCall(c) \/ BackupFails(c))

\* What goes wrong during an outage: a crash, a failing upload, a lost request
\* or response, a failing database or disk.
Outage ==
    \/ WorkerCrash
    \/ \E k \in Keys : UploadFails(k)
    \/ FlushHeld /\ (answer \in {"stored", "refused"} \/ \E c \in calls : c.live)
    \/ (FlushSent \/ FlushRefused) /\ posting \in pending'
    \/ \E t \in listing : FileCorrupt(t) /\ t \in pending'
    \/ ApiOnly /\ ApiFails

\* The worker's thread and the API's event loop keep running: neither waits
\* forever in a step, a POST has a timeout, a dead process is restarted.
\* The outage is over some time.
FairSpec ==
    /\ Spec
    /\ WF_vars(WorkerNext)
    /\ WF_vars(ApiOnly /\ \E c \in calls : HandleCall(c))
    /\ <>[][~Outage]_vars

-----------------------------------------------------------------------------
(* Properties *)

Durable(t) == rows[t] > 0 \/ t \in queue

\* A result is broadcast, counted by the consecutive-NG tracker and alarmed
\* once at most, and only once it has a row (create_inspection).
AnnouncedOnce == \A t \in Tubes : announced[t] <= rows[t] /\ announced[t] <= 1

\* No result disappears silently: a tube the worker still answers for is in
\* its memory or its spool, and one it was told to forget (2xx) is stored or
\* in the local queue (_save_with_backup's 5xx, spool.flush's unlink).
NoSilentLoss ==
    \A t \in Tubes :
        /\ fate[t] = "kept" => t \in batch \cup pending
        /\ fate[t] = "handed" => Durable(t)

\* A stored result refers to images the storage holds ("upload first, then
\* POST"), unless the size limit dropped a result of the same frame.
PathIntegrity ==
    \A t \in Tubes : Durable(t) =>
        \/ paths[FrameOf[t]] \subseteq remote
        \/ \E u \in dropped : FrameOf[u] = FrameOf[t]

\* The same without the exception.
ImageBeforeRow == \A t \in Tubes : Durable(t) => paths[FrameOf[t]] \subseteq remote

\* Whatever is in the spool leaves it: no file is retried forever, and none is
\* overtaken forever by older files that are held (spool.flush).
SpoolDrains == \A t \in Tubes : t \in pending ~> t \notin pending

\* A result the database did not take gets its row some time after.
LocalQueueDrains == \A t \in Tubes : t \in queue ~> rows[t] > 0

-----------------------------------------------------------------------------
(* What all this is for: the ledger of module ResultLedger *)

StatusOf(t) ==
    IF Durable(t) THEN "safe"
    ELSE CASE fate[t] = "unseen" -> "unseen"
           [] fate[t] = "given up" -> "lost"
           [] OTHER -> "held"

Ledger == INSTANCE ResultLedger WITH
    status <- [t \in Tubes |-> StatusOf(t)],
    acknowledged <- {t \in Tubes : fate[t] = "handed"},
    alarmed <- {t \in Tubes : announced[t] > 0}

\* The delivery implements the ledger.
LedgerSpec == Ledger!Spec
=============================================================================
