# AIVIS (pipe_vision): a TLA+ model of the inspection line

AIVIS inspects pipes on a conveyor. An edge *worker* (Raspberry Pi) takes a
picture, judges the tubes on it, stores the pictures and posts one result per
tube to an *API* (FastAPI, PostgreSQL). Screens show the results, an alarm
counts consecutive NG, and a *MES* takes the results over for production
figures. The line must go on when the network, the API or the MES is away, so
every hop has a buffer, a retry and an idempotency rule of its own. These
buffers, retries and races are what this project models, checks and proves
something about; and, around them, the main loop of a station with its trigger,
its orders and its live view, the verdict on a tube and the figures made of it,
the disk that fills and the program that is updated. Image processing, screens
and the wording of reports are not modelled.

All paths below are relative to the repository (`src/...` is its root here).

Contents: 1 inventory - 2 modules and their code - 3 runs - 4 bounds -
5 fairness - 6 proofs - 7 disagreements with the documentation -
8 what the models leave out - 9 plan.

## 1. Inventory

| Component | State it keeps | Operations | Talks to | What is hard |
|---|---|---|---|---|
| Worker cycle, `services/vision/worker/runner.py`, `imaging/save.py`, `worker/client.py` | results of the current frame in memory, counters | single, batch and crate-count cycle: grab, judge, save images, post or spool, flush | camera, spool, image storage, API | upload first, post second; partial failure of two uploads; lost answers; crash in the middle of a batch |
| Spool, `worker/spool.py` | files in `pending/`, `images/`, `dead/` | enqueue, save_image, size limit, flush, dead letters | the worker only | limit shared by results and images; images shared by the tubes of a frame; torn files; head-of-line retries |
| Inspection API, `services/api/routers/inspection.py`, `core/inspection_service.py`, `core/local_queue.py` | table `inspection`, local queue directory, consecutive-NG counter | POST /inspection, POST /inspection/retry-queue, PATCH review | worker, MES link, WebSocket hub | check-then-insert, errors after the commit, overlapping drains, duplicates must not alarm |
| MES link, AIVIS side, `services/api/mes/` | table `mes_quality_if`, `inspection.mes_synced` | stage with the row, stage by watchdog, restage after a review, REST push | MES by table or REST | a review races a poller or a push |
| MES intake, `services/mes/mes_app/intake.py` | MES quality records | poll, load, mark; REST intake | interface table | crash between load and mark, stale mark |
| Acquisition, `services/vision/acquisition/` | handle of the camera, attempts | grab with retry, grab watchdog, reopen | camera driver | a driver call that never returns, abandoned threads |
| Live view in the worker, `worker/live.py` | lock of the camera, active-until time | preview thread, activation by heartbeat | camera, API | shares the camera with the line |
| Live relay in the API, `api/core/live.py` | latest frame, deadlines, capture request | put frame, watch, capture | worker, screens | one-shot requests lost with an answer |
| Triggers, `acquisition/trigger.py` | arming, held frame, baseline | timer, file, GPIO, MQTT, vision trigger | camera | a frame held over a change of order |
| Order, stage, station mode, `api/routers/master.py`, `worker/config.py` | active order, stage counters | activate, stage change, worker polls | screens, worker | last writer wins between screens |
| Saving of pictures, `imaging/save.py`, `imaging/storage.py` | - | save a pair, an overlay, a copy for review | storage, spool, NAS archive | each policy and each failure decides what the archive gets |
| NAS archive, `imaging/archive.py` | queue of 16 in memory, own spool, byte and file counters | submit, writer thread, retry | NAS mount | counters changed by two threads, the drive goes away between look and write, crash loses the queue |
| Verdict, `vision/pipeline.py`, `verdict/combine.py`, `multi/batch.py` | - | judge a tube, a frame; rows, names, light | worker | a step that raises must not let a bad tube through |
| Figures, `api/routers/kpi.py`, `mes/mes_app/production.py` | - | monthly key figures, production of a work order | database, MES records | the same rows counted in two places by two rules |
| Work orders, `mes/mes_app/routers/orders.py`, `intake.py` | table `work_order` | create, patch, start by a result | quality records | a result and a person change an order at the same time |
| Retention, `api/core/retention.py`, `api/main.py` | thread in the API | delete old pictures, emergency cleanup | disk, worker | pictures come while it deletes; what it deletes last |
| Updater, `api/core/updater.py`, `scripts/aivis-update.sh` | state file, log, `.last_good_commit` | start, state, the five steps, rollback | service manager | two starts, a step that fails, the restart that ends the script itself |
| MES service otherwise (sales orders, shipments) | its own tables | CRUD, reports | - | request-local |
| Heartbeat, hub, auth, reports, labels, models | see `PROJECT.json` | | | request-local or last-writer state |
| Synthetic data, training, data-ops, HMI, dashboard | none, or a browser's | | | not concurrent, or clients only |

`PROJECT.json` has the full list of components with the files of each and,
under `hazards`, each hazard with the line it bites at and the properties that
would show it going wrong or, where none would, the reason - often that the
properties give up the rows, orders or updates two actors raced for, which section 7 names.

What makes the core components correct:

* **Delivery.** No result disappears silently: the worker holds it until it is
  told 2xx, and 2xx means a row or a file of the local queue. One row per
  result, one announcement per row. A row refers to images that exist.
  What is spooled leaves the spool.
* **Camera.** One thread at a time in the adapter; a cycle never takes the
  frame of an abandoned attempt; a cycle ends.
* **MES link.** The MES marks a row consumed only for the verdict it has
  loaded; copies of a verdict agree; every stored result is taken; nothing counts
  as received for the sake of a fake transport. Results start planned work
  orders and never reopen a closed one.
* **Pictures.** None vanishes unaccounted for; the counters the limit and the
  retry depend on are true; the second copy reaches the drive.
* **Station.** What is written into a result belongs together and follows the
  order; a crate is counted once, from its last scene; what a person asks for at
  the screen happens.
* **Site.** A bad tube does not slip through; the figures of the two systems can
  be reconciled; the evidence of a bad tube is deleted last; a success reported
  by the updater is one.

## 2. Modules and the code they model

```
Inspections            frames, tubes, image keys (the data of the delivery)
   |-- SpoolQueue      spool.py: files, size limit, dead letters   (fragments of worker actions)
   |-- InspectionApi   POST /inspection, retry-queue, API crash    (actions of the API)
        \-- ResultDelivery   worker + spool + network + API        (the composition)
               |-- ResultLedger        what the delivery promises  (abstract; INSTANCE ... WITH)
               |-- MCResultDelivery    instances for TLC
               \-- ResultSafety_proofs - ResultRefinement_proofs
CameraAccess           worker threads, watchdog and live view around LockedCamera
   |-- MCCameraAccess      \-- CameraAccess_proofs
MesMirror              what the link promises of the copies of a verdict (abstract; INSTANCE ... WITH)
MesTableLink           API handlers, staging watchdog and MES poller over mes_quality_if
   |-- MesMirror
   |-- MCMesTableLink      \-- MesTableLink_proofs
MesOrders              the MES behind POST /intake/quality: records, work orders
   \-- MesRestLink     watchdog, reviews, transport in REST mode    (the composition)
          |-- MesMirror
          |-- MCMesRestLink
          \-- MesRestLink_proofs
NasArchive             queue, writer thread, spool and retry of the second copy
   \-- SaveImages      what a save hands to it, under every policy  (the composition)
          |-- MCSaveImages
          \-- SaveImages_proofs
VisionTrigger          when a picture is taken, and of which scene
OrderSwitch            active order, stage, master data, the worker's reload
LiveView               relay in the API, screen, publisher in the worker
   \-- Station         the worker's main loop over the three        (the composition)
          |-- MCStation
          \-- Station_proofs
TubeVerdict            tube, frame, rows, names of pictures, light
QualityFigures         key figures of AIVIS, production of the MES
ImageRetention         the cleanup of the disk
Updater                state file, script, service restart
   \-- SiteServer      the four on one disk and in one process      (the composition)
          |-- MCSiteServer
          \-- SiteServer_proofs
```

The small modules state fragments: operators and actions over their own
variables, which the composing module conjoins with what the rest of the
system does in the same step. Only the composing modules have a `Spec`.

### ResultDelivery (with Inspections, SpoolQueue, InspectionApi)

The worker is one thread: `phase` is where `_run_once_*` and `flush` stand,
`batch` the results in memory, `left` the images still to save or upload,
`posting`/`answer` the request it waits for. The network is the set `calls`:
a request whose worker has given up (`live = FALSE`) may still be handled,
which is how a timeout, a lost answer and a duplicate arise. The API's handler
is cut where another thread may run: `find_by_natural_key`, INSERT and commit,
backup to the local queue, broadcast. Handlers run on the event loop and do not
interleave with each other inside their database calls (`EventLoopFree`); the
drains of the local queue (`retry-queue`) run in threads and do.

| Action | Code |
|---|---|
| StartCycle, ImageUploaded, ImageSpooled, ImageFails, ImagesSaved | the cycle up to the images, `_save_pair_via_backend` |
| PostResult, SpoolResult, Delivered, DeliveryRefused, DeliveryFailed | `_deliver` and the classification of 2xx / 4xx / 5xx / no answer |
| BeginFlush, OpenFile, FileCorrupt, ImageMissing, ImageFlushed, UploadFails, FlushPost, FlushSent, FlushRefused, FlushHeld, EndFlush | `SpoolQueue.flush` and `_upload_pending_images` |
| WorkerCrash | process or power loss: memory is gone, files stay, a file of the last frame may be torn |
| FindNone, Duplicate, Commit, CommitThenRaise, DatabaseFails, Backup, BackupFails, Announce, Refuse, LoseCall | `create_inspection`, `_save_with_backup`, `save_inspection` |
| DrainStart, DrainFind, DrainInsert, DrainRemove, DrainSkip | `retry_queue`, `LocalQueue.drain` |
| ApiCrash | the API process dies; requests not yet received survive |

`EnforceCap` states the size limit by its outcome (which files are gone when
the loop stops) instead of by its iterations.

`ResultLedger` is the abstract promise: a result is *unseen*, *held*, *safe* or
*lost*; safe is for ever, only safe results are acknowledged or alarmed, each
once. A late request may make a lost result safe. The refinement mapping is at
the end of `ResultDelivery`.

### CameraAccess

`at[t]` says where a thread is: outside, waiting for `LockedCamera._lock`, or
in the adapter. `grab_with_retry` starts a thread per attempt and joins it;
`TimedOut` is the end of the join by the clock, after which the main thread
asks for the lock to `close()`. Abandoned attempts go on (`late`). Open, Leave
and Answer are `PiCameraAdapter` under the lock. The live publisher and the
main thread's own calls (vision trigger, recipe) compete for the same lock.

### MesTableLink

The interface table mode. A review reads the inspection row, then the staged
row, and writes both in one commit, but - SQLAlchemy - only the columns whose
value differs from the one it has read; the three steps are ReadResult,
ReadStaged, CommitReview. The watchdog reads and then stages. The poller reads
the waiting rows, loads them, marks those whose `updated_at` is still the one
it has read. `raced` is a history variable: the rows that one actor changed
while another was between its read and its write.

### MesRestLink over MesOrders

REST mode. `MesOrders` is the MES: requests wait in `wire`, and each is served
by a transaction that reads the record and the planned orders (IntakeRead) and
commits later (IntakeDone); `CreateOrder`, `CountRecords`, `StartCreated` are
the two commits of `create_work_order`, `PatchRead`, `PatchDone` those of
`patch_work_order`. `MesRestLink` is the AIVIS side: PushStart and PushDone are
`sync_row`, PushTimesOut leaves a request behind that may still be served,
Restart changes the configuration and with it the transport (address: `http`;
none: `fake` or `none`). `raced` and `overlapped` are history variables: rows
and orders that two actors changed at the same time.

### MesMirror under both links

The two modes differ in who fetches what and when; what they promise of a verdict is
the same, and `MesMirror` says it once. A row is *new*, *stored*, *staged*
or *counted*, with three copies of its verdict: its own, the one offered to the MES, the one
the MES has. A review takes a counted row back to staged; being told a verdict - an
old one perhaps - changes what the MES has; a row counts only while that is its own verdict. A row two
actors raced for is given up. `RowOf` in each link is the refinement mapping.

### SaveImages over NasArchive

`SaveOutcomes` computes, for every backend, policy, failure of an upload, review
flag and training lot, how a save ends and which pictures it has handed to the
archive. The main thread then submits them one by one (`todo`) while the
archive's thread works. The thread is cut at each look at the marker file and
each change of file or counter: the drive may go away in between, and a file
written then stays below the mount point (`misplaced`). A restart counts the spool, or
cannot list it and starts from 0; `unseen` is what it has not counted then.

### Station over VisionTrigger, OrderSwitch and LiveView

One turn of `Worker.run` is cut into TakeRequest or WaitForTrigger with its
polls, Asks, Switches and Refetches (the order and the master data, a request
each), the cycle (EmptyCycle, Inspects, InspectsUnsent, GrabFails, InspectionFails) and the
heartbeat (Beats, Obeys, BeatLost). `InspectsUnsent` is the turn of a batch whose pictures
could not be uploaded, which ends without a heartbeat. `VisionTrigger` has both modes: *arrival*
fires on a scene that has come to rest, *departure* keeps the last scene of a
crate and hands it out when it has left. A scene is a load and the number of
tubes in it; the image processing that tells scenes apart is taken to be right.
`OrderSwitch` has the API's calls as single steps, because each is one
transaction, and the worker's as separate ones. In `LiveView` the answers to
frames and to heartbeats may arrive in another order than they were given.

`doubtful` and `missed` name the loads for which the code makes no promise:
tubes taken out of a crate, a stage changed between trigger and picture, a
failed camera or inspection, a dead worker. The properties speak of the others.

### SiteServer over TubeVerdict, QualityFigures, ImageRetention and Updater

`TubeVerdict` and `QualityFigures` are pure: `Readings` are what the camera
shows of a tube as far as verdicts tell readings apart, with the step that
raises; `Judged`, `BatchVerdict`, `TowerRed`, `RowsOf`, `PicturesOf` follow
`_run_core`, `inspect_batch` and the three cycles; `Summary` and `Production`
add rows up. `ImageRetention` takes the buckets one by one and deletes picture by picture;
a folder that cannot be read is an empty one, and a bucket that cannot be sorted is passed over.
`Updater` is the script's five steps beside the state the API keeps of it. The
script fetches into `origin` and merges whatever is there by then into `head`; of what the merge has
changed it makes again the `Parts` it has the tools for, and `gap` is what differs between the code
and its parts. What became of a script is judged from its log in one step (Judge) and
written in another (SettleWrites), which is how a late outcome meets a newer run. `SiteServer` puts
them together: pictures take the room a build needs, the worker writes while the
cleanup deletes, and the restart at the end of an update ends script, cleanup
and open requests. The properties compare the code's verdicts with `BadTube` and
`BadShot`, which say of a reading what a person would say of it.

## 3. Runs

| Run | Question | Result |
|---|---|---|
| `delivery_batch` | Two tubes of one frame share one image; both sides crash, requests are lost or late, the spool is too small for everything, one drain runs. Double alarms, alarms without a row, silent losses, steps the ledger does not allow? | pass: `TypeOK AnnouncedOnce NoSilentLoss LedgerSpec` |
| `delivery_outage` | Two tubes with an original and an overlay. Do paths survive the failure of the second image, and does everything leave the spool after an outage, one file at a time? | pass: `PathIntegrity SpoolDrains` |
| `delivery_shared_image` | Does a row always have its images? | **violated**: `ImageBeforeRow` (section 7) |
| `delivery_local_queue` | Does a result in the local queue get its row? | **violated**: `LocalQueueDrains` (section 7) |
| `camera_access` | One thread in the adapter, no foreign frame, and does the cycle end if the driver answers at some time? | pass: `TypeOK DeviceExclusive FrameOfCycle GrabReturns` |
| `camera_stall` | Does the cycle end if the driver never answers, which the watchdog is made for? | **violated**: `GrabReturns` (section 7) |
| `mes_reviews` | Table mode. Two rows, two overlapping reviews, watchdog and poller: what is marked, do the copies of a verdict follow `MesMirror`, is everything taken? | pass: `TypeOK MirrorSpec MarksWhatItLoaded AllTaken` |
| `mes_review_lost` | Does a consumed row always show the verdict the MES has? | **violated**: `ConsumedIsCurrent` (section 7) |
| `mes_rest` | REST mode. Two reviews, a request served late, a restart into another configuration, a work order that is created, closed and reopened meanwhile: does everything arrive, do the copies of a verdict follow `MesMirror`, do the right orders start? | pass: `TypeOK ReceivedIsReal MirrorSpec PlannedHasNoRecord ClosedHasEnd AllReceived` |
| `pictures` | Three pictures, a queue of one, a spool of two, a drive that goes away twice, two restarts that may be unable to list the spool: is every picture accounted for, do the counters stay true up to what a start has not seen, does the spool empty? | pass: `TypeOK CountersTrue MisplacedBounded SavedIsArchived SpoolReachesNas` |
| `station` | Orders and stages change, crates come and go, a screen watches and asks for a picture, requests fail, heartbeats are left out, programs restart: are orders mixed, crates counted twice or not at all, requests forgotten? | pass: `TypeOK LabelsOrdered CrateCountedOnce KeptIsLastScene OrderReaches LeftIsCounted ViewStreams ViewStops CaptureTaken` |
| `site_server` | Every reading there is through verdict, row, light and name; figures with and without reviews; a disk that fills while folders, buckets and files fail; updates that fail, overlap, lack a tool, are cut off or settled late | pass: `TypeOK NothingSlipsThrough FiguresAgree NgGoesLast SuccessIsInstalled` |

`CopiesAgree` and `ReceivedAgrees`, the agreement of the copies as an
invariant, follow from `MirrorSpec` and need no run of their own; both are proved.

What the bounds of `delivery_batch` leave out, two concurrent drains and two
frames, is covered by the theorems of section 6, which hold for any number of each.

Beside most properties stands a *faulty variant* of some action (operators
commented "Faulty variant"): a plausible bug in that code - a duplicate announced, the
answer not looked at, the attempt not counted - with which TLC finds the
property violated. They show that the property depends on the code.

`CHECK_DEADLOCK FALSE` is set where the number of frames, reviews, failures or
requests is bounded and an instance that has used them up comes to rest: the
delivery, the MES runs, `pictures`, `station` and `site_server`. The camera runs check
deadlock: there the threads go on for ever.

## 4. Bounds

| Bound | Where | Why it is enough |
|---|---|---|
| two tubes of one frame (`Tubes`, `LastFrame` 1) | delivery | two tubes of one frame share images; the order of frames enters no guard |
| `MaxUnits` 2 or 3, `ImageUnits` 1 | delivery | smaller than all files together, so the size limit acts |
| `FlushBatch` 1 | delivery | a file always waits behind another one |
| `MaxCalls` 1 or 2 | delivery | requests in the network at once: with 2 a late request meets its own repetition |
| `Drainers` 0 or 1 | delivery | a drain that meets a request for the same result; two drains are left to the proof |
| `Grabs` 3 threads, `MaxRetries` 2 | camera | an abandoned attempt, the next one, and one more of the next cycle; `ThreadsLeft` lets a cycle begin only when it can get its threads |
| `Results` 2, `Reviewers` 2 (1), `MaxReviews` 2 (1) | MES, table | every pair of actors overlaps on a row, and a poll sees a row reviewed since and one that was not |
| one result, `Orders` 1, `Clerks` 1, `Reviewers` 1, `MaxReviews` 2, `MaxLate` 1, `MaxRestarts` 1 | MES, REST | rows do not share anything but the watchdog, which takes one after the other; a second review makes an old verdict, a late request of it and a new one meet; the order is that of the result's lot |
| `QueueSize` 1, `SpoolMax` 2, three pictures, `MaxCrashes` 2, `MaxUnmounts` 2 | pictures | queue and spool overflow; a picture can be spooled, moved and lost in one run; the drive can go and come between any two steps |
| `Loads` 2, `MaxTubes` 1, `MaxEmpties` 2 | station | a crate, the next one, an empty place and an empty crate; the list of empty scenes overflows |
| `Items` 2, `Lots` 1, `MaxVersion` 2, `MaxFails` 2 | station | another item, a lot or none, an edited item; a publisher that reaches the limit of its failures |
| `Budgets` (11 settings) | station | each setting lets the actors act that meet in some hazard: orders with stages, orders with edits, orders with failures and restarts, crates alone, with a stage, with failures, views with failures and restarts, with each other, with a crate, and with a turn without heartbeat. One setting with all of them is out of reach |
| `Menus` (3), `Capacity` 6, `MinFree` 2, keeping days 1 and 2, `MaxAge` 3 | site | all 480 readings of a tube in both stages, batches that are right, short, uncertain or with a raising tube; a disk one shot away from an emergency; each picture can be younger and older than its days |
| `Versions` 3, `Parts` 2, `Slots` 2, `BuildRoom` 2 | site | an update, an older and a newer one; a part made with a tool that is there and one without; two scripts; a disk with room and without |
| `Budgets` (10 settings) | site | as for the station: readings, figures with a review, a cleanup with a failure, one over days, and six of updates: a rollback and a check for a newer version before the next one, a failure and a rollback, no service and no npm, the same with a failure and a late outcome, a cut, and a disk without room |

The theorems of section 6 hold without these bounds.

## 5. Fairness

* **Delivery** (`FairSpec`): the worker's thread keeps taking steps (each of its waits ends:
  a POST has a timeout, the process is restarted by systemd after a crash); the
  API handles the requests it has received. For the outage: from some time on no
  step of `Outage` is taken, that is no crash, no failing upload, no lost
  request, no failing database or disk. Nothing is assumed of drains: a person
  starts them.
* **Camera** (`FairSpec`): the threads run; a join without a result ends by its
  timeout; a thread that waits for the lock gets it at some time if the lock is
  free again and again - strong fairness, because the live publisher sleeps
  between two previews. Nothing is assumed of the driver. `AnsweringSpec` adds that every
  call of the driver returns at some time, perhaps after the watchdog has given up on it.
* **MES** (`FairSpec`): the watchdog's and the poller's loops never end (both catch
  whatever a round raises); from some time on no round fails. A poll that marks
  nothing because every row has changed is not a failure.
* **MES, REST** (`FairSpec`): the watchdog pushes on and the MES serves what
  arrives; from some time on no push fails or times out and the transport is
  `http`. Nothing is assumed of people, of restarts or of late requests.
* **Pictures** (`FairSpec`): the archive's thread never ends and, strongly, starts a
  retry if it could again and again, because its timer runs beside the queue;
  from some time on the drive stays mounted and no write fails.
* **Station** (`FairSpec`): each step of the main loop ends, also a wait without
  a picture (`trigger_idle_s`); a scene at rest is seen sooner or later (strong
  fairness of the polls: 8 pictures a second against a turn); the publisher's
  thread runs and the time asked for runs out. Nothing is assumed of crates and
  people; failures are bounded by the budget. Among them is the turn of a batch that
ends without a heartbeat because its pictures could not be uploaded (`runner.py:918-929`): `ViewStreams`
and `CaptureTaken` presume that uploads work again at some time.

In each case care is taken that the steps excluded "from some time on" are only those
that *are* failures: a step that looks the same as a normal one is never excluded.

## 6. Proofs

Checked with TLAPS, for every value of the constants that meets the named
assumptions (`FramesAssumption`, `NoTubeAssumption`, `SpoolAssumption`,
`ThreadsAssumption`, `RetriesAssumption`, `ReviewsAssumption`, `NoneAssumption`, `CodesDiffer`,
`LotsUnique`, `ArchiveAssumption`, `PicturesAssumption`,
`RetentionAssumption`, `UpdaterAssumption`, `SiteAssumption`, `OrderAssumption`,
`LinkBounds`, `TriggerAssumption`, `SwitchAssumption`, `FailsAssumption`,
`OrdersAssumption`).

| Theorem | Module | Says |
|---|---|---|
| `TypeCorrect` | `ResultSafety_proofs` | the variables have their types |
| `OneAnnouncement` | `ResultSafety_proofs` | announced once, only with a row (`AnnouncedOnce`) |
| `NothingLostSilently` | `ResultSafety_proofs` | `NoSilentLoss` |
| `ImagesBehindRows` | `ResultRefinement_proofs` | `PathIntegrity` |
| `DeliveryRefinesLedger` | `ResultRefinement_proofs` | the delivery implements `ResultLedger` (`LedgerSpec`) |
| `LedgerKeeps` | `ResultRefinement_proofs` | the ledger: what is acknowledged or alarmed is safe, and safe is for ever |
| `CameraTypeCorrect`, `OneInAdapter`, `FrameIsOwn` | `CameraAccess_proofs` | `TypeOK`, `DeviceExclusive`, `FrameOfCycle` |
| `NobodyWaitsForNothing` | `CameraAccess_proofs` | whoever holds the lock is in the adapter; who is joined is under way (`WaitsEnd`) |
| `LinkTypeCorrect`, `MarksOnlyLoaded`, `CopiesStayEqual` | `MesTableLink_proofs` | `TypeOK`, `MarksWhatItLoaded`, `CopiesAgree` |
| `TableRefinesMirror`, `RestRefinesMirror` | `MesTableLink_proofs`, `MesRestLink_proofs` | both modes implement `MesMirror` (`MirrorSpec`) |
| `MirrorAgrees` | `MesTableLink_proofs` | `MesMirror`: the copies agree (`Mirrored`) |
| `SkippedIsReceived` | `MesRestLink_proofs` | what the watchdog skips has been received (`MarkedIsReceived`) |
| `RestTypeCorrect`, `NothingFaked`, `NewestHeld` | `MesRestLink_proofs` | `TypeOK`, `ReceivedIsReal`, `ReceivedAgrees` |
| `ClosedStaysClosed`, `WorkIsStarted` | `MesRestLink_proofs` | `ClosedHasEnd`, `PlannedHasNoRecord` |
| `StationTypeCorrect`, `OrdersNotMixed` | `Station_proofs` | `TypeOK`, `LabelsOrdered` |
| `CountedOnce`, `KeptAsItStood` | `Station_proofs` | `CrateCountedOnce`, `KeptIsLastScene` |
| `NoCrateForgotten` | `Station_proofs` | a crate kept is in hand until counted (`KeptUntilCounted`) |
| `NoRequestForgotten` | `Station_proofs` | a request for a picture is handed on until it is served (`RequestHandedOn`) |
| `ArchiveTypeCorrect`, `NothingVanishes` | `SaveImages_proofs` | `TypeOK`, `SavedIsArchived` |
| `CountersStayTrue`, `FewMisplaced` | `SaveImages_proofs` | `CountersTrue`, `MisplacedBounded` |
| `SiteTypeCorrect` | `SiteServer_proofs` | `TypeOK` |
| `BadIsFound` | `SiteServer_proofs` | `NothingSlipsThrough` |
| `BadIsKept` | `SiteServer_proofs` | `NgGoesLast` |
| `SuccessIsTrue` | `SiteServer_proofs` | `SuccessIsInstalled` |
| `FiguresAlwaysAgree` | `SiteServer_proofs` | `FiguresAgree` |

**Delivery, safety.** `AnnouncedOnce` and `NoSilentLoss` are not inductive.
`SafetyInv` adds what makes them so: a handler about to announce is the only
one for its row and its row is not announced yet (`RowInv`); a live request is about the tube the
worker waits for, a 2xx it has in hand is about a result that is stored or queued, a drain about to
remove a file has a row for it (`AnswerInv`); what the worker posts is what it
holds (`WorkerInv`). The proof first reduces the many steps of the worker to the few ways they touch the
API (`ApiSteps`).

**Delivery, paths.** A row may have been sent long before it is stored, so the invariant `PathInv`
speaks of results the API has *or may still get* (`Sent`): their images are in
the storage. For those in the spool the images are in the storage or in the
file's list (`Covered`), and each image of a list is in the spool or in the storage (`Recoverable`) -
unless the size limit has dropped a result of that frame (`Evicted`), the exception
section 7 is about.

**Refinement.** Initial states map to the initial state of the ledger and each
step to a step or a stutter, from `SafetyInv`, `PathInv` and `SeenInv` (a tube is
unseen as long as its frame has not been taken). `LedgerKeeps` is about the ledger
alone; with the refinement it holds of the delivery.

**Camera.** `HolderInside`: whoever is in the adapter holds the lock;
`JoinedIsOwn`: the attempt the main thread waits for is one of this cycle. `WaitsEnd`, the
converse of `HolderInside` with two clauses on the main thread, is the
part of `GrabReturns` that is a safety property: no wait is for something that is not coming, so
only the driver can hold a cycle up - which is what `camera_stall` shows it doing.

**MES.** `StampInv`: each review has a time stamp of its own, larger than all committed ones and
unknown to the poll until it commits. `SeenInv`: so a row whose stamp is the
one the poll has read has the verdict the poll has read - and loaded.
`RowsInv`: on a row nobody raced for, what an actor has read still holds when it writes.

**MES mirror.** Rows move by themselves, so the refinement is proved of one row at a time
(`RowMoves`): it stays, is given up, or takes one of the steps of `MesMirror`, for each action of the link. Table
mode needs `RowsInv` and `FoundHolds` (what a review has found of the staged row still holds, so it is
written exactly when it differs); REST mode needs `AgreeInv` and `KnownInv` (only stored rows are
sent or reviewed, so a row that is still new is told to nobody).

**MES, REST.** `LiveInv`: one request at most has somebody waiting for it, the one of
the row being pushed; all others were given up and may still be served, in any order. `RealInv` says
what an answer in hand stands for: a record in the MES. `AgreesAt` is about a row nobody raced for
(`raced`) - whatever travels for it, in the wire or in a transaction, carries the verdict of the row -
so a late request cannot bring an older one. For the orders, `KnownAt` says that what a transaction has read still holds when it commits, unless two were at
the order (`overlapped`); `PlannedAt`, that an order still planned is known to every intake under way for it, and,
once no clerk is at it, that no result of it has been recorded. `SkippedIsReceived` is the
safety part of `AllReceived`: a mark is what makes the watchdog leave a row alone for good. `MarkKnown`: a
review nobody overlaps still knows whether its row is marked, so it takes the mark back whenever it
takes the receipt back. The fake transport marks without sending, hence the hypothesis.

**Station.** `LabelInv` extends the promise about item and lot to the order the API keeps and to the
answer the worker has in hand (`seen`), because those are what the labels are made of.
`CrateAt(c)`, for a crate that is not `doubtful`, has four parts: it was put there before anything shows
it (`WasPut`); while it stands there it is neither handed out nor counted, its tubes do not fall below
those of the picture kept, and no scene learnt as empty has as many tubes as that picture (`Stands`); it is kept, handed out and counted
in this order, each once (`Once`); what is kept is the scene last at rest (`LastSeen`). `Stands` is the part
that the code does not state anywhere: without its clause on the empty scenes a crate
that looks empty would be handed out while it is still there. `ModeInv`: a picture waits to be
taken only in a turn that a departure started. From it follows `NoCrateForgotten`, the safety part
of `LeftIsCounted`: a picture is handed out when none waits, so none is overwritten.
`NoRequestForgotten` is that of `CaptureTaken`; `CarriersInv` says that an answer holds a request only
while it is on its way, so that none is overwritten there either.

**Pictures.** `PlaceInv` says that each picture is on its way once (`OnceInv`) - names are
unique, and a frame is saved once - and that the file being moved is still in the spool (`MoveInv`).
Then every step hands a picture on and drops none (`Flows`), which is `NothingVanishes`; and adding a
file makes the spool larger by one, which is what `CountersStayTrue` needs: each counter stays between
the size of the spool and that size less `unseen`, also where it stops at 0. `RiskInv` counts
the write in hand: a write that has seen the marker uses up one of the unmounts.

**Site.** `BadIsFound`: the lemmas first prove of the pure operators that a bad
tube is judged NG whatever step raises (`TubeVerdict`), and a bad shot is NG as
a whole. `FiledInv` then says that rows and pictures are still what the shots
made of them, up to reviews; that is what the steps preserve. `BadIsKept`:
from `FiledInv` the picture of a bad shot is named NG, so it is in a higher bucket than
originals and good results. `CleanerInv` says that the pictures of the bucket at work are all of one
bucket and those still to come of higher ones (a bucket that is passed over leaves the list), so a picture a
cleanup takes has nothing of its list in a lower bucket; that the disk holds finitely many pictures makes the count of free room a number, and
`FittingFits` - the pictures of a shot lie in buckets of their own - keeps it from falling below zero. `SuccessIsTrue`: `UpdateInv` says that, as long as no two scripts have run
together, there is one at most, and each version and part that differs (`gap`) is accounted for
(`Accounted`): it was given up in a build (`unbuilt`), it is what the script in its build has still to make
(`Building`), or it was rolled back, and lies above the version checked out (`Level`, `Ordered`), with no log that speaks of a success.
The merge brings what was rolled back into what the build must make, because
the changes are looked for from the version before the merge; `DifferStays` is the algebra of that step.

**Figures.** `FiguresAgree` compares sums over lists of rows that the two systems
make up differently. The sum (`SumFunctionOnSet`) is taken apart without induction over an operator:
`SumExists` looks at a smallest subset with no sum, and there is none, because the strict subsets of
a finite set are well-founded; `SumTakesOut` is the same for the order of the summands. `ListedOnce`: each row is in the list of one order, of one lot without order, or
of none; `RowsAreCountable`: the rows are what `FiledInv` and `ManualInv` say, so each counts
one, as good or as bad, by the same verdict in both systems (`Effective`).

Only model-checked are the liveness properties, since liveness under fairness and ENABLED are
out of the prover's reach: `SpoolDrains`, `GrabReturns`, `AllTaken`, `AllReceived`, `SpoolReachesNas`,
`OrderReaches`, `LeftIsCounted`, `ViewStreams`, `ViewStops`, `CaptureTaken`. `WaitsEnd`,
`MarkedIsReceived`, `KeptUntilCounted`, `RequestHandedOn` and `CountersTrue` (a retry that would
not be due, though files wait that a start has seen) are the safety properties behind five of them, and are proved.

## 7. Where code and documentation disagree

1. **Shared images and the size limit** (`delivery_shared_image`). In batch mode
   the tubes of a frame share its images. The size limit
   (`spool.py:282`) drops the oldest pending result with its images; the flush
   takes the missing file of the next tube for one already uploaded and posts a
   row whose path the storage does not hold. `runner.py:825-826` promises that paths stay valid.
   `PathIntegrity` is what does hold, and is proved.
2. **Local queue** (`delivery_local_queue`). `routers/inspection.py:188` says the
   watchdog reprocesses what the local queue holds. No code does; only a
   person's POST /inspection/retry-queue.
3. **Grab watchdog** (`camera_stall`). The watchdog is there for a `grab()` that
   never returns, and breaks it by `close()`. In the worker both go through
   `LockedCamera`, so `close()` waits for the lock the stalled grab holds, and the main thread
   stops for ever. It works when the driver returns at some time (`camera_access`).
4. **A review lost at the interface table** (`mes_review_lost`). A review reads the staged row
   (consumed = false), the poller marks it consumed, the review commits: the
   assignment `consumed = False` is no change to SQLAlchemy and is not
   written. The new verdict stays in a row marked consumed; the MES
   never reads it, against `adapter.py:89-90`.

The following came up while modelling and have no run of their own; where a
property is affected, its exception is named after it.

* **REST mode, a review that overlaps a push** (`raced`): `sync_row`
  (`adapter.py:212`) sends the verdict it has read and then sets `mes_synced`,
  over the `False` the review has written meanwhile; the new verdict is not sent.
* **The order is cleared**: `master.py:296` says the worker goes back to the item
  of its environment; `runner.py:316-317` keeps the last order.
* **A change of stage**: `master.py:237` says it changes the mode only; it also writes
  the item code of the screen over the active order (`patched` in `LabelsOrdered`).
* **An item deleted and created again** at version 1 with another reference length is
  never reloaded (`recreated`; the keys compared are `runner.py:72-79`).
* **Crates**: taking tubes out looks like a departure, and a stage that changes
  to COUNT between trigger and picture counts a crate on its arrival and again when it leaves
  (`doubtful`); a picture asked for by hand in COUNT mode posts a count of its own; a change of
  mode, a learnt empty scene or an exception in the cycle forgets the crate
  kept (`missed`). A recount by a person never corrects `good_qty`.
* **Saving**: when the upload of the original raises (`save.py:639-661`) the result
  picture never reaches the NAS, although the docstring says all pictures do. A
  failing encoder is not counted in `dropped` (`archive.py:178`). A spool that cannot be
  listed at the start leaves the counters at 0 (`archive.py:288`): its files wait until another
  one is spooled, and do not count for the limit (`unseen` in `CountersTrue` and `SpoolReachesNas`).
* **Cleanup**: room that cannot be read counts as none, so an emergency deletes
  everything it can (`blind` in `NgGoesLast`). The order of value promised by the comment
  `retention.py:167-170` holds of what is listed only: a folder that cannot be read (`retention.py:116`) or one
  file whose time cannot be read (`retention.py:190`) makes the cleanup pass over the originals and delete
  results, bad ones too; and when room comes and goes between two looks, the rest of a
  bucket is left for a more valuable one. The copy of a result found NG by a person keeps
  its name `_OK` and its shorter life.
* **Updates**: a failed build leaves the code ahead of its parts; the next
  update finds nothing new, says so and is a success (`unbuilt`), and overwrites
  `.last_good_commit`. Without npm or a virtual environment the script warns, leaves the part as it is
  and reports a success (`aivis-update.sh:279`, `296`, `305`; also `unbuilt`). Two requests may both find
  no update running (`doubled`): the docstring `updater.py:14` promises a lock file, and no code makes
  one. The outcome of an earlier run may be written over the `running` of a later one, as
  `get_state` writes what it has read before. A check for a newer version between fetch and
  merge lets a run that has found nothing new install one; judged late, it is a success while it is still building. With the service installed the restart ends the
  script before it can write its last line, so a good update is reported failed.
* **Figures**: a row that names an order the MES does not know, on a lot it does,
  is listed nowhere, although `unassigned_lots` is there so that no result
  disappears. A batch in which nothing is detected leaves no row.
* **Batches**: the intake of the table mode loads a batch as a whole; one row it cannot load
  (`intake.py:232`) holds up the others, and rows a REST MES refuses for ever starve
  newer ones (`watchdog.py:75`).

## 8. What the models leave out

* **Data.** A result is the identity of its tube (its natural key), an image is
  (frame, kind), sizes are units; what is in a picture or a verdict does not matter.
  Late requests of the same tube in the same stage are not told apart; copies of one
  result in the local queue count as one, since its file name is the natural key.
* **Files.** Writing a spool file takes effect at its rename; leftover
  temporary files and the NAS spool's share of the disk are not counted. A failing unlink after a
  2xx is modelled, one inside the size limit's own removal is not.
* **Order.** The results of one frame may be posted in any order; the broadcast,
  the count of consecutive NG and the alarm are one step (`Announce`).
* **Worker.** The local image mode (no remote storage), the review copy, the
  empty-conveyor gate and the heartbeat are left out. A graceful shutdown is a crash while
  idle; an exception that ends a cycle early loses what is in memory as a crash does. The flush
  "when no product came" also stands for the next round of the interval mode.
* **Camera.** Exposure, pixel conversion, the simulator and the
  unfinished GenICam adapter; the close at shutdown; an exception that is no
  CameraError ends the cycle as its last failure does.
* **MES.** Training lots, which never go to the MES; polls of more
  than 500 rows; the marks of one poll are one step (they are one
  transaction with row locks); time stamps are order numbers; two reviews at the same
  time of one row are modelled, but `MirrorSpec` gives the row up.
* **MES, REST.** Of a record only the manual verdict changes; a row the MES refuses for
  ever; sales orders and shipments; the push of a single row by hand.
* **Pictures.** A picture is one unit of the spool; the order of the retry; the
  local retention of the spool; what is inside an upload.
* **Station.** Motion, peaks and change values of the vision trigger: a scene
  is told from another one without error, except that tubes taken out are read
  as the code reads them. Timer, file, GPIO and MQTT triggers. The reload is
  asked for in every turn; a turn in which it is not due is one whose requests
  find nothing new. Master data are two values, one the worker compares and one it does not.
* **Site.** Numbers behind a reading (lengths, scores, thresholds); rates and
  percentages; a picture is one unit of room, time passes in days; the cleanup
  of remote storage; local changes kept by the updater, `--skip-build`, `--branch`, reuse of
  a process id, and the API packages `aivis-standalone.sh` installs again at a start when its imports fail.
  The four lists of a cleanup are made in one step; two requests that have judged the same
  outcome and not written it yet count as one. `SiteServer` leaves out the way of a row to the database.
* **Not modelled at all**: the components with status `not_modelled` in
  `PROJECT.json`, each with its reason. Most are request-local reads and
  writes, formatting, or image processing without state between frames.

## 9. Plan

Done, with proofs: the delivery, the camera, both modes of the MES link with the
work orders, the second copy of the pictures, the station with trigger, orders and
live view, and the site with verdict, figures, cleanup and updates; model-checked only: what
must happen at some time.

| Next | About | To show |
|---|---|---|
| composition | delivery with `MesRestLink`: from the picture to the MES | every result taken arrives, or is in a named buffer |
| MES otherwise | sales orders and shipments | request-local; only worth it with concurrent clerks |

The order follows what a fault costs: a lost result first, a stuck line second, a wrong
figure in the MES third, then the second copy, labels and screens.
