----------------------- MODULE ResultRefinement_proofs -----------------------
(***************************************************************************)
(* A stored result refers to images the storage holds, unless the size     *)
(* limit of the spool has dropped a result of the same frame; and the      *)
(* delivery implements the ledger (module ResultLedger).                   *)
(***************************************************************************)
EXTENDS ResultSafety_proofs

USE FramesAssumption, NoTubeAssumption, SpoolAssumption

-----------------------------------------------------------------------------
(* The inductive invariant *)

\* The size limit removed a result of frame f.
Evicted(f) == \E u \in dropped : FrameOf[u] = f

\* The images the results of f refer to are in the storage or among keys.
Covered(f, keys) == \A k \in paths[f] : k \in remote \cup keys \/ Evicted(f)

\* An image in keys is kept in the spool until the storage has it.
Recoverable(f, keys) ==
    \A k \in keys : k[1] = f /\ (k \in images \cup remote \/ Evicted(f))

\* The API has, or may still get, the result t.
Sent(t) == Durable(t) \/ \E c \in calls : c.tube = t

PathInv ==
    /\ \A t \in Tubes : Sent(t) => Covered(FrameOf[t], {})
    /\ \A t \in pending : Covered(FrameOf[t], pendingImages[t])
    /\ \A t \in Tubes : Recoverable(FrameOf[t], pendingImages[t])
    /\ \A t \in Tubes : FrameOf[t] > frame \/ (phase = "save" /\ FrameOf[t] = frame)
                         => ~Sent(t) /\ t \notin pending
    /\ \A f \in Frames : f > frame => paths[f] = {}
    /\ phase \in {"save", "deliver"} =>
         /\ frame \in Frames
         /\ \A t \in batch : FrameOf[t] = frame
         /\ Covered(frame, spooled)
         /\ Recoverable(frame, spooled)
    /\ phase = "save" => \A k \in left : k[1] = frame
    /\ phase = "flush" =>
         /\ listing \subseteq pending
         /\ current # NoTube => /\ current \in pending
                               /\ left \subseteq pendingImages[current]
                               /\ Covered(FrameOf[current], left)

-----------------------------------------------------------------------------
(* What a step does to the images *)

\* The size limit removes only images of frames it drops a result of.
LEMMA EnqueueKeeps ==
  ASSUME TypeOK, NEW t \in Tubes, NEW keys \in SUBSET Keys, Enqueue(t, keys),
         \A k \in keys : k[1] = FrameOf[t],
         \A u \in Tubes : \A k \in pendingImages[u] : k[1] = FrameOf[u]
  PROVE  /\ pendingImages' = [pendingImages EXCEPT ![t] = keys]
         /\ pending' \subseteq pending \cup {t}
         /\ dropped \subseteq dropped'
         /\ \A k \in images : k \in images' \/ \E u \in dropped' : FrameOf[u] = k[1]
<1> DEFINE keysOf == [pendingImages EXCEPT ![t] = keys]
<1>1. PICK gone \in SUBSET (pending \cup {t}) :
         /\ pending' = (pending \cup {t}) \ gone
         /\ images' = images \ ImagesOf(gone, keysOf)
         /\ dropped' = dropped \cup gone
  BY DEF Enqueue, EnforceCap
<1>2. pendingImages' = keysOf
  BY DEF Enqueue
<1>3. \A u \in Tubes : \A k \in keysOf[u] : k[1] = FrameOf[u]
  BY DEF TypeOK, SpoolTypeOK
<1>4. gone \subseteq Tubes
  BY DEF TypeOK, SpoolTypeOK
<1> HIDE DEF keysOf
<1>5. \A k \in ImagesOf(gone, keysOf) : \E u \in gone : FrameOf[u] = k[1]
  BY <1>3, <1>4 DEF ImagesOf
<1>6. \A k \in images : k \in images' \/ \E u \in dropped' : FrameOf[u] = k[1]
  BY <1>1, <1>5
<1> QED
  BY <1>1, <1>2, <1>6 DEF keysOf

\* Only the saving of a frame's images changes what its results refer to; the
\* storage and the record of dropped results grow; an image leaves the spool
\* for the storage, or when the size limit drops a result of its frame.
LEMMA ImagesStep ==
  ASSUME TypeOK, WorkerInv, PathInv, [Next]_vars
  PROVE  /\ \A f \in Frames : paths'[f] = paths[f] \/ (phase = "save" /\ f = frame)
         /\ remote \subseteq remote'
         /\ dropped \subseteq dropped'
         /\ \A k \in images : k \in images' \cup remote' \/ \E u \in dropped' : FrameOf[u] = k[1]
<1> DEFINE Goal ==
      /\ \A f \in Frames : paths'[f] = paths[f] \/ (phase = "save" /\ f = frame)
      /\ remote \subseteq remote'
      /\ dropped \subseteq dropped'
      /\ \A k \in images : k \in images' \cup remote' \/ \E u \in dropped' : FrameOf[u] = k[1]
<1>1. CASE UNCHANGED <<paths, remote, dropped, images>>
  BY <1>1
<1>2. ASSUME NEW k \in left, ImageUploaded(k) \/ ImageSpooled(k) \/ ImageFails(k)
      PROVE  Goal
  <2>1. paths \in [Frames -> SUBSET Keys] /\ phase = "save"
    BY <1>2 DEF TypeOK, ImageUploaded, ImageSpooled, ImageFails, NextImage
  <2>2. \A f \in Frames : f # frame => paths'[f] = paths[f]
    BY <1>2, <2>1 DEF ImageUploaded, ImageSpooled, ImageFails
  <2> QED
    BY <1>2, <2>1, <2>2 DEF ImageUploaded, ImageSpooled, ImageFails, SaveImage, spoolVars
<1>3. ASSUME NEW t \in Tubes, NEW keys \in SUBSET Keys, EnqueueOrLose(t, keys),
             \A k \in keys : k[1] = FrameOf[t], UNCHANGED <<paths, remote>>
      PROVE  Goal
  <2>1. CASE Enqueue(t, keys)
    <3>1. \A u \in Tubes : \A k \in pendingImages[u] : k[1] = FrameOf[u]
      BY DEF PathInv, Recoverable
    <3> QED
      BY <1>3, <2>1, <3>1, EnqueueKeeps
  <2> QED
    BY <1>1, <1>3, <2>1 DEF EnqueueOrLose, spoolVars
<1>4. ASSUME NEW t \in batch, SpoolResult(t)
      PROVE  Goal
  <2>1. t \in Tubes /\ spooled \in SUBSET Keys
    BY DEF TypeOK
  <2>2. \A k \in spooled : k[1] = FrameOf[t]
    BY <1>4 DEF SpoolResult, PathInv, Recoverable
  <2> QED
    BY <1>3, <1>4, <2>1, <2>2 DEF SpoolResult
<1>5. CASE DeliveryFailed
  <2>1. posting \in Tubes /\ {} \in SUBSET Keys
    BY <1>5 DEF TypeOK, DeliveryFailed
  <2> QED
    BY <1>3, <1>5, <2>1 DEF DeliveryFailed
<1>6. ASSUME NEW k \in left, ImageMissing(k) \/ ImageFlushed(k) \/ UploadFails(k)
      PROVE  Goal
  BY <1>1, <1>6 DEF ImageMissing, ImageFlushed, UploadFails, UnlinkImage, spoolVars, historyVars
<1>7. CASE \E t \in listing : OpenFile(t) \/ FileCorrupt(t)
  BY <1>1, <1>7 DEF OpenFile, FileCorrupt, MoveDead, spoolVars, historyVars
<1>8. CASE FlushSent \/ FlushRefused \/ FlushHeld
  BY <1>1, <1>8 DEF FlushSent, FlushRefused, FlushHeld, Unlink, MoveDead, spoolVars, historyVars
<1>9. CASE StartCycle \/ ImagesSaved \/ BeginFlush \/ FlushPost \/ EndFlush
  BY <1>1, <1>9 DEF StartCycle, ImagesSaved, BeginFlush, FlushPost, EndFlush, spoolVars, historyVars
<1>10. CASE Delivered \/ DeliveryRefused \/ \E t \in batch : PostResult(t)
  BY <1>1, <1>10 DEF Delivered, DeliveryRefused, PostResult, spoolVars, historyVars
<1>11. CASE WorkerCrash
  BY <1>1, <1>11 DEF WorkerCrash, Tear, spoolVars
<1>12. CASE UNCHANGED <<spoolVars, workerVars, historyVars, remote>>
  BY <1>1, <1>12 DEF spoolVars, historyVars
<1>13. CASE UNCHANGED vars
  BY <1>12, <1>13 DEF vars
<1> QED
  BY <1>2, <1>4, <1>5, <1>6, <1>7, <1>8, <1>9, <1>10, <1>11, <1>12, <1>13
  DEF Next, WorkerNext, SaveImages, DeliverResults, FlushSpool

\* A file enters the spool with the images its frame still has to upload.
LEMMA PendingStep ==
  ASSUME TypeOK, WorkerInv, PathInv, [Next]_vars, NEW t \in Tubes
  PROVE  \/ pendingImages'[t] = pendingImages[t] /\ (t \in pending' => t \in pending)
         \/ phase = "deliver" /\ t \in batch /\ pendingImages'[t] = spooled
<1> DEFINE Goal == \/ pendingImages'[t] = pendingImages[t] /\ (t \in pending' => t \in pending)
                   \/ phase = "deliver" /\ t \in batch /\ pendingImages'[t] = spooled
<1>1. CASE pendingImages' = pendingImages /\ pending' \subseteq pending
  BY <1>1
<1>2. ASSUME NEW u \in batch, u \in Tubes, spooled \in SUBSET Keys, phase = "deliver", EnqueueOrLose(u, spooled)
      PROVE  Goal
  <2>1. pendingImages \in [Tubes -> SUBSET Keys]
    BY DEF TypeOK, SpoolTypeOK
  <2> QED
    BY <1>2, <2>1 DEF EnqueueOrLose, Enqueue, EnforceCap, spoolVars
<1>3. ASSUME NEW u \in batch, SpoolResult(u)
      PROVE  Goal
  BY <1>2, <1>3 DEF SpoolResult, TypeOK
<1>4. CASE DeliveryFailed
  BY <1>2, <1>4 DEF DeliveryFailed, TypeOK, WorkerInv
<1>5. ASSUME NEW k \in left, \/ ImageUploaded(k) \/ ImageSpooled(k) \/ ImageFails(k)
                             \/ ImageMissing(k) \/ ImageFlushed(k) \/ UploadFails(k)
      PROVE  Goal
  BY <1>1, <1>5 DEF ImageUploaded, ImageSpooled, ImageFails, SaveImage,
     ImageMissing, ImageFlushed, UploadFails, UnlinkImage, spoolVars
<1>6. CASE \E u \in listing : OpenFile(u) \/ FileCorrupt(u)
  BY <1>1, <1>6 DEF OpenFile, FileCorrupt, MoveDead, spoolVars
<1>7. CASE FlushSent \/ FlushRefused \/ FlushHeld
  BY <1>1, <1>7 DEF FlushSent, FlushRefused, FlushHeld, Unlink, MoveDead, spoolVars
<1>8. CASE \/ StartCycle \/ ImagesSaved \/ BeginFlush \/ FlushPost \/ EndFlush
           \/ Delivered \/ DeliveryRefused \/ \E u \in batch : PostResult(u)
  BY <1>1, <1>8 DEF StartCycle, ImagesSaved, BeginFlush, FlushPost, EndFlush,
     Delivered, DeliveryRefused, PostResult, spoolVars
<1>9. CASE WorkerCrash
  BY <1>1, <1>9 DEF WorkerCrash, Tear, spoolVars
<1>10. CASE UNCHANGED spoolVars
  BY <1>1, <1>10 DEF spoolVars
<1>11. CASE UNCHANGED vars
  BY <1>10, <1>11 DEF vars
<1> QED
  BY <1>3, <1>4, <1>5, <1>6, <1>7, <1>8, <1>9, <1>10, <1>11
  DEF Next, WorkerNext, SaveImages, DeliverResults, FlushSpool

\* Only a POST makes the API get a result it did not have.
LEMMA SentStep ==
  ASSUME TypeOK, AnswerInv, [Next]_vars, NEW t \in Tubes,
         rows'[t] > 0 \/ t \in queue' \/ \E c \in calls' : c.tube = t
  PROVE  Sent(t) \/ (posting = NoTube /\ Post(t))
<1> USE DEF Sent, Durable
<1>1. CASE UNCHANGED apiVars
  BY <1>1 DEF apiVars
<1>2. CASE StopWaiting
  <2>1. \A c \in calls' : \E e \in calls : c.tube = e.tube
    BY <1>2, StopWaitingCalls
  <2> QED
    BY <1>2, <2>1 DEF StopWaiting
<1>3. ASSUME NEW u \in Tubes, posting = NoTube, Post(u)
      PROVE  Sent(t) \/ (posting = NoTube /\ Post(t))
  <2>1. Call(u, TRUE, "sent").tube = u
    BY DEF Call
  <2> QED
    BY <1>3, <2>1 DEF Post
<1>4. ASSUME NEW c \in calls, HandleCall(c)
      PROVE  Sent(t)
  <2>1. c \in Calls /\ rows \in [Tubes -> Nat] /\ c.tube \in Tubes
    BY DEF TypeOK, ApiTypeOK, Calls
  <2>2. \A e \in calls' : e \in calls \/ e.tube = c.tube
    <3>1. calls' \subseteq calls \/ \E s \in {"insert", "backup", "announce"} : Move(c, s)
      BY <1>4 DEF HandleCall, Refuse, FindNone, Duplicate, Commit, CommitThenRaise,
         DatabaseFails, Backup, BackupFails, Announce, LoseCall, Return
    <3>2. ASSUME NEW s \in {"insert", "backup", "announce"}, Move(c, s)
          PROVE  \A e \in calls' : e \in calls \/ e.tube = c.tube
      <4>1. [c EXCEPT !.stage = s].tube = c.tube
        BY <2>1 DEF Calls
      <4> QED
        BY <3>2, <4>1 DEF Move
    <3> QED
      BY <3>1, <3>2
  <2>3. t # c.tube => rows'[t] = rows[t] /\ (t \in queue' => t \in queue)
    BY <1>4, <2>1 DEF HandleCall, Refuse, FindNone, Duplicate, Commit, CommitThenRaise,
       DatabaseFails, Backup, BackupFails, Announce, LoseCall, InsertRow
  <2> QED
    BY <2>2, <2>3
<1>5. ASSUME NEW d \in Drainers, Drain(d)
      PROVE  Sent(t)
  <2>1. calls' = calls /\ queue' \subseteq queue
    BY <1>5 DEF Drain, DrainStart, DrainSkip, DrainFind, DrainInsert, DrainRemove
  <2>2. CASE rows' = rows
    BY <2>1, <2>2
  <2>3. CASE DrainInsert(d)
    <3>1. drain[d].tube \in Tubes /\ Sent(drain[d].tube)
      BY <2>3 DEF DrainInsert, AnswerInv
    <3>2. rows \in [Tubes -> Nat]
      BY DEF TypeOK, ApiTypeOK
    <3>3. t # drain[d].tube => rows'[t] = rows[t]
      BY <2>3, <3>1, <3>2 DEF DrainInsert, InsertRow
    <3> QED
      BY <2>1, <3>1, <3>3
  <2> QED
    BY <1>5, <2>2, <2>3 DEF Drain, DrainStart, DrainSkip, DrainFind, DrainRemove
<1>6. CASE ApiCrash
  BY <1>6 DEF ApiCrash
<1> QED
  BY <1>1, <1>2, <1>3, <1>4, <1>5, <1>6, ApiSteps DEF ApiNext

\* A POST is about a tube of the frame being delivered or the file being
\* flushed, and all the images of either are in the storage.
LEMMA PostStep ==
  ASSUME TypeOK, WorkerInv, PathInv, [Next]_vars, NEW t \in Tubes, posting = NoTube, Post(t)
  PROVE  /\ Covered(FrameOf[t], {})
         /\ FrameOf[t] <= frame
         /\ phase # "save"
<1>1. posting' = t /\ t # NoTube
  BY DEF Post
<1>2. CASE \E u \in batch : PostResult(u)
  <2>1. t \in batch /\ phase = "deliver" /\ spooled = {}
    BY <1>1, <1>2 DEF PostResult, Post
  <2> QED
    BY <2>1 DEF PathInv, TypeOK
<1>3. CASE FlushPost
  <2>1. current = t /\ phase = "flush" /\ left = {}
    BY <1>1, <1>3 DEF FlushPost, Post
  <2>2. t \in pending /\ Covered(FrameOf[t], left)
    BY <1>1, <2>1 DEF PathInv
  <2>3. FrameOf[t] \in Nat /\ frame \in Nat
    BY DEF TypeOK, Frames
  <2>4. ~(FrameOf[t] > frame)
    BY <2>2 DEF PathInv
  <2> QED
    BY <2>1, <2>2, <2>3, <2>4
<1>4. posting' # posting
  BY <1>1
<1> QED
  BY <1>1, <1>2, <1>3, <1>4
  DEF Next, WorkerNext, SaveImages, DeliverResults, FlushSpool, vars, workerVars, StopWaiting,
      StartCycle, ImageUploaded, ImageSpooled, ImageFails, ImagesSaved, SpoolResult,
      Delivered, DeliveryRefused, DeliveryFailed, BeginFlush, OpenFile, FileCorrupt,
      ImageMissing, ImageFlushed, UploadFails, FlushSent, FlushRefused, FlushHeld, EndFlush,
      WorkerCrash

\* The phase "save" begins with StartCycle; the frame being saved or delivered
\* is not changed by a step that is not one of saving.
LEMMA PhaseStep ==
  ASSUME TypeOK, WorkerInv, [Next]_vars
  PROVE  /\ frame' = frame \/ (StartCycle /\ frame' = frame + 1)
         /\ phase' \in {"save", "deliver"} =>
              \/ StartCycle
              \/ SaveImages
              \/ /\ phase \in {"save", "deliver"} /\ UNCHANGED <<frame, spooled, paths>>
                 /\ batch' \subseteq batch
                 /\ phase' = "save" => phase = "save" /\ UNCHANGED left
         /\ phase' = "save" => (phase = "save" /\ frame' = frame) \/ (StartCycle /\ frame' = frame + 1)
<1> USE DEF workerVars, historyVars, vars
<1>1. CASE StartCycle
  BY <1>1 DEF StartCycle
<1>2. CASE SaveImages
  BY <1>2 DEF SaveImages, ImageUploaded, ImageSpooled, ImageFails
<1>3. CASE ImagesSaved \/ \E t \in batch : SpoolResult(t) \/ PostResult(t)
  BY <1>3 DEF ImagesSaved, SpoolResult, PostResult
<1>4. CASE Delivered \/ DeliveryRefused \/ DeliveryFailed
  BY <1>4 DEF Delivered, DeliveryRefused, DeliveryFailed
<1>5. CASE BeginFlush \/ EndFlush \/ WorkerCrash
  BY <1>5 DEF BeginFlush, EndFlush, WorkerCrash
<1>6. CASE FlushSpool
  BY <1>6 DEF FlushSpool, OpenFile, FileCorrupt, ImageMissing, ImageFlushed, UploadFails,
     NextFlushed, NextUpload, FlushPost, FlushSent, FlushRefused, FlushHeld, EndFlush
<1>7. CASE UNCHANGED <<spoolVars, workerVars, historyVars, remote>>
  BY <1>7
<1>8. CASE UNCHANGED vars
  BY <1>8
<1> QED
  BY <1>1, <1>2, <1>3, <1>4, <1>5, <1>6, <1>7, <1>8 DEF Next, WorkerNext, DeliverResults

-----------------------------------------------------------------------------
(* The invariant is inductive, part by part *)

\* What was covered stays covered where the paths do not change.
LEMMA CoveredStays ==
  ASSUME TypeOK, WorkerInv, PathInv, [Next]_vars, NEW f \in Frames, NEW keys,
         Covered(f, keys), paths'[f] = paths[f]
  PROVE  \A k \in paths'[f] : k \in remote' \cup keys \/ \E u \in dropped' : FrameOf[u] = f
  BY ImagesStep DEF Covered, Evicted

\* What was recoverable stays recoverable.
LEMMA RecoverableStays ==
  ASSUME TypeOK, WorkerInv, PathInv, [Next]_vars, NEW f, NEW keys, Recoverable(f, keys)
  PROVE  \A k \in keys : k[1] = f /\ (k \in images' \cup remote' \/ \E u \in dropped' : FrameOf[u] = f)
<1> SUFFICES ASSUME NEW k \in keys
             PROVE  k[1] = f /\ (k \in images' \cup remote' \/ \E u \in dropped' : FrameOf[u] = f)
  OBVIOUS
<1>1. k[1] = f /\ (k \in images \cup remote \/ \E u \in dropped : FrameOf[u] = f)
  BY DEF Recoverable, Evicted
<1> QED
  BY <1>1, ImagesStep

\* What the API has or may still get refers to stored images only.
LEMMA SentCovered ==
  ASSUME TypeOK, AnswerInv, WorkerInv, PathInv, [Next]_vars, NEW t \in Tubes,
         rows'[t] > 0 \/ t \in queue' \/ \E c \in calls' : c.tube = t
  PROVE  \A k \in paths'[FrameOf[t]] :
            k \in remote' \cup {} \/ \E u \in dropped' : FrameOf[u] = FrameOf[t]
<1>1. FrameOf[t] \in Frames
  OBVIOUS
<1>2. Covered(FrameOf[t], {}) /\ ~(phase = "save" /\ FrameOf[t] = frame)
  <2>1. CASE Sent(t)
    BY <2>1 DEF PathInv
  <2>2. CASE posting = NoTube /\ Post(t)
    BY <2>2, PostStep
  <2> QED
    BY <2>1, <2>2, SentStep
<1>3. paths'[FrameOf[t]] = paths[FrameOf[t]]
  BY <1>1, <1>2, ImagesStep
<1> QED
  BY <1>1, <1>2, <1>3, CoveredStays

\* A file of the spool lists the images of its result that are not stored.
LEMMA PendingCovered ==
  ASSUME TypeOK, AnswerInv, WorkerInv, PathInv, [Next]_vars, NEW t \in Tubes, t \in pending'
  PROVE  \A k \in paths'[FrameOf[t]] :
            k \in remote' \cup pendingImages'[t] \/ \E u \in dropped' : FrameOf[u] = FrameOf[t]
<1>1. FrameOf[t] \in Frames
  OBVIOUS
<1>2. Covered(FrameOf[t], pendingImages'[t]) /\ ~(phase = "save" /\ FrameOf[t] = frame)
  <2>1. CASE pendingImages'[t] = pendingImages[t] /\ t \in pending
    BY <2>1 DEF PathInv
  <2>2. CASE phase = "deliver" /\ t \in batch /\ pendingImages'[t] = spooled
    BY <2>2 DEF PathInv
  <2> QED
    BY <2>1, <2>2, PendingStep
<1>3. paths'[FrameOf[t]] = paths[FrameOf[t]]
  BY <1>1, <1>2, ImagesStep
<1> QED
  BY <1>1, <1>2, <1>3, CoveredStays

\* The images a file lists are kept until the storage has them.
LEMMA PendingRecoverable ==
  ASSUME TypeOK, AnswerInv, WorkerInv, PathInv, [Next]_vars, NEW t \in Tubes
  PROVE  \A k \in pendingImages'[t] :
            k[1] = FrameOf[t] /\ (k \in images' \cup remote' \/ \E u \in dropped' : FrameOf[u] = FrameOf[t])
<1>1. CASE pendingImages'[t] = pendingImages[t]
  BY <1>1, RecoverableStays DEF PathInv
<1>2. CASE phase = "deliver" /\ t \in batch /\ pendingImages'[t] = spooled
  BY <1>2, RecoverableStays DEF PathInv
<1> QED
  BY <1>1, <1>2, PendingStep

\* Nothing is sent or spooled for a frame before its images are saved.
LEMMA UntouchedStep ==
  ASSUME TypeOK, AnswerInv, WorkerInv, PathInv, [Next]_vars, NEW t \in Tubes,
         FrameOf[t] > frame' \/ (phase' = "save" /\ FrameOf[t] = frame')
  PROVE  /\ ~(rows'[t] > 0 \/ t \in queue' \/ \E c \in calls' : c.tube = t)
         /\ t \notin pending'
<1>1. FrameOf[t] \in Nat /\ frame \in Nat
  BY DEF TypeOK, Frames
<1>2. FrameOf[t] > frame \/ (phase = "save" /\ FrameOf[t] = frame)
  BY <1>1, PhaseStep
<1>3. ~Sent(t) /\ t \notin pending
  BY <1>2 DEF PathInv
<1>4. ~(posting = NoTube /\ Post(t))
  BY <1>1, <1>2, PostStep
<1>5. ~(phase = "deliver" /\ t \in batch)
  BY <1>1, <1>2 DEF PathInv
<1> QED
  BY <1>3, <1>4, <1>5, SentStep, PendingStep

\* The results of a frame not yet taken refer to nothing.
LEMMA FuturePaths ==
  ASSUME TypeOK, AnswerInv, WorkerInv, PathInv, [Next]_vars, NEW f \in Frames, f > frame'
  PROVE  paths'[f] = {}
<1>1. f \in Nat /\ frame \in Nat
  BY DEF TypeOK, Frames
<1>2. f > frame
  BY <1>1, PhaseStep
<1> QED
  BY <1>1, <1>2, ImagesStep DEF PathInv

\* While the images of a frame are saved and its results handed over, the
\* images not in the storage are the spooled ones.
LEMMA FrameStep ==
  ASSUME TypeOK, AnswerInv, WorkerInv, PathInv, [Next]_vars, phase' \in {"save", "deliver"}
  PROVE  /\ frame' \in Frames
         /\ \A t \in batch' : FrameOf[t] = frame'
         /\ \A k \in paths'[frame'] :
               k \in remote' \cup spooled' \/ \E u \in dropped' : FrameOf[u] = frame'
         /\ \A k \in spooled' : k[1] = frame' /\
               (k \in images' \cup remote' \/ \E u \in dropped' : FrameOf[u] = frame')
         /\ phase' = "save" => \A k \in left' : k[1] = frame'
<1>1. CASE StartCycle
  <2>1. frame' = frame + 1 /\ frame < LastFrame /\ frame \in Nat /\ paths' = paths
    BY <1>1 DEF StartCycle, TypeOK
  <2>2. frame' \in Frames /\ frame' > frame
    BY <2>1 DEF Frames
  <2>3. paths'[frame'] = {}
    BY <2>1, <2>2 DEF PathInv
  <2>4. spooled' = {} /\ (\A t \in batch' : FrameOf[t] = frame') /\ left' \subseteq KeysOf(frame')
    BY <1>1 DEF StartCycle, TubesOf
  <2>5. \A k \in left' : k[1] = frame'
    BY <2>4 DEF KeysOf
  <2> QED
    BY <2>2, <2>3, <2>4, <2>5
<1>2. ASSUME NEW k \in left, ImageUploaded(k) \/ ImageSpooled(k) \/ ImageFails(k)
      PROVE  /\ frame' \in Frames
             /\ \A t \in batch' : FrameOf[t] = frame'
             /\ \A j \in paths'[frame'] :
                   j \in remote' \cup spooled' \/ \E u \in dropped' : FrameOf[u] = frame'
             /\ \A j \in spooled' : j[1] = frame' /\
                   (j \in images' \cup remote' \/ \E u \in dropped' : FrameOf[u] = frame')
             /\ phase' = "save" => \A j \in left' : j[1] = frame'
  <2>1. phase = "save" /\ frame' = frame /\ batch' = batch /\ k[1] = frame /\ left' \subseteq left
    BY <1>2 DEF ImageUploaded, ImageSpooled, ImageFails, NextImage, PathInv
  <2>2. frame \in Frames /\ (\A t \in batch : FrameOf[t] = frame) /\ \A j \in left : j[1] = frame
    BY <2>1 DEF PathInv
  <2>3. /\ \A j \in paths[frame] : j \in remote \cup spooled \/ \E u \in dropped : FrameOf[u] = frame
        /\ \A j \in spooled : j[1] = frame /\
             (j \in images \cup remote \/ \E u \in dropped : FrameOf[u] = frame)
    BY <2>1 DEF PathInv, Covered, Recoverable, Evicted
  <2>4. paths \in [Frames -> SUBSET Keys]
    BY DEF TypeOK
  <2>5. CASE ImageUploaded(k)
    BY <2>1, <2>2, <2>3, <2>4, <2>5 DEF ImageUploaded, spoolVars
  <2>6. CASE ImageSpooled(k)
    BY <2>1, <2>2, <2>3, <2>4, <2>6 DEF ImageSpooled, SaveImage
  <2>7. CASE ImageFails(k)
    BY <2>1, <2>2, <2>3, <2>4, <2>7 DEF ImageFails
  <2> QED
    BY <1>2, <2>5, <2>6, <2>7
<1>3. CASE /\ phase \in {"save", "deliver"} /\ UNCHANGED <<frame, spooled, paths>>
           /\ batch' \subseteq batch
           /\ phase' = "save" => phase = "save" /\ UNCHANGED left
  <2>1. /\ frame \in Frames /\ \A t \in batch : FrameOf[t] = frame
        /\ Covered(frame, spooled) /\ Recoverable(frame, spooled)
        /\ phase = "save" => \A k \in left : k[1] = frame
    BY <1>3 DEF PathInv
  <2>2. \A k \in paths'[frame] : k \in remote' \cup spooled \/ \E u \in dropped' : FrameOf[u] = frame
    BY <1>3, <2>1, CoveredStays
  <2>3. \A k \in spooled : k[1] = frame /\
            (k \in images' \cup remote' \/ \E u \in dropped' : FrameOf[u] = frame)
    BY <2>1, RecoverableStays
  <2> QED
    BY <1>3, <2>1, <2>2, <2>3
<1> QED
  BY <1>1, <1>2, <1>3, PhaseStep DEF SaveImages

\* The flush works on files of the spool; what is left to upload of the file
\* it has open is what the storage does not have.
LEMMA FlushStep ==
  ASSUME TypeOK, AnswerInv, WorkerInv, PathInv, [Next]_vars, phase' = "flush"
  PROVE  /\ listing' \subseteq pending'
         /\ current' # NoTube =>
              /\ current' \in pending'
              /\ left' \subseteq pendingImages'[current']
              /\ \A k \in paths'[FrameOf[current']] :
                    k \in remote' \cup left' \/ \E u \in dropped' : FrameOf[u] = FrameOf[current']
<1> DEFINE Goal ==
         /\ listing' \subseteq pending'
         /\ current' # NoTube =>
              /\ current' \in pending'
              /\ left' \subseteq pendingImages'[current']
              /\ \A k \in paths'[FrameOf[current']] :
                    k \in remote' \cup left' \/ \E u \in dropped' : FrameOf[u] = FrameOf[current']
<1> USE DEF workerVars, historyVars
<1>1. CASE BeginFlush
  <2>1. current' = NoTube /\ pending' = pending /\ listing' \subseteq pending
    <3>1. phase # "flush"
      BY <1>1 DEF BeginFlush
    <3> QED
      BY <1>1, <3>1 DEF BeginFlush, Listings, WorkerInv, spoolVars
  <2> QED
    BY <2>1
<1>2. ASSUME phase = "flush"
      PROVE  /\ listing \subseteq pending
             /\ current # NoTube => current \in pending /\ left \subseteq pendingImages[current]
                                    /\ Covered(FrameOf[current], left)
  BY <1>2 DEF PathInv
<1>3. ASSUME phase = "flush", current # NoTube, UNCHANGED <<current, left, listing, pendingImages, pending>>
      PROVE  Goal
  <2>1. FrameOf[current] \in Frames /\ paths'[FrameOf[current]] = paths[FrameOf[current]]
    BY <1>2, <1>3, ImagesStep DEF TypeOK
  <2> QED
    BY <1>2, <1>3, <2>1, CoveredStays
<1>4. CASE phase = "flush" /\ UNCHANGED <<current, left, listing, pendingImages, pending>>
  BY <1>2, <1>3, <1>4
<1>5. ASSUME NEW t \in listing, OpenFile(t)
      PROVE  Goal
  <2>1. /\ phase = "flush" /\ UNCHANGED <<pending, pendingImages, listing, paths, remote, dropped>>
        /\ current' = t /\ left' = pendingImages[t]
    BY <1>5 DEF OpenFile, NextFlushed, spoolVars
  <2>2. t \in pending /\ Covered(FrameOf[t], pendingImages[t])
    BY <1>2, <2>1 DEF PathInv
  <2> QED
    BY <1>2, <2>1, <2>2 DEF Covered, Evicted
<1>6. ASSUME NEW t \in listing, FileCorrupt(t)
      PROVE  Goal
  BY <1>2, <1>6 DEF FileCorrupt, NextFlushed, MoveDead, spoolVars
<1>7. ASSUME NEW k \in left, ImageMissing(k) \/ ImageFlushed(k)
      PROVE  Goal
  <2>1. /\ phase = "flush" /\ current # NoTube /\ left' = left \ {k}
        /\ UNCHANGED <<current, listing, pendingImages, pending, paths, dropped>>
    BY <1>7 DEF ImageMissing, ImageFlushed, NextUpload, UnlinkImage, spoolVars
  <2>2. /\ listing \subseteq pending /\ current \in pending /\ left \subseteq pendingImages[current]
        /\ Covered(FrameOf[current], left)
    BY <1>2, <2>1
  <2>3. \A j \in paths[FrameOf[current]] :
           j \in remote' \cup left \/ \E u \in dropped' : FrameOf[u] = FrameOf[current]
    BY <2>1, <2>2, ImagesStep DEF Covered, Evicted
  <2>4. k \in remote' \/ \E u \in dropped' : FrameOf[u] = FrameOf[current]
    <3>1. CASE ImageFlushed(k)
      BY <3>1 DEF ImageFlushed
    <3>2. CASE ImageMissing(k)
      <4>1. current \in Tubes
        BY <2>1 DEF TypeOK
      <4>2. k \in remote \/ \E u \in dropped : FrameOf[u] = FrameOf[current]
        BY <2>2, <3>2, <4>1 DEF ImageMissing, PathInv, Recoverable, Evicted
      <4> QED
        BY <4>2, ImagesStep
    <3> QED
      BY <1>7, <3>1, <3>2
  <2> QED
    BY <2>1, <2>2, <2>3, <2>4
<1>8. ASSUME NEW k \in left, UploadFails(k)
      PROVE  Goal
  BY <1>2, <1>8 DEF UploadFails, NextUpload, Hold, spoolVars
<1>9. CASE FlushPost
  BY <1>4, <1>9 DEF FlushPost, spoolVars
<1>10. CASE FlushSent \/ FlushRefused \/ FlushHeld
  <2>1. /\ phase = "flush" /\ current' = NoTube
        /\ listing' \subseteq listing /\ (listing' \subseteq listing \ {posting} \/ pending' = pending)
        /\ pending \ {posting} \subseteq pending'
    BY <1>10 DEF FlushSent, FlushRefused, FlushHeld, Hold, Unlink, MoveDead, spoolVars
  <2> QED
    BY <1>2, <2>1
<1>11. CASE UNCHANGED <<spoolVars, workerVars, historyVars, remote>>
  BY <1>4, <1>11 DEF spoolVars
<1>12. CASE UNCHANGED vars
  BY <1>11, <1>12 DEF vars
<1> QED
  BY <1>1, <1>5, <1>6, <1>7, <1>8, <1>9, <1>10, <1>11, <1>12
  DEF Next, WorkerNext, DeliverResults, FlushSpool, SaveImages, StartCycle, ImageUploaded, ImageSpooled,
      ImageFails, NextImage, ImagesSaved, SpoolResult, PostResult, Delivered, DeliveryRefused,
      DeliveryFailed, EndFlush, WorkerCrash

\* Every step keeps the invariant on the paths of the images.
LEMMA PathInvStep ==
  ASSUME TypeOK, AnswerInv, WorkerInv, PathInv, [Next]_vars
  PROVE  PathInv'
<1> USE DEF Covered, Recoverable, Evicted, Sent, Durable
<1>1. (\A t \in Tubes : Sent(t) => Covered(FrameOf[t], {}))'
  BY SentCovered
<1>2. (\A t \in pending : Covered(FrameOf[t], pendingImages[t]))'
  <2>1. pending' \subseteq Tubes
    BY TypeOKStep DEF TypeOK, SpoolTypeOK
  <2> QED
    BY <2>1, PendingCovered
<1>3. (\A t \in Tubes : Recoverable(FrameOf[t], pendingImages[t]))'
  BY PendingRecoverable
<1>4. (\A t \in Tubes : FrameOf[t] > frame \/ (phase = "save" /\ FrameOf[t] = frame)
                        => ~Sent(t) /\ t \notin pending)'
  BY UntouchedStep
<1>5. (\A f \in Frames : f > frame => paths[f] = {})'
  BY FuturePaths
<1>6. (phase \in {"save", "deliver"} =>
         /\ frame \in Frames
         /\ \A t \in batch : FrameOf[t] = frame
         /\ Covered(frame, spooled)
         /\ Recoverable(frame, spooled))'
  BY FrameStep
<1>7. (phase = "save" => \A k \in left : k[1] = frame)'
  BY FrameStep
<1>8. (phase = "flush" =>
         /\ listing \subseteq pending
         /\ current # NoTube => /\ current \in pending
                               /\ left \subseteq pendingImages[current]
                               /\ Covered(FrameOf[current], left))'
  BY FlushStep
<1> HIDE DEF Covered, Recoverable, Evicted, Sent, Durable
<1> QED
  BY <1>1, <1>2, <1>3, <1>4, <1>5, <1>6, <1>7, <1>8 DEF PathInv

\* At the start no path is known and nothing is sent.
LEMMA PathInvInit == Init => PathInv
<1> SUFFICES ASSUME Init PROVE PathInv
  OBVIOUS
<1>1. phase = "flush" /\ frame = 0 /\ pending = {} /\ listing = {} /\ current = NoTube
  BY DEF Init, SpoolInit
<1>2. \A t \in Tubes : ~Sent(t)
  BY DEF Init, ApiInit, Sent, Durable
<1>3. \A t \in Tubes : pendingImages[t] = {}
  BY DEF Init, SpoolInit
<1>4. \A f \in Frames : paths[f] = {}
  BY DEF Init
<1> QED
  BY <1>1, <1>2, <1>3, <1>4 DEF PathInv, Recoverable

\* A stored or queued result refers to images the storage holds, unless the
\* size limit dropped a result of its frame.
THEOREM ImagesBehindRows == Spec => []PathIntegrity
<1>1. Init => SafetyInv /\ PathInv
  BY SafetyInvInit, PathInvInit
<1>2. SafetyInv /\ PathInv /\ [Next]_vars => (SafetyInv /\ PathInv)'
  BY SafetyInvStep, PathInvStep DEF SafetyInv
<1>3. SafetyInv /\ PathInv => PathIntegrity
  BY DEF SafetyInv, PathInv, PathIntegrity, Sent, Covered, Evicted
<1> QED
  BY <1>1, <1>2, <1>3, PTL DEF Spec

-----------------------------------------------------------------------------
(* The refinement *)

\* The tubes that have been inspected are those of the frames taken.
SeenInv == \A t \in Tubes : fate[t] = "unseen" <=> FrameOf[t] > frame

LedgerInv == SafetyInv /\ PathInv /\ SeenInv

\* Whatever the worker or the API has in its hands was inspected.
LEMMA Seen ==
  ASSUME LedgerInv, NEW t \in Tubes,
         t \in batch \/ t \in pending \/ t = posting \/ Sent(t) \/ (phase = "flush" /\ t \in listing)
  PROVE  fate[t] # "unseen"
<1> USE DEF LedgerInv, SafetyInv
<1>1. FrameOf[t] \in Nat /\ frame \in Nat
  BY DEF TypeOK, Frames
<1>2. CASE t \in batch
  BY <1>1, <1>2 DEF WorkerInv, PathInv, SeenInv
<1>3. CASE t \in pending
  BY <1>1, <1>3 DEF PathInv, SeenInv
<1>4. CASE t = posting
  <2>1. t # NoTube
    OBVIOUS
  <2>2. (phase = "deliver" /\ t \in batch) \/ (phase = "flush" /\ t = current)
    BY <1>4, <2>1 DEF WorkerInv
  <2> QED
    BY <1>2, <1>3, <2>1, <2>2 DEF PathInv
<1>5. CASE Sent(t)
  BY <1>1, <1>5 DEF PathInv, SeenInv
<1>6. CASE phase = "flush" /\ t \in listing
  BY <1>3, <1>6 DEF PathInv
<1> QED
  BY <1>2, <1>3, <1>4, <1>5, <1>6

\* A step of the worker changes what has become of the results in one way: a
\* frame is taken, results are given up, or one is handed over after a 2xx.
LEMMA FateStep ==
  ASSUME LedgerInv, [Next]_vars
  PROVE  \/ ApiNext /\ UNCHANGED <<fate, frame>>
         \/ /\ UNCHANGED <<rows, queue, announced>>
            /\ \/ UNCHANGED <<fate, frame>>
               \/ StartCycle
               \/ \E ts \in SUBSET {t \in Tubes : fate[t] # "unseen"} : GiveUp(ts) /\ UNCHANGED frame
               \/ /\ answer = "stored" /\ posting \in Tubes /\ UNCHANGED frame
                  /\ fate' = [fate EXCEPT ![posting] = "handed"]
<1> DEFINE Seens == {t \in Tubes : fate[t] # "unseen"}
           Goal == /\ UNCHANGED <<rows, queue, announced>>
                   /\ \/ UNCHANGED <<fate, frame>>
                      \/ StartCycle
                      \/ \E ts \in SUBSET Seens : GiveUp(ts) /\ UNCHANGED frame
                      \/ /\ answer = "stored" /\ posting \in Tubes /\ UNCHANGED frame
                         /\ fate' = [fate EXCEPT ![posting] = "handed"]
<1> USE DEF apiVars, workerVars, historyVars
<1>0. TypeOK /\ pending \in SUBSET Tubes
  BY DEF LedgerInv, SafetyInv, TypeOK, SpoolTypeOK
<1>1. pending \subseteq Seens /\ batch \subseteq Seens /\ (posting # NoTube => posting \in Seens)
  BY <1>0, Seen DEF TypeOK
<1>2. CASE StartCycle
  BY <1>2 DEF StartCycle
<1>3. CASE SaveImages
  BY <1>3 DEF SaveImages, ImageUploaded, ImageSpooled, ImageFails
<1>4. CASE ImagesSaved \/ BeginFlush \/ EndFlush
  BY <1>4 DEF ImagesSaved, BeginFlush, EndFlush
<1>5. ASSUME NEW t \in Seens, NEW keys, EnqueueOrLose(t, keys)
      PROVE  \E ts \in SUBSET Seens : GiveUp(ts)
  <2>1. (pending \cup {t}) \ pending' \in SUBSET Seens /\ {t} \in SUBSET Seens
    BY <1>1
  <2> QED
    BY <1>5, <2>1 DEF EnqueueOrLose
<1>6. ASSUME NEW t \in batch, SpoolResult(t) \/ PostResult(t)
      PROVE  Goal
  BY <1>1, <1>5, <1>6 DEF SpoolResult, PostResult, Post
<1>7. CASE Delivered \/ FlushSent
  BY <1>0, <1>7 DEF Delivered, FlushSent, StopWaiting, TypeOK
<1>8. CASE DeliveryRefused
  <2>1. {posting} \in SUBSET Seens
    BY <1>1, <1>8 DEF DeliveryRefused
  <2> QED
    BY <1>8, <2>1 DEF DeliveryRefused, StopWaiting
<1>9. CASE DeliveryFailed
  BY <1>1, <1>5, <1>9 DEF DeliveryFailed, StopWaiting
<1>10. CASE FlushRefused
  <2>1. {posting} \ pending' \in SUBSET Seens
    BY <1>1, <1>10 DEF FlushRefused
  <2> QED
    BY <1>10, <2>1 DEF FlushRefused, StopWaiting
<1>11. ASSUME NEW t \in listing, FileCorrupt(t)
       PROVE  Goal
  <2>1. phase = "flush" /\ t \in Tubes
    BY <1>0, <1>11 DEF FileCorrupt, NextFlushed, TypeOK
  <2>2. {t} \ pending' \in SUBSET Seens
    BY <2>1, Seen
  <2> QED
    BY <1>11, <2>2 DEF FileCorrupt
<1>12. CASE \/ \E t \in listing : OpenFile(t)
            \/ \E k \in left : ImageMissing(k) \/ ImageFlushed(k) \/ UploadFails(k)
            \/ FlushPost \/ FlushHeld
  BY <1>12 DEF OpenFile, ImageMissing, ImageFlushed, UploadFails, FlushPost, FlushHeld, Post, StopWaiting
<1>13. CASE WorkerCrash
  <2>1. batch \in SUBSET Seens
    BY <1>1
  <2> QED
    BY <1>13, <2>1 DEF WorkerCrash, StopWaiting
<1>14. CASE ApiNext /\ UNCHANGED <<spoolVars, workerVars, historyVars, remote>>
  BY <1>14
<1>15. CASE UNCHANGED vars
  BY <1>15 DEF vars
<1> QED
  BY <1>2, <1>3, <1>4, <1>6, <1>7, <1>8, <1>9, <1>10, <1>11, <1>12, <1>13, <1>14, <1>15
  DEF Next, WorkerNext, DeliverResults, FlushSpool

\* Every step keeps the facts about frames taken and not taken yet.
LEMMA SeenInvStep ==
  ASSUME LedgerInv, [Next]_vars
  PROVE  SeenInv'
<1>0. /\ fate \in [Tubes -> Fates] /\ frame \in Nat /\ SeenInv
      /\ \A t \in Tubes : FrameOf[t] \in Nat
  BY DEF LedgerInv, SafetyInv, TypeOK, Frames
<1> SUFFICES ASSUME NEW t \in Tubes
             PROVE  fate'[t] = "unseen" <=> FrameOf[t] > frame'
  BY DEF SeenInv
<1>1. CASE StartCycle
  <2>1. frame' = frame + 1 /\ fate'[t] = IF FrameOf[t] = frame + 1 THEN "kept" ELSE fate[t]
    BY <1>1 DEF StartCycle, TubesOf
  <2> QED
    BY <1>0, <2>1 DEF SeenInv
<1>2. ASSUME NEW ts \in SUBSET {u \in Tubes : fate[u] # "unseen"}, GiveUp(ts), UNCHANGED frame
      PROVE  fate'[t] = "unseen" <=> FrameOf[t] > frame'
  BY <1>0, <1>2 DEF GiveUp, SeenInv
<1>3. CASE /\ answer = "stored" /\ posting \in Tubes /\ UNCHANGED frame
           /\ fate' = [fate EXCEPT ![posting] = "handed"]
  BY <1>0, <1>3, Seen DEF SeenInv
<1>4. CASE UNCHANGED <<fate, frame>>
  BY <1>0, <1>4 DEF SeenInv
<1> QED
  BY <1>1, <1>2, <1>3, <1>4, FateStep

-----------------------------------------------------------------------------
(* Every step is a step of the ledger or a stutter *)

\* A step of the API secures or alarms one result, or changes nothing.
LEMMA ApiRefines ==
  ASSUME LedgerInv, [Next]_vars, ApiNext, UNCHANGED <<fate, frame>>
  PROVE  \/ \E t \in Tubes : Ledger!Secure(t) \/ Ledger!Alarm(t)
         \/ UNCHANGED Ledger!vars
<1> USE DEF StatusOf, Durable
<1>0. /\ TypeOK /\ RowInv /\ AnswerInv
      /\ rows \in [Tubes -> Nat] /\ announced \in [Tubes -> Nat]
      /\ \A c \in calls : c.tube \in Tubes
  BY DEF LedgerInv, SafetyInv, TypeOK, ApiTypeOK, Calls
<1>1. \A t \in Tubes : rows[t] > 0 \/ t \in queue => rows'[t] > 0 \/ t \in queue'
  BY <1>0, DurableStays
<1>2. ASSUME NEW c \in calls, HandleCall(c), announced' = announced
      PROVE  Ledger!Secure(c.tube) \/ UNCHANGED Ledger!vars
  <2>1. c.tube \in Tubes /\ fate[c.tube] # "unseen"
    BY <1>0, Seen DEF Sent
  <2>2. \A t \in Tubes : t # c.tube => rows'[t] = rows[t] /\ (t \in queue' <=> t \in queue)
    BY <1>0, <1>2, <2>1 DEF HandleCall, Refuse, FindNone, Duplicate, Commit, CommitThenRaise,
       DatabaseFails, Backup, BackupFails, Announce, LoseCall, InsertRow
  <2>3. CASE Durable(c.tube)
    BY <1>1, <1>2, <2>1, <2>2, <2>3 DEF Ledger!vars
  <2>4. CASE ~Durable(c.tube) /\ (rows'[c.tube] > 0 \/ c.tube \in queue')
    <3>1. StatusOf(c.tube) \in {"held", "lost"}
      BY <2>1, <2>4
    <3> QED
      BY <1>2, <2>1, <2>2, <2>4, <3>1 DEF Ledger!Secure, Ledger!Change
  <2>5. CASE ~Durable(c.tube) /\ ~(rows'[c.tube] > 0 \/ c.tube \in queue')
    BY <1>2, <2>1, <2>2, <2>5 DEF Ledger!vars
  <2> QED
    BY <2>3, <2>4, <2>5
<1>3. ASSUME NEW c \in calls, Announce(c)
      PROVE  Ledger!Alarm(c.tube)
  <2>1. c.tube \in Tubes /\ rows[c.tube] = 1 /\ announced[c.tube] = 0
    BY <1>0, <1>3 DEF Announce, RowInv
  <2>2. UNCHANGED <<rows, queue>> /\ announced' = [announced EXCEPT ![c.tube] = @ + 1]
    BY <1>3 DEF Announce
  <2>3. {t \in Tubes : announced'[t] > 0} = {t \in Tubes : announced[t] > 0} \cup {c.tube}
    BY <1>0, <2>1, <2>2
  <2> QED
    <3>1. StatusOf(c.tube) = "safe"
      BY <2>1
    <3>2. [t \in Tubes |-> StatusOf(t)][c.tube] = "safe"
      BY <2>1, <3>1
    <3>3. [t \in Tubes |-> StatusOf(t)]' = [t \in Tubes |-> StatusOf(t)]
      BY <1>0, <2>2
    <3>4. {t \in Tubes : fate'[t] = "handed"} = {t \in Tubes : fate[t] = "handed"}
      OBVIOUS
    <3>5. c.tube \notin {t \in Tubes : announced[t] > 0}
      BY <2>1
    <3> HIDE DEF StatusOf
    <3> QED
      BY <2>3, <3>2, <3>3, <3>4, <3>5 DEF Ledger!Alarm
<1>4. ASSUME NEW d \in Drainers, Drain(d)
      PROVE  UNCHANGED Ledger!vars
  <2>1. announced' = announced
    BY <1>4 DEF Drain, DrainStart, DrainSkip, DrainFind, DrainInsert, DrainRemove
  <2>2. \A t \in Tubes : rows'[t] > 0 \/ t \in queue' => rows[t] > 0 \/ t \in queue
    <3>1. CASE DrainInsert(d)
      BY <1>0, <3>1 DEF DrainInsert, InsertRow, AnswerInv
    <3>2. CASE rows' = rows /\ queue' \subseteq queue
      BY <3>2
    <3> QED
      BY <1>4, <3>1, <3>2 DEF Drain, DrainStart, DrainSkip, DrainFind, DrainRemove
  <2> QED
    BY <1>1, <2>1, <2>2 DEF Ledger!vars
<1>5. CASE ApiCrash
  BY <1>5 DEF ApiCrash, Ledger!vars
<1>6. ASSUME NEW c \in calls, HandleCall(c)
      PROVE  announced' = announced \/ Announce(c)
  BY <1>6 DEF HandleCall, Refuse, FindNone, Duplicate, Commit, CommitThenRaise,
     DatabaseFails, Backup, BackupFails, LoseCall
<1> QED
  BY <1>0, <1>2, <1>3, <1>4, <1>5, <1>6 DEF ApiNext

\* A step of the worker inspects, loses or acknowledges results, or changes
\* nothing the ledger sees.
LEMMA WorkerRefines ==
  ASSUME LedgerInv, [Next]_vars, UNCHANGED <<rows, queue, announced>>,
         \/ UNCHANGED <<fate, frame>>
         \/ StartCycle
         \/ \E ts \in SUBSET {t \in Tubes : fate[t] # "unseen"} : GiveUp(ts) /\ UNCHANGED frame
         \/ /\ answer = "stored" /\ posting \in Tubes /\ UNCHANGED frame
            /\ fate' = [fate EXCEPT ![posting] = "handed"]
  PROVE  Ledger!Next \/ UNCHANGED Ledger!vars
<1> USE DEF StatusOf, Durable
<1>0. fate \in [Tubes -> Fates] /\ NoSilentLoss /\ AnswerInv
  BY DEF LedgerInv, SafetyInv, TypeOK
<1>1. CASE UNCHANGED <<fate, frame>>
  BY <1>1 DEF Ledger!vars
<1>2. CASE StartCycle
  <2>0. /\ frame' = frame + 1 /\ frame \in Nat /\ rows \in [Tubes -> Nat]
        /\ fate' = [t \in Tubes |-> IF FrameOf[t] = frame' THEN "kept" ELSE fate[t]]
    BY <1>2 DEF StartCycle, LedgerInv, SafetyInv, TypeOK, ApiTypeOK, TubesOf
  <2>1. PICK ts \in SUBSET Tubes : \A t \in Tubes : t \in ts <=> FrameOf[t] = frame + 1
    <3> WITNESS {t \in Tubes : FrameOf[t] = frame + 1} \in SUBSET Tubes
    <3> QED
      OBVIOUS
  <2>2. \A t \in ts : fate[t] = "unseen" /\ ~Durable(t)
    <3> SUFFICES ASSUME NEW t \in ts PROVE fate[t] = "unseen" /\ ~Durable(t)
      OBVIOUS
    <3>1. t \in Tubes /\ FrameOf[t] > frame
      BY <2>0, <2>1
    <3> QED
      BY <3>1 DEF LedgerInv, PathInv, SeenInv, Sent
  <2>3. \A t \in Tubes : fate'[t] = IF t \in ts THEN "kept" ELSE fate[t]
    BY <2>0, <2>1
  <2>4. \A t \in ts : StatusOf(t) = "unseen"
    BY <2>2
  <2>5. [t \in Tubes |-> StatusOf(t)]' = [t \in Tubes |-> IF t \in ts THEN "held" ELSE StatusOf(t)]
    BY <2>2, <2>3
  <2>6. {t \in Tubes : fate'[t] = "handed"} = {t \in Tubes : fate[t] = "handed"}
    BY <2>2, <2>3
  <2>7. {t \in Tubes : announced'[t] > 0} = {t \in Tubes : announced[t] > 0}
    OBVIOUS
  <2> HIDE DEF StatusOf
  <2>8. \A t \in ts : [u \in Tubes |-> StatusOf(u)][t] \in {"unseen"}
    BY <2>4
  <2>9. [t \in Tubes |-> StatusOf(t)]' =
           [t \in Tubes |-> IF t \in ts THEN "held" ELSE [u \in Tubes |-> StatusOf(u)][t]]
    BY <2>5
  <2> QED
    BY <2>6, <2>7, <2>8, <2>9 DEF Ledger!Next, Ledger!Inspect, Ledger!Change
<1>3. ASSUME NEW ts \in SUBSET {t \in Tubes : fate[t] # "unseen"}, GiveUp(ts)
      PROVE  Ledger!Next
  <2> DEFINE lost == {t \in ts : fate[t] = "kept" /\ ~(rows[t] > 0 \/ t \in queue)}
  <2>1. lost \in SUBSET Tubes
    OBVIOUS
  <2>2. \A t \in Tubes : /\ t \in lost => fate'[t] = "given up"
                         /\ t \notin lost /\ ~Durable(t) => fate'[t] = fate[t]
                         /\ fate'[t] = "handed" <=> fate[t] = "handed"
    BY <1>0, <1>3 DEF GiveUp, Fates, NoSilentLoss
  <2>3. Ledger!Lose(lost)
    BY <2>1, <2>2 DEF Ledger!Lose, Ledger!Change
  <2> QED
    BY <2>1, <2>3 DEF Ledger!Next, Ledger!Lose, Ledger!Change
<1>4. CASE /\ answer = "stored" /\ posting \in Tubes
           /\ fate' = [fate EXCEPT ![posting] = "handed"]
  <2>1. rows[posting] > 0 \/ posting \in queue
    BY <1>0, <1>4 DEF AnswerInv
  <2>2. {t \in Tubes : fate'[t] = "handed"} = {t \in Tubes : fate[t] = "handed"} \cup {posting}
    BY <1>0, <1>4
  <2>3. Ledger!Acknowledge(posting)
    BY <1>0, <1>4, <2>1, <2>2 DEF Ledger!Acknowledge
  <2> QED
    BY <1>4, <2>3 DEF Ledger!Next, Ledger!Acknowledge
<1> QED
  BY <1>1, <1>2, <1>3, <1>4

\* Every execution of the delivery is one of the ledger.
THEOREM DeliveryRefinesLedger == Spec => LedgerSpec
<1>1. Init => LedgerInv
  <2>1. Init => SeenInv
    <3> SUFFICES ASSUME Init PROVE SeenInv
      OBVIOUS
    <3>1. frame = 0 /\ \A t \in Tubes : fate[t] = "unseen" /\ FrameOf[t] > 0
      BY DEF Init, Frames
    <3> QED
      BY <3>1 DEF SeenInv
  <2> QED
    BY <2>1, SafetyInvInit, PathInvInit DEF LedgerInv
<1>2. LedgerInv /\ [Next]_vars => LedgerInv'
  BY SafetyInvStep, PathInvStep, SeenInvStep DEF LedgerInv, SafetyInv
<1>3. Init => Ledger!Init
  <2> SUFFICES ASSUME Init PROVE Ledger!Init
    OBVIOUS
  <2>1. \A t \in Tubes : ~Durable(t) /\ fate[t] = "unseen" /\ announced[t] = 0
    BY DEF Init, ApiInit, Durable
  <2> QED
    <3>1. [t \in Tubes |-> StatusOf(t)] = [t \in Tubes |-> "unseen"]
      BY <2>1 DEF StatusOf
    <3>2. {t \in Tubes : fate[t] = "handed"} = {} /\ {t \in Tubes : announced[t] > 0} = {}
      BY <2>1
    <3> QED
      BY <3>1, <3>2 DEF Ledger!Init
<1>4. LedgerInv /\ [Next]_vars => [Ledger!Next]_(Ledger!vars)
  BY FateStep, ApiRefines, WorkerRefines DEF Ledger!Next
<1> QED
  BY <1>1, <1>2, <1>3, <1>4, PTL DEF Spec, LedgerSpec, Ledger!Spec

\* What the ledger promises follows from its steps alone: a result the worker
\* has forgotten, or that was alarmed, is in the database or in the local queue,
\* and stays there.
THEOREM LedgerKeeps == LedgerSpec => []Ledger!KnownIsSafe /\ Ledger!SafeStays
<1> DEFINE status == [t \in Tubes |-> StatusOf(t)]
<1> DEFINE acked == {t \in Tubes : fate[t] = "handed"}
<1> DEFINE alarmed == {t \in Tubes : announced[t] > 0}
<1> DEFINE Kept == \A t \in acked \cup alarmed : status[t] = "safe"
<1> DEFINE Stays == /\ \A t \in Tubes : /\ status[t] = "safe" => status'[t] = "safe"
                                       /\ status'[t] = "unseen" => status[t] = "unseen"
                    /\ acked \subseteq acked' /\ alarmed \subseteq alarmed'
<1>1. Ledger!Init => Kept
  BY DEF Ledger!Init
<1>2. Ledger!Next => Stays /\ (Kept => Kept')
  <2> SUFFICES ASSUME Ledger!Next PROVE Stays /\ (Kept => Kept')
    OBVIOUS
  <2> HIDE DEF status, acked, alarmed
  <2>0. acked \subseteq Tubes /\ alarmed \subseteq Tubes
    BY DEF acked, alarmed
  <2>1. ASSUME NEW ts \in SUBSET Tubes, Ledger!Inspect(ts) \/ Ledger!Lose(ts)
        PROVE  Stays /\ (Kept => Kept')
    <3>1. /\ \A t \in ts : status[t] \in {"unseen", "held"}
          /\ status' = [t \in Tubes |-> IF t \in ts THEN "held" ELSE status[t]]
             \/ status' = [t \in Tubes |-> IF t \in ts THEN "lost" ELSE status[t]]
          /\ acked' = acked /\ alarmed' = alarmed
      BY <2>1 DEF Ledger!Inspect, Ledger!Lose, Ledger!Change, status, acked, alarmed
    <3> QED BY <2>0, <3>1
  <2>2. ASSUME NEW t \in Tubes, Ledger!Secure(t) PROVE Stays /\ (Kept => Kept')
    <3>1. /\ status' = [u \in Tubes |-> IF u \in {t} THEN "safe" ELSE status[u]]
          /\ acked' = acked /\ alarmed' = alarmed
      BY <2>2 DEF Ledger!Secure, Ledger!Change, status, acked, alarmed
    <3> QED BY <2>0, <3>1
  <2>3. ASSUME NEW t \in Tubes, Ledger!Acknowledge(t) \/ Ledger!Alarm(t)
        PROVE  Stays /\ (Kept => Kept')
    <3>1. /\ status[t] = "safe" /\ status' = status
          /\ \/ acked' = acked \cup {t} /\ alarmed' = alarmed
             \/ acked' = acked /\ alarmed' = alarmed \cup {t}
      BY <2>3 DEF Ledger!Acknowledge, Ledger!Alarm, status, acked, alarmed
    <3> QED BY <2>0, <3>1
  <2> QED BY <2>1, <2>2, <2>3 DEF Ledger!Next
<1>3. UNCHANGED Ledger!vars => Stays /\ (Kept => Kept')
  BY DEF Ledger!vars
<1>4. Kept <=> Ledger!KnownIsSafe
  BY DEF Ledger!KnownIsSafe
<1>5. [Ledger!Next]_(Ledger!vars) => [Stays]_(Ledger!vars)
  BY <1>2
<1> HIDE DEF Kept, Stays
<1> QED BY <1>1, <1>2, <1>3, <1>4, <1>5, PTL DEF LedgerSpec, Ledger!Spec, Ledger!SafeStays, Stays
=============================================================================
