-------------------------- MODULE ResultSafety_proofs -------------------------
(***************************************************************************)
(* The safety of the delivery of inspection results, for every set of      *)
(* tubes and frames, every size limit and every number of drains: types,   *)
(* announced once at most and only with a row, no result lost silently.    *)
(***************************************************************************)
EXTENDS ResultDelivery, TLAPS

USE FramesAssumption, NoTubeAssumption, SpoolAssumption

-----------------------------------------------------------------------------
(* Type correctness *)

\* A key of the next frame is a key.
LEMMA KeysOfFrame == \A f \in Frames : KeysOf(f) \subseteq Keys /\ TubesOf(f) \subseteq Tubes
  BY DEF KeysOf, TubesOf, Keys

\* What the size limit leaves is made of what was there.
LEMMA EnqueueType ==
  ASSUME TypeOK, NEW t \in Tubes, NEW keys \in SUBSET Keys, Enqueue(t, keys)
  PROVE  SpoolTypeOK'
  BY DEF TypeOK, SpoolTypeOK, Enqueue, EnforceCap

\* Spooling a result, or failing to, keeps the types of the spool and the history.
LEMMA EnqueueOrLoseType ==
  ASSUME TypeOK, NEW t \in Tubes, NEW keys \in SUBSET Keys, EnqueueOrLose(t, keys)
  PROVE  SpoolTypeOK' /\ fate' \in [Tubes -> Fates]
<1>1. fate' \in [Tubes -> Fates]
  BY DEF EnqueueOrLose, GiveUp, TypeOK, Fates
<1>2. CASE Enqueue(t, keys)
  BY <1>1, <1>2, EnqueueType
<1>3. CASE UNCHANGED spoolVars
  BY <1>1, <1>3 DEF TypeOK, SpoolTypeOK, spoolVars
<1> QED
  BY <1>2, <1>3 DEF EnqueueOrLose

\* The worker stops waiting: the API's variables keep their types.
LEMMA StopWaitingType ==
  ASSUME TypeOK, StopWaiting
  PROVE  ApiTypeOK' /\ posting' \in Tubes \cup {NoTube}
<1>1. ASSUME NEW c \in calls
      PROVE  [c EXCEPT !.live = FALSE] \in Calls
  <2>1. c \in Calls
    BY DEF TypeOK, ApiTypeOK
  <2> QED
    BY <2>1 DEF Calls
<1>2. calls' \in SUBSET Calls
  BY <1>1, Zenon DEF StopWaiting
<1> QED
  BY <1>2 DEF TypeOK, ApiTypeOK, StopWaiting, Answers

\* Sending a POST adds a well-formed call.
LEMMA PostType ==
  ASSUME TypeOK, NEW t \in Tubes, Post(t)
  PROVE  ApiTypeOK' /\ posting' \in Tubes \cup {NoTube}
<1>1. Call(t, TRUE, "sent") \in Calls
  BY DEF Calls, Call
<1> QED
  BY <1>1 DEF TypeOK, ApiTypeOK, Post

\* Every step of a call of create_inspection keeps the API's types.
LEMMA HandleCallType ==
  ASSUME TypeOK, NEW c \in calls, HandleCall(c)
  PROVE  ApiTypeOK'
<1> USE DEF TypeOK, ApiTypeOK, Calls, Answers
<1>1. c \in Calls /\ c.tube \in Tubes
  OBVIOUS
<1>2. ASSUME NEW s \in {"insert", "backup", "announce"}, Move(c, s)
      PROVE  calls' \in SUBSET Calls /\ answer' \in Answers
  BY <1>1, <1>2 DEF Move
<1>3. ASSUME NEW s \in Answers, Return(c, s)
      PROVE  calls' \in SUBSET Calls /\ answer' \in Answers
  BY <1>1, <1>3 DEF Return
<1>4. ASSUME InsertRow(c.tube)
      PROVE  rows' \in [Tubes -> Nat]
  BY <1>1, <1>4 DEF InsertRow
<1>5. CASE Refuse(c)           BY <1>3, <1>5 DEF Refuse
<1>6. CASE FindNone(c)         BY <1>2, <1>6 DEF FindNone
<1>7. CASE Duplicate(c)        BY <1>3, <1>7 DEF Duplicate
<1>8. CASE Commit(c)           BY <1>2, <1>4, <1>8 DEF Commit
<1>9. CASE CommitThenRaise(c)  BY <1>2, <1>4, <1>9 DEF CommitThenRaise
<1>10. CASE DatabaseFails(c)   BY <1>2, <1>10 DEF DatabaseFails
<1>11. CASE Backup(c)          BY <1>1, <1>3, <1>11 DEF Backup
<1>12. CASE BackupFails(c)     BY <1>3, <1>12 DEF BackupFails
<1>13. CASE Announce(c)        BY <1>1, <1>3, <1>13 DEF Announce
<1>14. CASE LoseCall(c)        BY <1>14 DEF LoseCall
<1> QED
  BY <1>5, <1>6, <1>7, <1>8, <1>9, <1>10, <1>11, <1>12, <1>13, <1>14 DEF HandleCall

\* Every step of retry-queue keeps the API's types.
LEMMA DrainType ==
  ASSUME TypeOK, NEW d \in Drainers, Drain(d)
  PROVE  ApiTypeOK'
<1> USE DEF TypeOK, ApiTypeOK, Drains, IdleDrain
<1>1. drain[d] \in Drains
  OBVIOUS
<1>2. CASE DrainStart(d)
  BY <1>1, <1>2 DEF DrainStart
<1>3. CASE DrainInsert(d)
  <2>1. drain' \in [Drainers -> Drains]
    BY <1>1, <1>3 DEF DrainInsert
  <2>2. rows' \in [Tubes -> Nat]
    BY <1>1, <1>3 DEF DrainInsert, InsertRow
  <2> QED
    BY <1>3, <2>1, <2>2 DEF DrainInsert
<1>4. CASE DrainRemove(d)
  BY <1>1, <1>4 DEF DrainRemove, NextFile
<1>5. ASSUME NEW t \in Tubes, DrainSkip(d, t)
      PROVE  ApiTypeOK'
  BY <1>1, <1>5 DEF DrainSkip, NextFile
<1>6. ASSUME NEW t \in Tubes, DrainFind(d, t)
      PROVE  ApiTypeOK'
  BY <1>1, <1>6 DEF DrainFind
<1> QED
  BY <1>2, <1>3, <1>4, <1>5, <1>6 DEF Drain

\* Every step of the API, its crash included, keeps its types.
LEMMA ApiNextType ==
  ASSUME TypeOK, ApiNext
  PROVE  ApiTypeOK'
<1>1. CASE \E c \in calls : HandleCall(c)  BY <1>1, HandleCallType
<1>2. CASE \E d \in Drainers : Drain(d)    BY <1>2, DrainType
<1>3. CASE ApiCrash
  BY <1>3 DEF ApiCrash, TypeOK, ApiTypeOK, Calls, Drains, IdleDrain
<1> QED
  BY <1>1, <1>2, <1>3 DEF ApiNext

\* Every operation of the spool the flush uses keeps its types.
LEMMA SpoolStepType ==
  ASSUME TypeOK,
         \/ UNCHANGED spoolVars
         \/ \E k \in Keys : SaveImage(k) \/ UnlinkImage(k)
         \/ \E t \in Tubes : Unlink(t) \/ MoveDead(t)
         \/ \E t \in pending : Tear(t)
  PROVE  SpoolTypeOK'
<1> USE DEF TypeOK, SpoolTypeOK
<1>1. CASE UNCHANGED spoolVars
  BY <1>1 DEF spoolVars
<1>2. ASSUME NEW k \in Keys, SaveImage(k) \/ UnlinkImage(k)
      PROVE  SpoolTypeOK'
  BY <1>2 DEF SaveImage, UnlinkImage
<1>3. ASSUME NEW t \in Tubes, Unlink(t) \/ MoveDead(t)
      PROVE  SpoolTypeOK'
  BY <1>1, <1>3 DEF Unlink, MoveDead
<1>4. ASSUME NEW t \in pending, Tear(t)
      PROVE  SpoolTypeOK'
  BY <1>4 DEF Tear
<1> QED
  BY <1>1, <1>2, <1>3, <1>4

\* The history keeps its type.
LEMMA GiveUpType ==
  ASSUME TypeOK, NEW ts, GiveUp(ts)
  PROVE  fate' \in [Tubes -> Fates]
  BY DEF TypeOK, GiveUp, Fates

\* A step that leaves the API alone keeps its types.
LEMMA ApiUnchangedType == TypeOK /\ UNCHANGED apiVars => ApiTypeOK'
  BY DEF TypeOK, ApiTypeOK, apiVars

\* The worker, the spool and the API start well typed.
LEMMA TypeOKInit == Init => TypeOK
<1> SUFFICES ASSUME Init PROVE TypeOK
  OBVIOUS
<1>1. SpoolTypeOK
  BY DEF Init, SpoolInit, SpoolTypeOK
<1>2. ApiTypeOK
  BY DEF Init, ApiInit, ApiTypeOK, Answers, Drains, IdleDrain
<1> QED
  BY <1>1, <1>2 DEF Init, TypeOK, Phases, Fates

\* Every step of the system keeps every type.
LEMMA TypeOKStep == TypeOK /\ [Next]_vars => TypeOK'
<1> SUFFICES ASSUME TypeOK, [Next]_vars PROVE TypeOK'
  OBVIOUS
<1> USE DEF Phases, Fates
<1>1. CASE StartCycle
  <2>1. frame' \in Frames /\ frame' \in 0 .. LastFrame
    <3>1. frame \in 0 .. LastFrame /\ frame < LastFrame /\ frame' = frame + 1
      BY <1>1 DEF StartCycle, TypeOK
    <3>2. LastFrame \in Nat
      OBVIOUS
    <3> QED
      BY <3>1, <3>2 DEF Frames
  <2>2. left' \in SUBSET Keys /\ batch' \in SUBSET Tubes
    BY <1>1, <2>1, KeysOfFrame DEF StartCycle
  <2>3. fate' \in [Tubes -> Fates]
    BY <1>1 DEF StartCycle, TypeOK
  <2> QED
    BY <1>1, <2>1, <2>2, <2>3, SpoolStepType, ApiUnchangedType DEF StartCycle, TypeOK
<1>2. ASSUME NEW k \in left, ImageUploaded(k) \/ ImageSpooled(k) \/ ImageFails(k)
      PROVE  TypeOK'
  <2>1. k \in Keys
    BY DEF TypeOK
  <2>2. paths' \in [Frames -> SUBSET Keys] /\ remote' \in SUBSET Keys /\ spooled' \in SUBSET Keys
    <3>1. paths \in [Frames -> SUBSET Keys] /\ remote \in SUBSET Keys /\ spooled \in SUBSET Keys
      BY DEF TypeOK
    <3>2. CASE ImageUploaded(k)
      BY <2>1, <3>1, <3>2 DEF ImageUploaded
    <3>3. CASE ImageSpooled(k)
      BY <2>1, <3>1, <3>3 DEF ImageSpooled
    <3>4. CASE ImageFails(k)
      BY <2>1, <3>1, <3>4 DEF ImageFails
    <3> QED
      BY <1>2, <3>2, <3>3, <3>4
  <2>3. SpoolTypeOK'
    BY <1>2, <2>1, SpoolStepType DEF ImageUploaded, ImageSpooled, ImageFails
  <2> QED
    BY <1>2, <2>2, <2>3, ApiUnchangedType DEF ImageUploaded, ImageSpooled, ImageFails, TypeOK
<1>3. CASE ImagesSaved
  BY <1>3, SpoolStepType, ApiUnchangedType DEF ImagesSaved, historyVars, TypeOK
<1>4. ASSUME NEW t \in batch, SpoolResult(t) \/ PostResult(t)
      PROVE  TypeOK'
  <2>1. t \in Tubes /\ spooled \in SUBSET Keys
    BY DEF TypeOK
  <2>2. CASE SpoolResult(t)
    BY <2>1, <2>2, EnqueueOrLoseType, ApiUnchangedType DEF SpoolResult, TypeOK
  <2>3. CASE PostResult(t)
    BY <2>1, <2>3, PostType, SpoolStepType DEF PostResult, historyVars, TypeOK
  <2> QED
    BY <1>4, <2>2, <2>3
<1>5. CASE Delivered \/ DeliveryRefused
  <2>1. fate' \in [Tubes -> Fates]
    BY <1>5, GiveUpType DEF Delivered, DeliveryRefused, TypeOK
  <2> QED
    BY <1>5, <2>1, StopWaitingType, SpoolStepType DEF Delivered, DeliveryRefused, TypeOK
<1>6. CASE DeliveryFailed
  <2>1. posting \in Tubes
    BY <1>6 DEF DeliveryFailed, TypeOK
  <2> QED
    BY <1>6, <2>1, StopWaitingType, EnqueueOrLoseType DEF DeliveryFailed, TypeOK
<1>7. CASE BeginFlush
  <2>1. listing' \in SUBSET Tubes
    BY <1>7 DEF BeginFlush, Listings, TypeOK, SpoolTypeOK
  <2> QED
    BY <1>7, <2>1, SpoolStepType, ApiUnchangedType DEF BeginFlush, historyVars, TypeOK
<1>8. ASSUME NEW t \in listing, OpenFile(t) \/ FileCorrupt(t)
      PROVE  TypeOK'
  <2>1. t \in Tubes /\ pendingImages[t] \in SUBSET Keys
    BY DEF TypeOK, SpoolTypeOK
  <2>2. CASE OpenFile(t)
    BY <2>1, <2>2, SpoolStepType, ApiUnchangedType DEF OpenFile, historyVars, TypeOK
  <2>3. CASE FileCorrupt(t)
    BY <2>1, <2>3, SpoolStepType, GiveUpType, ApiUnchangedType DEF FileCorrupt, TypeOK
  <2> QED
    BY <1>8, <2>2, <2>3
<1>9. ASSUME NEW k \in left, ImageMissing(k) \/ ImageFlushed(k) \/ UploadFails(k)
      PROVE  TypeOK'
  <2>1. k \in Keys
    BY DEF TypeOK
  <2>2. SpoolTypeOK'
    BY <1>9, <2>1, SpoolStepType DEF ImageMissing, ImageFlushed, UploadFails
  <2>3. remote' \in SUBSET Keys
    BY <1>9, <2>1 DEF ImageMissing, ImageFlushed, UploadFails, TypeOK
  <2> QED
    BY <1>9, <2>2, <2>3, ApiUnchangedType
    DEF ImageMissing, ImageFlushed, UploadFails, Hold, historyVars, TypeOK
<1>10. CASE FlushPost
  <2>1. current \in Tubes
    BY <1>10 DEF FlushPost, TypeOK
  <2> QED
    BY <1>10, <2>1, PostType, SpoolStepType DEF FlushPost, historyVars, TypeOK
<1>11. CASE FlushSent \/ FlushRefused
  <2>1. posting \in Tubes
    BY <1>11 DEF FlushSent, FlushRefused, TypeOK
  <2>2. fate' \in [Tubes -> Fates]
    BY <1>11, GiveUpType DEF FlushSent, FlushRefused, TypeOK
  <2> QED
    BY <1>11, <2>1, <2>2, StopWaitingType, SpoolStepType
    DEF FlushSent, FlushRefused, Hold, TypeOK
<1>12. CASE FlushHeld
  BY <1>12, StopWaitingType, SpoolStepType DEF FlushHeld, Hold, historyVars, TypeOK
<1>13. CASE EndFlush
  BY <1>13, SpoolStepType, ApiUnchangedType DEF EndFlush, historyVars, TypeOK
<1>14. CASE WorkerCrash
  <2>1. SpoolTypeOK'
    BY <1>14, SpoolStepType DEF WorkerCrash
  <2> QED
    BY <1>14, <2>1, StopWaitingType, GiveUpType DEF WorkerCrash, TypeOK
<1>15. CASE ApiNext /\ UNCHANGED <<spoolVars, workerVars, historyVars, remote>>
  BY <1>15, ApiNextType, SpoolStepType DEF workerVars, historyVars, TypeOK
<1>16. CASE UNCHANGED vars
  BY <1>16, SpoolStepType, ApiUnchangedType DEF vars, workerVars, historyVars, TypeOK
<1> QED
  BY <1>1, <1>2, <1>3, <1>4, <1>5, <1>6, <1>7, <1>8, <1>9, <1>10, <1>11, <1>12, <1>13,
     <1>14, <1>15, <1>16
  DEF Next, WorkerNext, SaveImages, DeliverResults, FlushSpool

\* Every variable of the worker, the spool and the API keeps its type.
THEOREM TypeCorrect == Spec => []TypeOK
  BY TypeOKInit, TypeOKStep, PTL DEF Spec

-----------------------------------------------------------------------------
(* The inductive invariants *)

\* A call that is about to announce is the one that inserted the row, and
\* nothing has been announced for that row yet.
RowInv ==
    /\ \A t \in Tubes : rows[t] <= 1 /\ announced[t] <= rows[t]
    /\ \A c \in calls : c.stage = "announce" => rows[c.tube] = 1 /\ announced[c.tube] = 0
    /\ \A c, e \in calls :
         c.stage = "announce" /\ e.stage = "announce" /\ c.tube = e.tube => c = e

\* The worker waits for the answer about one tube; a 2xx is about a result
\* that is stored or queued; a drain removes only files that have a row.
AnswerInv ==
    /\ \A c \in calls : c.live => c.tube = posting
    /\ posting = NoTube => answer = "none"
    /\ answer = "stored" => Durable(posting)
    /\ \A d \in Drainers :
         /\ drain[d].stage \in {"insert", "remove"} => drain[d].tube \in Tubes /\ Durable(drain[d].tube)
         /\ drain[d].stage = "remove" => rows[drain[d].tube] > 0

\* What the worker posts is what it holds: a tube of the frame it delivers, or
\* the file it flushes.
WorkerInv ==
    /\ phase \notin {"save", "deliver"} => batch = {}
    /\ phase = "deliver" /\ posting # NoTube => posting \in batch /\ spooled = {}
    /\ phase = "flush" /\ posting # NoTube => posting = current /\ left = {}
    /\ phase # "flush" => current = NoTube
    /\ phase \notin {"deliver", "flush"} => posting = NoTube

SafetyInv == TypeOK /\ RowInv /\ AnswerInv /\ WorkerInv /\ NoSilentLoss

-----------------------------------------------------------------------------
(* The steps, as the API sees them *)

\* A step of the worker leaves the API alone, stops waiting or sends a request.
LEMMA ApiSteps ==
  ASSUME TypeOK, [Next]_vars
  PROVE  \/ UNCHANGED apiVars /\ UNCHANGED posting
         \/ StopWaiting
         \/ posting = NoTube /\ \E t \in Tubes : Post(t)
         \/ ApiNext /\ UNCHANGED posting
<1> USE DEF spoolVars, workerVars, historyVars
<1>1. CASE StartCycle            BY <1>1 DEF StartCycle
<1>2. CASE SaveImages            BY <1>2 DEF SaveImages, ImageUploaded, ImageSpooled, ImageFails
<1>3. CASE ImagesSaved           BY <1>3 DEF ImagesSaved
<1>4. ASSUME NEW t \in batch, SpoolResult(t) \/ PostResult(t)
      PROVE  \/ UNCHANGED apiVars /\ UNCHANGED posting
             \/ posting = NoTube /\ \E u \in Tubes : Post(u)
  <2>1. t \in Tubes
    BY DEF TypeOK
  <2> QED
    BY <1>4, <2>1 DEF SpoolResult, PostResult
<1>5. CASE Delivered \/ DeliveryRefused \/ DeliveryFailed
  BY <1>5 DEF Delivered, DeliveryRefused, DeliveryFailed
<1>6. CASE BeginFlush            BY <1>6 DEF BeginFlush
<1>7. CASE \E t \in listing : OpenFile(t) \/ FileCorrupt(t)
  BY <1>7 DEF OpenFile, FileCorrupt
<1>8. CASE \E k \in left : ImageMissing(k) \/ ImageFlushed(k) \/ UploadFails(k)
  BY <1>8 DEF ImageMissing, ImageFlushed, UploadFails
<1>9. CASE FlushPost
  <2>1. current \in Tubes
    BY <1>9 DEF FlushPost, TypeOK
  <2> QED
    BY <1>9, <2>1 DEF FlushPost
<1>10. CASE FlushSent \/ FlushRefused \/ FlushHeld
  BY <1>10 DEF FlushSent, FlushRefused, FlushHeld
<1>11. CASE EndFlush             BY <1>11 DEF EndFlush
<1>12. CASE WorkerCrash          BY <1>12 DEF WorkerCrash
<1>13. CASE ApiNext /\ UNCHANGED <<spoolVars, workerVars, historyVars, remote>>
  BY <1>13
<1>14. CASE UNCHANGED vars       BY <1>14 DEF vars
<1> QED
  BY <1>1, <1>2, <1>3, <1>4, <1>5, <1>6, <1>7, <1>8, <1>9, <1>10, <1>11, <1>12, <1>13, <1>14
  DEF Next, WorkerNext, DeliverResults, FlushSpool

\* Giving up waiting changes neither the tube nor the stage of a call.
LEMMA StopWaitingCalls ==
  ASSUME TypeOK, StopWaiting
  PROVE  /\ \A c \in calls' : /\ c.live = FALSE
                              /\ \E e \in calls : c = [e EXCEPT !.live = FALSE]
                                               /\ c.tube = e.tube /\ c.stage = e.stage
         /\ calls' \in SUBSET Calls
<1> SUFFICES ASSUME NEW c \in calls'
             PROVE  /\ c.live = FALSE
                    /\ \E e \in calls : c = [e EXCEPT !.live = FALSE]
                                     /\ c.tube = e.tube /\ c.stage = e.stage
  BY StopWaitingType DEF ApiTypeOK
<1>1. PICK e \in calls : c = [e EXCEPT !.live = FALSE]
  BY Zenon DEF StopWaiting
<1>2. e \in Calls
  BY DEF TypeOK, ApiTypeOK
<1> QED
  BY <1>1, <1>2 DEF Calls

-----------------------------------------------------------------------------
(* One row, announced once *)

\* One step of a call keeps RowInv.
LEMMA HandleCallRow ==
  ASSUME TypeOK, RowInv, NEW c \in calls, HandleCall(c)
  PROVE  RowInv'
<1> USE DEF RowInv
<1>1. c \in Calls /\ c.tube \in Tubes /\ calls \in SUBSET Calls
  BY DEF TypeOK, ApiTypeOK, Calls
<1>2. rows \in [Tubes -> Nat] /\ announced \in [Tubes -> Nat]
  BY DEF TypeOK, ApiTypeOK
<1>3. CASE UNCHANGED <<rows, announced>> /\ calls' = calls \ {c}
  BY <1>3
<1>4. ASSUME NEW s \in {"insert", "backup"}, Move(c, s), UNCHANGED <<rows, announced>>
      PROVE  RowInv'
  <2>1. [c EXCEPT !.stage = s].stage = s
    BY <1>1 DEF Calls
  <2> QED
    BY <1>4, <2>1 DEF Move
<1>5. ASSUME InsertRow(c.tube), UNCHANGED announced
      PROVE  /\ \A t \in Tubes : rows'[t] <= 1 /\ announced'[t] <= rows'[t]
             /\ rows'[c.tube] = 1 /\ announced'[c.tube] = 0
             /\ \A t \in Tubes : t # c.tube => rows'[t] = rows[t]
             /\ \A e \in calls : e.stage = "announce" => e.tube # c.tube
  BY <1>1, <1>2, <1>5 DEF InsertRow
<1>6. CASE Commit(c)
  <2>1. /\ [c EXCEPT !.stage = "announce"].stage = "announce"
        /\ [c EXCEPT !.stage = "announce"].tube = c.tube
    BY <1>1 DEF Calls
  <2>2. \A e \in calls : e.tube \in Tubes
    BY <1>1 DEF Calls
  <2> DEFINE new == [c EXCEPT !.stage = "announce"]
  <2>3. calls' = (calls \ {c}) \cup {new}
    BY <1>6 DEF Commit, Move
  <2>4. /\ \A t \in Tubes : rows'[t] <= 1 /\ announced'[t] <= rows'[t]
        /\ rows'[new.tube] = 1 /\ announced'[new.tube] = 0
        /\ \A t \in Tubes : t # new.tube => rows'[t] = rows[t]
        /\ \A e \in calls : e.stage = "announce" => e.tube # new.tube
        /\ announced' = announced
    BY <1>5, <1>6, <2>1 DEF Commit
  <2> HIDE DEF new
  <2>5. \A e \in calls' : e.stage = "announce" => rows'[e.tube] = 1 /\ announced'[e.tube] = 0
    BY <2>2, <2>3, <2>4
  <2>6. \A e, f \in calls' :
          e.stage = "announce" /\ f.stage = "announce" /\ e.tube = f.tube => e = f
    BY <2>3, <2>4
  <2> QED
    BY <2>4, <2>5, <2>6
<1>7. CASE CommitThenRaise(c)
  <2>1. [c EXCEPT !.stage = "backup"].stage = "backup"
    BY <1>1 DEF Calls
  <2>2. \A e \in calls : e.tube \in Tubes
    BY <1>1 DEF Calls
  <2> QED
    BY <1>5, <1>7, <2>1, <2>2 DEF CommitThenRaise, Move
<1>8. CASE Announce(c)
  <2>1. \A e \in calls : e.tube \in Tubes
    BY <1>1 DEF Calls
  <2> QED
    BY <1>1, <1>2, <1>8, <2>1 DEF Announce, Return
<1> QED
  BY <1>3, <1>4, <1>6, <1>7, <1>8
  DEF HandleCall, Refuse, FindNone, Duplicate, DatabaseFails, Backup, BackupFails, LoseCall, Return

\* One step of a drain keeps RowInv: the saver inserts only when there is no row.
LEMMA DrainRow ==
  ASSUME TypeOK, RowInv, AnswerInv, NEW d \in Drainers, Drain(d)
  PROVE  RowInv'
<1> USE DEF RowInv
<1>1. CASE DrainInsert(d)
  <2>1. drain[d].tube \in Tubes
    BY <1>1 DEF DrainInsert, AnswerInv
  <2>2. rows \in [Tubes -> Nat] /\ announced \in [Tubes -> Nat] /\ \A c \in calls : c.tube \in Tubes
    BY DEF TypeOK, ApiTypeOK, Calls
  <2> QED
    BY <1>1, <2>1, <2>2 DEF DrainInsert, InsertRow
<1>2. CASE UNCHANGED <<rows, announced, calls>>
  BY <1>2
<1> QED
  BY <1>1, <1>2 DEF Drain, DrainStart, DrainRemove, DrainSkip, DrainFind

\* The insert is atomic and the unique index refuses a second one.
LEMMA RowInvStep ==
  ASSUME TypeOK, RowInv, AnswerInv, [Next]_vars
  PROVE  RowInv'
<1>1. CASE UNCHANGED apiVars
  BY <1>1 DEF apiVars, RowInv
<1>2. CASE StopWaiting
  <2>1. rows' = rows /\ announced' = announced
    BY <1>2 DEF StopWaiting
  <2>2. \A c \in calls' : \E e \in calls : c = [e EXCEPT !.live = FALSE]
                                        /\ c.tube = e.tube /\ c.stage = e.stage
    BY <1>2, StopWaitingCalls
  <2>3. \A c \in calls' : c.stage = "announce" => rows'[c.tube] = 1 /\ announced'[c.tube] = 0
    BY <2>1, <2>2 DEF RowInv
  <2>4. ASSUME NEW c \in calls', NEW e \in calls',
               c.stage = "announce", e.stage = "announce", c.tube = e.tube
        PROVE  c = e
    <3>1. PICK c0 \in calls : c = [c0 EXCEPT !.live = FALSE]
                             /\ c.tube = c0.tube /\ c.stage = c0.stage
      BY <2>2
    <3>2. PICK e0 \in calls : e = [e0 EXCEPT !.live = FALSE]
                             /\ e.tube = e0.tube /\ e.stage = e0.stage
      BY <2>2
    <3>3. c0 = e0
      BY <2>4, <3>1, <3>2 DEF RowInv
    <3> QED
      BY <3>1, <3>2, <3>3
  <2> QED
    BY <2>1, <2>3, <2>4 DEF RowInv
<1>3. ASSUME NEW t \in Tubes, Post(t)
      PROVE  RowInv'
  <2>1. Call(t, TRUE, "sent").stage = "sent"
    BY DEF Call
  <2> QED
    BY <1>3, <2>1 DEF Post, RowInv
<1>4. CASE ApiNext
  <2>1. CASE ApiCrash
    BY <2>1 DEF ApiCrash, RowInv
  <2> QED
    BY <1>4, <2>1, HandleCallRow, DrainRow DEF ApiNext
<1> QED
  BY <1>1, <1>2, <1>3, <1>4, ApiSteps

-----------------------------------------------------------------------------
(* The answer the worker acts upon *)

\* What is stored or queued stays stored or queued: a drain removes a file of
\* the local queue only once its row is there.
LEMMA DurableStays ==
  ASSUME TypeOK, AnswerInv, [Next]_vars
  PROVE  \A t \in Tubes : Durable(t) => rows'[t] > 0 \/ t \in queue'
<1> USE DEF Durable
<1>1. CASE UNCHANGED <<rows, queue>>
  BY <1>1
<1>2. ASSUME NEW c \in calls, HandleCall(c)
      PROVE  \A t \in Tubes : Durable(t) => rows'[t] > 0 \/ t \in queue'
  <2>1. c.tube \in Tubes /\ rows \in [Tubes -> Nat]
    BY DEF TypeOK, ApiTypeOK, Calls
  <2>2. \A t \in Tubes : rows'[t] >= rows[t]
    BY <1>2, <2>1 DEF HandleCall, Refuse, FindNone, Duplicate, Commit, CommitThenRaise,
       DatabaseFails, Backup, BackupFails, Announce, LoseCall, InsertRow
  <2>3. queue \subseteq queue'
    BY <1>2 DEF HandleCall, Refuse, FindNone, Duplicate, Commit, CommitThenRaise,
       DatabaseFails, Backup, BackupFails, Announce, LoseCall
  <2>4. rows' \in [Tubes -> Nat]
    BY <1>2, HandleCallType DEF ApiTypeOK
  <2> QED
    BY <2>1, <2>2, <2>3, <2>4
<1>3. ASSUME NEW d \in Drainers, Drain(d)
      PROVE  \A t \in Tubes : Durable(t) => rows'[t] > 0 \/ t \in queue'
  <2>1. CASE DrainInsert(d)
    <3>1. drain[d].tube \in Tubes /\ rows \in [Tubes -> Nat]
      BY <2>1 DEF DrainInsert, AnswerInv, TypeOK, ApiTypeOK
    <3> QED
      BY <2>1, <3>1 DEF DrainInsert, InsertRow
  <2>2. CASE DrainRemove(d)
    BY <2>2 DEF DrainRemove, AnswerInv
  <2> QED
    BY <1>3, <2>1, <2>2 DEF Drain, DrainStart, DrainSkip, DrainFind
<1>4. CASE ApiCrash
  BY <1>4 DEF ApiCrash
<1> QED
  BY <1>1, <1>2, <1>3, <1>4, ApiSteps DEF apiVars, ApiNext, StopWaiting, Post

\* A call's step gives the worker a 2xx only for a result that is durable.
LEMMA HandleCallAnswer ==
  ASSUME TypeOK, RowInv, AnswerInv, [Next]_vars, NEW c \in calls, HandleCall(c), UNCHANGED posting
  PROVE  AnswerInv'
<1> USE DEF Durable
<1>1. c \in Calls /\ c.tube \in Tubes /\ calls \in SUBSET Calls /\ posting \in Tubes \cup {NoTube}
  BY DEF TypeOK, ApiTypeOK, Calls
<1>2. drain' = drain
  BY DEF HandleCall, Refuse, FindNone, Duplicate, Commit, CommitThenRaise, DatabaseFails,
     Backup, BackupFails, Announce, LoseCall
<1>3. \A t \in Tubes : Durable(t) => rows'[t] > 0 \/ t \in queue'
  BY DurableStays
<1>4. rows \in [Tubes -> Nat] /\ \A t \in Tubes : rows'[t] >= rows[t]
  <2>1. rows \in [Tubes -> Nat]
    BY DEF TypeOK, ApiTypeOK
  <2> QED
    BY <1>1, <2>1 DEF HandleCall, Refuse, FindNone, Duplicate, Commit, CommitThenRaise,
       DatabaseFails, Backup, BackupFails, Announce, LoseCall, InsertRow
<1>5. \A d \in Drainers :
        /\ drain'[d].stage \in {"insert", "remove"} => 
             /\ drain'[d].tube \in Tubes
             /\ rows'[drain'[d].tube] > 0 \/ drain'[d].tube \in queue'
        /\ drain'[d].stage = "remove" => rows'[drain'[d].tube] > 0
  <2>1. rows' \in [Tubes -> Nat]
    BY HandleCallType DEF ApiTypeOK
  <2> SUFFICES ASSUME NEW d \in Drainers
               PROVE  /\ drain[d].stage \in {"insert", "remove"} =>
                           /\ drain[d].tube \in Tubes
                           /\ rows'[drain[d].tube] > 0 \/ drain[d].tube \in queue'
                      /\ drain[d].stage = "remove" => rows'[drain[d].tube] > 0
    BY <1>2
  <2>2. drain[d].stage \in {"insert", "remove"} =>
           drain[d].tube \in Tubes /\ (rows[drain[d].tube] > 0 \/ drain[d].tube \in queue)
    BY DEF AnswerInv
  <2>3. drain[d].stage = "remove" => drain[d].tube \in Tubes /\ rows[drain[d].tube] > 0
    BY DEF AnswerInv
  <2> HIDE DEF Durable
  <2>4. \A t \in Tubes : rows[t] > 0 \/ t \in queue => rows'[t] > 0 \/ t \in queue'
    BY <1>3 DEF Durable
  <2>5. \A t \in Tubes : rows[t] > 0 => rows'[t] > 0
    BY <1>4, <2>1
  <2> QED
    BY <2>2, <2>3, <2>4, <2>5
<1>6. CASE answer' = answer
  <2>1. \A e \in calls' : e.live => e.tube = posting
    <3>1. CASE \E s \in {"insert", "backup", "announce"} : Move(c, s)
      <4>1. ASSUME NEW s \in {"insert", "backup", "announce"}
            PROVE  [c EXCEPT !.stage = s].live = c.live /\ [c EXCEPT !.stage = s].tube = c.tube
        BY <1>1 DEF Calls
      <4> QED
        BY <3>1, <4>1 DEF Move, AnswerInv
    <3>2. CASE calls' = calls \ {c}
      BY <3>2 DEF AnswerInv
    <3> QED
      BY <3>1, <3>2 DEF HandleCall, Refuse, FindNone, Duplicate, Commit, CommitThenRaise,
         DatabaseFails, Backup, BackupFails, Announce, LoseCall, Return
  <2>2. posting' = NoTube => answer' = "none"
    BY <1>6 DEF AnswerInv
  <2>3. answer' = "stored" => rows'[posting] > 0 \/ posting \in queue'
    BY <1>1, <1>3, <1>6 DEF AnswerInv
  <2> QED
    BY <1>5, <2>1, <2>2, <2>3 DEF AnswerInv
<1>7. CASE answer' # answer
  <2>1. c.live /\ calls' = calls \ {c} /\ c.tube = posting
    BY <1>7 DEF HandleCall, Refuse, FindNone, Duplicate, Commit, CommitThenRaise,
       DatabaseFails, Backup, BackupFails, Announce, LoseCall, Return, Move, AnswerInv
  <2>2. answer' = "stored" => rows'[posting] > 0 \/ posting \in queue'
    <3>1. CASE Duplicate(c)
      BY <2>1, <3>1, <1>4 DEF Duplicate, Exists
    <3>2. CASE Backup(c)
      BY <2>1, <3>2 DEF Backup
    <3>3. CASE Announce(c)
      BY <2>1, <3>3, <1>1, <1>4 DEF Announce, RowInv
    <3> QED
      BY <1>7, <2>1, <3>1, <3>2, <3>3 DEF HandleCall, Refuse, FindNone, Commit, CommitThenRaise,
         DatabaseFails, BackupFails, LoseCall, Return, Move
  <2>3. \A e \in calls' : e.live => e.tube = posting
    BY <2>1 DEF AnswerInv
  <2>4. posting # NoTube
    BY <1>1, <2>1
  <2> QED
    BY <1>5, <2>2, <2>3, <2>4 DEF AnswerInv
<1> QED
  BY <1>6, <1>7

\* One step of a drain keeps AnswerInv: only a file whose result has a row is removed.
LEMMA DrainAnswer ==
  ASSUME TypeOK, AnswerInv, [Next]_vars, NEW d \in Drainers, Drain(d), UNCHANGED posting
  PROVE  AnswerInv'
<1> USE DEF Durable
<1>1. UNCHANGED <<calls, answer>>
  BY DEF Drain, DrainStart, DrainSkip, DrainFind, DrainInsert, DrainRemove
<1>2. \A t \in Tubes : rows[t] > 0 \/ t \in queue => rows'[t] > 0 \/ t \in queue'
  BY DurableStays
<1>3. rows \in [Tubes -> Nat] /\ posting \in Tubes \cup {NoTube} /\ drain \in [Drainers -> Drains]
  BY DEF TypeOK, ApiTypeOK
<1>4. \A e \in Drainers : e # d => drain'[e] = drain[e]
  BY <1>3 DEF Drain, DrainStart, DrainSkip, DrainFind, DrainInsert, DrainRemove, NextFile
<1>5. rows' \in [Tubes -> Nat]
  BY DrainType DEF ApiTypeOK
<1>6. \A t \in Tubes : rows[t] > 0 => rows'[t] > 0
  <2>1. CASE DrainInsert(d)
    BY <1>3, <2>1 DEF DrainInsert, InsertRow, AnswerInv
  <2> QED
    BY <2>1 DEF Drain, DrainStart, DrainSkip, DrainFind, DrainRemove
<1>7. /\ drain'[d].stage \in {"insert", "remove"} =>
            /\ drain'[d].tube \in Tubes
            /\ rows'[drain'[d].tube] > 0 \/ drain'[d].tube \in queue'
      /\ drain'[d].stage = "remove" => rows'[drain'[d].tube] > 0
  <2>1. CASE DrainStart(d)
    BY <1>3, <2>1 DEF DrainStart, IdleDrain, Drains
  <2>2. CASE DrainInsert(d)
    <3>1. drain[d].tube \in Tubes
      BY <2>2 DEF DrainInsert, AnswerInv
    <3>2. drain'[d].tube = drain[d].tube
      BY <1>3, <2>2 DEF DrainInsert, Drains
    <3>3. rows'[drain[d].tube] > 0
      BY <1>3, <2>2, <3>1 DEF DrainInsert, InsertRow, Exists
    <3> QED
      BY <3>1, <3>2, <3>3
  <2>3. CASE DrainRemove(d)
    BY <1>3, <2>3 DEF DrainRemove, NextFile, IdleDrain, Drains
  <2>4. ASSUME NEW t \in Tubes, DrainSkip(d, t)
        PROVE  drain'[d].stage = "idle"
    BY <1>3, <2>4 DEF DrainSkip, NextFile
  <2>5. ASSUME NEW t \in Tubes, DrainFind(d, t)
        PROVE  /\ drain'[d].tube = t
               /\ drain'[d].stage = "remove" => rows'[t] > 0
               /\ t \in queue'
    BY <1>3, <2>5 DEF DrainFind, Exists, Drains
  <2> QED
    BY <2>1, <2>2, <2>3, <2>4, <2>5 DEF Drain
<1>8. ASSUME NEW e \in Drainers
      PROVE  /\ drain'[e].stage \in {"insert", "remove"} =>
                  /\ drain'[e].tube \in Tubes
                  /\ rows'[drain'[e].tube] > 0 \/ drain'[e].tube \in queue'
             /\ drain'[e].stage = "remove" => rows'[drain'[e].tube] > 0
  BY <1>2, <1>4, <1>6, <1>7 DEF AnswerInv
<1>9. answer' = "stored" => rows'[posting] > 0 \/ posting \in queue'
  <2>1. answer = "stored" => posting # NoTube /\ (rows[posting] > 0 \/ posting \in queue)
    BY DEF AnswerInv
  <2> QED
    BY <1>1, <1>2, <1>3, <2>1
<1> QED
  BY <1>1, <1>8, <1>9 DEF AnswerInv

\* What the worker believes about the answer is true.
LEMMA AnswerInvStep ==
  ASSUME TypeOK, RowInv, AnswerInv, [Next]_vars
  PROVE  AnswerInv'
<1> USE DEF Durable
<1>1. CASE UNCHANGED apiVars /\ UNCHANGED posting
  BY <1>1 DEF apiVars, AnswerInv
<1>2. CASE StopWaiting
  BY <1>2, StopWaitingCalls DEF StopWaiting, AnswerInv
<1>3. ASSUME NEW t \in Tubes, posting = NoTube, Post(t)
      PROVE  AnswerInv'
  <2>1. \A c \in calls : ~c.live
    BY <1>3 DEF TypeOK, ApiTypeOK, Calls, AnswerInv
  <2>2. Call(t, TRUE, "sent").tube = t
    BY DEF Call
  <2>3. answer' = "none" /\ posting' = t
    BY <1>3 DEF Post, AnswerInv
  <2>4. UNCHANGED <<rows, queue, drain>>
    BY <1>3 DEF Post
  <2>5. \A c \in calls' : c.live => c.tube = posting'
    BY <1>3, <2>1, <2>2 DEF Post
  <2> QED
    BY <2>3, <2>4, <2>5 DEF AnswerInv
<1>4. CASE ApiNext /\ UNCHANGED posting
  <2>1. CASE ApiCrash
    BY <1>4, <2>1 DEF ApiCrash, AnswerInv, IdleDrain
  <2> QED
    BY <1>4, <2>1, HandleCallAnswer, DrainAnswer DEF ApiNext
<1> QED
  BY <1>1, <1>2, <1>3, <1>4, ApiSteps

-----------------------------------------------------------------------------
(* What the worker posts, and what it keeps *)

\* Every step keeps WorkerInv: what is posted is what the worker holds.
LEMMA WorkerInvStep ==
  ASSUME TypeOK, WorkerInv, [Next]_vars
  PROVE  WorkerInv'
<1> USE DEF WorkerInv, spoolVars, workerVars, historyVars
<1>1. CASE StartCycle            BY <1>1 DEF StartCycle
<1>2. CASE SaveImages
  <2>1. phase' = phase /\ batch' = batch /\ posting' = posting /\ phase = "save" /\ current' = current
    BY <1>2 DEF SaveImages, ImageUploaded, ImageSpooled, ImageFails, NextImage
  <2> QED
    BY <2>1
<1>3. CASE ImagesSaved           BY <1>3 DEF ImagesSaved
<1>4. ASSUME NEW t \in batch, SpoolResult(t) \/ PostResult(t)
      PROVE  WorkerInv'
  BY <1>4 DEF SpoolResult, PostResult, Post
<1>5. CASE Delivered \/ DeliveryRefused \/ DeliveryFailed
  BY <1>5 DEF Delivered, DeliveryRefused, DeliveryFailed, StopWaiting
<1>6. CASE BeginFlush            BY <1>6 DEF BeginFlush
<1>7. CASE \E t \in listing : OpenFile(t) \/ FileCorrupt(t)
  BY <1>7 DEF OpenFile, FileCorrupt, NextFlushed
<1>8. CASE \E k \in left : ImageMissing(k) \/ ImageFlushed(k) \/ UploadFails(k)
  BY <1>8 DEF ImageMissing, ImageFlushed, UploadFails, NextUpload, Hold
<1>9. CASE FlushPost
  BY <1>9 DEF FlushPost, Post
<1>10. CASE FlushSent \/ FlushRefused \/ FlushHeld
  <2>1. phase' = phase /\ phase = "flush" /\ batch' = batch /\ posting' = NoTube
    BY <1>10 DEF FlushSent, FlushRefused, FlushHeld, StopWaiting
  <2> QED
    BY <2>1
<1>11. CASE EndFlush             BY <1>11 DEF EndFlush
<1>12. CASE WorkerCrash          BY <1>12 DEF WorkerCrash, StopWaiting
<1>13. CASE ApiNext /\ UNCHANGED <<spoolVars, workerVars, historyVars, remote>>
  BY <1>13
<1>14. CASE UNCHANGED vars       BY <1>14 DEF vars
<1> QED
  BY <1>1, <1>2, <1>3, <1>4, <1>5, <1>6, <1>7, <1>8, <1>9, <1>10, <1>11, <1>12, <1>13, <1>14
  DEF Next, WorkerNext, DeliverResults, FlushSpool

\* A tube is forgotten by the worker only when it is given up or handed over.
LEMMA KeptStep ==
  ASSUME TypeOK, WorkerInv, [Next]_vars, NEW t \in Tubes,
         fate[t] = "kept" => t \in batch \cup pending
  PROVE  fate'[t] = "kept" => t \in batch' \cup pending'
<1> USE DEF TypeOK, SpoolTypeOK
<1>0. ASSUME NEW ts, GiveUp(ts)
      PROVE  fate'[t] = "kept" => fate[t] = "kept" /\ t \notin ts
  BY <1>0 DEF GiveUp
<1>1. CASE StartCycle
  BY <1>1 DEF StartCycle, WorkerInv, spoolVars, TubesOf
<1>2. CASE UNCHANGED fate /\ batch' = batch /\ pending' = pending
  BY <1>2
<1>3. ASSUME NEW u \in batch, SpoolResult(u)
      PROVE  fate'[t] = "kept" => t \in batch' \cup pending'
  BY <1>0, <1>3 DEF SpoolResult, EnqueueOrLose, spoolVars
<1>4. CASE Delivered
  BY <1>4 DEF Delivered, spoolVars
<1>5. CASE DeliveryRefused
  BY <1>0, <1>5 DEF DeliveryRefused, spoolVars
<1>6. CASE DeliveryFailed
  BY <1>0, <1>6 DEF DeliveryFailed, EnqueueOrLose, spoolVars
<1>7. ASSUME NEW u \in listing, FileCorrupt(u)
      PROVE  fate'[t] = "kept" => t \in batch' \cup pending'
  BY <1>0, <1>7 DEF FileCorrupt, MoveDead, spoolVars
<1>8. CASE FlushSent
  BY <1>8 DEF FlushSent, Unlink
<1>9. CASE FlushRefused
  BY <1>0, <1>9 DEF FlushRefused, MoveDead, spoolVars
<1>10. CASE WorkerCrash
  BY <1>0, <1>10 DEF WorkerCrash, spoolVars, Tear
<1>11. ASSUME NEW k \in left, ImageUploaded(k) \/ ImageSpooled(k) \/ ImageFails(k)
       PROVE  UNCHANGED fate /\ batch' = batch /\ pending' = pending
  BY <1>11 DEF ImageUploaded, ImageSpooled, ImageFails, SaveImage, spoolVars
<1>12. ASSUME NEW k \in left, ImageMissing(k) \/ ImageFlushed(k) \/ UploadFails(k)
       PROVE  UNCHANGED fate /\ batch' = batch /\ pending' = pending
  BY <1>12 DEF ImageMissing, ImageFlushed, UploadFails, UnlinkImage, spoolVars, historyVars
<1>13. CASE \/ ImagesSaved \/ BeginFlush \/ FlushPost \/ FlushHeld \/ EndFlush
            \/ \E u \in batch : PostResult(u)
            \/ \E u \in listing : OpenFile(u)
  BY <1>13 DEF ImagesSaved, BeginFlush, FlushPost, FlushHeld, EndFlush, PostResult, OpenFile,
     spoolVars, historyVars
<1>14. CASE ApiNext /\ UNCHANGED <<spoolVars, workerVars, historyVars, remote>>
  BY <1>14 DEF spoolVars, workerVars, historyVars
<1>15. CASE UNCHANGED vars
  BY <1>15 DEF vars, spoolVars, workerVars, historyVars
<1> QED
  BY <1>1, <1>2, <1>3, <1>4, <1>5, <1>6, <1>7, <1>8, <1>9, <1>10, <1>11, <1>12, <1>13, <1>14, <1>15
  DEF Next, WorkerNext, SaveImages, DeliverResults, FlushSpool

\* Only a 2xx makes a tube handed over.
LEMMA HandedStep ==
  ASSUME TypeOK, [Next]_vars, NEW t \in Tubes, fate'[t] = "handed", fate[t] # "handed"
  PROVE  answer = "stored" /\ t = posting
<1> USE DEF TypeOK
<1>0. ASSUME NEW ts, GiveUp(ts)
      PROVE  FALSE
  BY <1>0 DEF GiveUp
<1>1. CASE UNCHANGED fate
  BY <1>1
<1>2. CASE StartCycle
  BY <1>2 DEF StartCycle
<1>3. CASE Delivered \/ FlushSent
  BY <1>3 DEF Delivered, FlushSent
<1>4. CASE \E u \in batch : SpoolResult(u)
  BY <1>0, <1>4 DEF SpoolResult, EnqueueOrLose
<1>5. CASE DeliveryRefused \/ DeliveryFailed \/ FlushRefused \/ WorkerCrash
  BY <1>0, <1>5 DEF DeliveryRefused, DeliveryFailed, FlushRefused, WorkerCrash, EnqueueOrLose
<1>6. CASE \E u \in listing : FileCorrupt(u)
  BY <1>0, <1>6 DEF FileCorrupt
<1>7. CASE SaveImages
  BY <1>1, <1>7 DEF SaveImages, ImageUploaded, ImageSpooled, ImageFails
<1>8. CASE \/ ImagesSaved \/ BeginFlush \/ FlushPost \/ FlushHeld \/ EndFlush
           \/ \E u \in batch : PostResult(u)
           \/ \E u \in listing : OpenFile(u)
           \/ \E k \in left : ImageMissing(k) \/ ImageFlushed(k) \/ UploadFails(k)
  BY <1>1, <1>8 DEF ImagesSaved, BeginFlush, FlushPost, FlushHeld, EndFlush, PostResult, OpenFile,
     ImageMissing, ImageFlushed, UploadFails, historyVars
<1>9. CASE ApiNext /\ UNCHANGED <<spoolVars, workerVars, historyVars, remote>>
  BY <1>1, <1>9 DEF historyVars
<1>10. CASE UNCHANGED vars
  BY <1>1, <1>10 DEF vars, historyVars
<1> QED
  BY <1>2, <1>3, <1>4, <1>5, <1>6, <1>7, <1>8, <1>9, <1>10
  DEF Next, WorkerNext, DeliverResults, FlushSpool

\* Every step keeps NoSilentLoss, for the held results and the handed ones.
LEMMA NoSilentLossStep ==
  ASSUME TypeOK, AnswerInv, WorkerInv, NoSilentLoss, [Next]_vars
  PROVE  NoSilentLoss'
<1> SUFFICES ASSUME NEW t \in Tubes
             PROVE  /\ fate'[t] = "kept" => t \in batch' \cup pending'
                    /\ fate'[t] = "handed" => rows'[t] > 0 \/ t \in queue'
  BY DEF NoSilentLoss, Durable
<1>1. fate'[t] = "kept" => t \in batch' \cup pending'
  BY KeptStep DEF NoSilentLoss
<1>2. fate'[t] = "handed" => Durable(t)
  BY HandedStep DEF NoSilentLoss, AnswerInv
<1> QED
  BY <1>1, <1>2, DurableStays

-----------------------------------------------------------------------------
(* The theorems *)

\* The inductive invariant holds at the start.
LEMMA SafetyInvInit == Init => SafetyInv
<1> SUFFICES ASSUME Init PROVE SafetyInv
  OBVIOUS
<1>1. TypeOK
  BY TypeOKInit
<1>2. RowInv /\ AnswerInv
  BY DEF Init, ApiInit, IdleDrain, RowInv, AnswerInv
<1>3. WorkerInv
  BY DEF Init, WorkerInv
<1>4. NoSilentLoss
  BY DEF Init, NoSilentLoss
<1> QED
  BY <1>1, <1>2, <1>3, <1>4 DEF SafetyInv

\* Every step keeps the inductive invariant.
LEMMA SafetyInvStep == SafetyInv /\ [Next]_vars => SafetyInv'
  BY TypeOKStep, RowInvStep, AnswerInvStep, WorkerInvStep, NoSilentLossStep DEF SafetyInv

\* Every execution keeps the inductive invariant.
THEOREM SafetyInvHolds == Spec => []SafetyInv
  BY SafetyInvInit, SafetyInvStep, PTL DEF Spec

\* A result is announced once at most, and only when it has a row.
THEOREM OneAnnouncement == Spec => []AnnouncedOnce
<1>1. SafetyInv => AnnouncedOnce
  <2> SUFFICES ASSUME SafetyInv, NEW t \in Tubes
               PROVE  announced[t] <= rows[t] /\ announced[t] <= 1
    BY DEF AnnouncedOnce
  <2>1. rows[t] \in Nat /\ announced[t] \in Nat
    BY DEF SafetyInv, TypeOK, ApiTypeOK
  <2> QED
    BY <2>1 DEF SafetyInv, RowInv
<1> QED
  BY <1>1, SafetyInvHolds, PTL

\* The worker never forgets a result it still answers for, and forgets one
\* after a 2xx only if the database or the local queue has it.
THEOREM NothingLostSilently == Spec => []NoSilentLoss
  BY SafetyInvHolds, PTL DEF SafetyInv
=============================================================================
