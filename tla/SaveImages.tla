------------------------------ MODULE SaveImages ------------------------------
(***************************************************************************)
(* Saving the pictures of a frame (services/vision/imaging/save.py,        *)
(* storage.py): the original, the overlay and, for a result to be          *)
(* reviewed, its copy - to the local disk or to remote storage with a      *)
(* spool behind it, and once more to the NAS archive.                      *)
(***************************************************************************)
EXTENDS NasArchive

CONSTANTS
    Frames,         \* frames inspected, each saved once
    PictureOf       \* the picture of a frame: [Frames -> [Kinds -> Pictures]]

VARIABLE saves      \* how the save of each frame has ended

vars == <<archiveVars, saves>>

Kinds == {"raw", "result", "review"}

\* A name has the camera, the time, the verdict and the folder in it.
ASSUME PicturesAssumption ==
    /\ PictureOf \in [Frames -> [Kinds -> Pictures]]
    /\ \A f, g \in Frames, k, l \in Kinds :
           PictureOf[f][k] = PictureOf[g][l] => f = g /\ k = l

\* from_env and build_backend: a remote backend without its address is local.
Backend(wanted, address) == IF address THEN wanted ELSE "local"

\* AIVIS_STORAGE_BACKEND, AIVIS_REMOTE_RAW.
Backends == {Backend(b, a) : b \in {"local", "remote"}, a \in BOOLEAN}
Policies == {"all", "ng", "none"}

\* keep_remote_raw: by the policy, or forced by a lot made for training.
KeepsRaw(policy, ng, review, training) ==
    policy = "all" \/ training \/ (policy = "ng" /\ (ng \/ review))

\* The keys in the order in which they are handed to the archive.
AllKeys(review) == IF review THEN <<"raw", "result", "review">> ELSE <<"raw", "result">>

\* "saved": without an error; "copied": with a copy for the review.
Ends == {"none", "failed", "saved", "copied"}
Ended(error, review) == IF error THEN "failed" ELSE IF review THEN "copied" ELSE "saved"

Answer(error, archived, review) == [end |-> Ended(error, review), archived |-> archived]

\* _save_pair_via_backend: the original is archived before its upload, the rest
\* after it; an upload that neither the storage nor the spool takes (_put_or_spool)
\* ends the save.  The copy for the review is uploaded at best effort.
RemoteSave(keep, rawFails, resultFails, review) ==
    IF keep /\ rawFails THEN Answer(TRUE, <<"raw">>, review)
    ELSE Answer(resultFails, AllKeys(review), review)

\* save_inspection_images, _save_pair_local: the archive comes last.
LocalSave(rawFails, resultFails, review) ==
    IF rawFails \/ resultFails THEN Answer(TRUE, <<>>, review)
    ELSE Answer(FALSE, AllKeys(review), review)

SaveOutcomes(ng, review, training) ==
    UNION {IF backend = "remote"
           THEN {RemoteSave(KeepsRaw(policy, ng, review, training), raw, result, review) :
                     policy \in Policies, raw \in BOOLEAN, result \in BOOLEAN}
           ELSE {LocalSave(raw, result, review) : raw \in BOOLEAN, result \in BOOLEAN}
           : backend \in Backends}

TypeOK ==
    /\ ArchiveTypeOK
    /\ saves \in [Frames -> Ends]

Init ==
    /\ ArchiveInit
    /\ saves = [f \in Frames |-> "none"]

\* One save; the pictures are submitted while the thread works on.
Save(f, ng, review, training) ==
    /\ saves[f] = "none"
    /\ todo = <<>>
    /\ \E answer \in SaveOutcomes(ng, review, training) :
        /\ saves' = [saves EXCEPT ![f] = answer.end]
        /\ todo' = [i \in 1 .. Len(answer.archived) |-> PictureOf[f][answer.archived[i]]]
    /\ UNCHANGED <<q, thread, spool, bytes, pending, dropped, mounted, nas,
                   misplaced, lost, crashes, unmounts, unseen>>

Next ==
    \/ \E f \in Frames, ng, review, training \in BOOLEAN : Save(f, ng, review, training)
    \/ ArchiveNext /\ UNCHANGED saves

Spec == Init /\ [][Next]_vars

\* The background thread never ends and looks at the spool every retry_s
\* seconds, whatever waits in the queue; from some time on the drive stays
\* mounted and no write fails.
FairSpec ==
    /\ Spec
    /\ WF_vars(ThreadNext /\ UNCHANGED saves)
    /\ SF_vars(RetryStart /\ UNCHANGED saves)
    /\ <>[]mounted
    /\ <>[][~ThreadFails]_vars

-----------------------------------------------------------------------------
(* Properties *)

Handed(p) ==
    p \in ToSet(todo) \cup ToSet(q) \cup InHand \cup spool \cup nas
        \cup misplaced \cup dropped \cup lost

\* A frame saved without an error has all its pictures in the archive's care,
\* whatever the policy of the uploads says, and none vanishes from there: each
\* is in memory, spooled, on the drive, or known to be given up or lost with
\* the process (save_inspection_images, _handle, retry_spool).
SavedIsArchived ==
    \A f \in Frames : saves[f] \in {"saved", "copied"} =>
        \A k \in ToSet(AllKeys(saves[f] = "copied")) : Handed(PictureOf[f][k])
=============================================================================
