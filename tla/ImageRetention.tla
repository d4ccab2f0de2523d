---------------------------- MODULE ImageRetention ----------------------------
(***************************************************************************)
(* How pictures are thrown away so that the disk never fills               *)
(* (services/api/core/retention.py, and the loop in services/api/main.py   *)
(* that calls it): what is too old goes first; when there is still too     *)
(* little room, pictures go one by one, the least valuable ones first -    *)
(* as far as the folders and the files can be read.                        *)
(*                                                                         *)
(* A picture takes one unit of room, time passes in days, and what else    *)
(* lies on the disk is part of Capacity.                                   *)
(***************************************************************************)
EXTENDS Integers, FiniteSets

CONSTANTS
    Capacity,    \* pictures the disk has room for
    MinFree,     \* min_free_mb: less room than this is an emergency
    RawDays, OkDays, NgDays, ReviewDays,   \* how long pictures are kept
    MaxAge       \* ages are not told apart beyond this

ASSUME RetentionAssumption ==
    /\ Capacity \in Nat /\ MinFree \in Int
    /\ {RawDays, OkDays, NgDays, ReviewDays} \subseteq Int
    /\ MaxAge \in Nat /\ \A d \in {RawDays, OkDays, NgDays, ReviewDays} : d < MaxAge

VARIABLES
    age,       \* the pictures on the disk, with the days since they were written
    cleaner    \* the thread that cleans up: its step, the pictures of the bucket
               \* it works on, those of the buckets to come, and whether it could
               \* not read how much room there is

retentionVars == <<age, cleaner>>

Folders == {"raw", "result", "review"}
At(step, items, list) == [step |-> step, items |-> items, list |-> list, blind |-> FALSE]
Idle == At("idle", {}, {})
Booted == At("expire", {}, {})

\* A picture is known by the shot it is of, its folder, and the verdict at
\* the end of its name (_is_ng).
IsPicture(n) == n.dir \in Folders /\ n.verdict \in {"OK", "NG"}

RetentionTypeOK ==
    /\ \A n \in DOMAIN age : IsPicture(n) /\ age[n] \in 0 .. MaxAge
    /\ cleaner.step \in {"idle", "expire", "check", "bucket", "drop"}
    /\ \A n \in cleaner.items \cup cleaner.list : IsPicture(n)
    /\ cleaner.blind \in BOOLEAN

RetentionInit == age = [n \in {} |-> 0] /\ cleaner = Booted

FreeRoom == Capacity - Cardinality(DOMAIN age)

Without(gone) == [n \in DOMAIN age \ gone |-> age[n]]

\* cleanup_images, _expired: the days a picture is kept, 0 for ever.
KeptFor(n) ==
    CASE n.dir = "raw"    -> RawDays
      [] n.dir = "result" -> IF n.verdict = "NG" THEN NgDays ELSE OkDays
      [] n.dir = "review" -> ReviewDays

Expired(n) == KeptFor(n) > 0 /\ age[n] > KeptFor(n)

\* Faulty variant: results are one bucket, whatever their verdict.
BucketByFolder(n) ==
    CASE n.dir = "raw" -> 1 [] n.dir = "result" -> 2 [] n.dir = "review" -> 4

\* The order of the buckets: originals, good results, bad results, copies to
\* look at again.
Bucket(n) ==
    CASE n.dir = "raw"    -> 1
      [] n.dir = "result" -> IF n.verdict = "NG" THEN 3 ELSE 2
      [] n.dir = "review" -> 4

Buckets == 1 .. 4

\* The pictures of the lowest bucket, and the oldest pictures.
Lowest(list) == {n \in list : \A m \in list : Bucket(n) <= Bucket(m)}
Oldest(items) == {n \in items : \A m \in items : age[n] >= age[m]}

-----------------------------------------------------------------------------
(* Steps *)

\* The worker writes pictures.
Write(names) ==
    age' = [n \in DOMAIN age \cup names |-> IF n \in names THEN 0 ELSE age[n]]

NewDay ==
    /\ age' = [n \in DOMAIN age |-> IF age[n] < MaxAge THEN age[n] + 1 ELSE MaxAge]
    /\ UNCHANGED cleaner

\* _retention_loop wakes up.
WakeCleaner ==
    /\ cleaner.step = "idle"
    /\ cleaner' = Booted
    /\ UNCHANGED age

\* What is too old is deleted; a file that cannot be is left (_delete).
Expire(stuck) ==
    /\ cleaner.step = "expire"
    /\ stuck \subseteq {n \in DOMAIN age : Expired(n)}
    /\ age' = Without({n \in DOMAIN age : Expired(n)} \ stuck)
    /\ cleaner' = [cleaner EXCEPT !.step = "check"]

\* _free_mb: the room, or none when it cannot be read.
RoomRead(fails) == IF fails THEN 0 ELSE FreeRoom

\* Too little room: the pictures there are now are listed, but for those of a
\* folder that cannot be read (_iter_files).
CheckRoom(fails, unread) ==
    /\ cleaner.step = "check"
    /\ cleaner' = IF MinFree > 0 /\ RoomRead(fails) < MinFree
                  THEN At("bucket", {}, {n \in DOMAIN age : Bucket(n) \notin unread})
                  ELSE Idle
    /\ UNCHANGED age

\* The next bucket of the list, unless there is room.  One that cannot be
\* sorted, as the time of one of its files cannot be read, is passed over.
OpenBucket(fails, unsorted) ==
    /\ cleaner.step = "bucket"
    /\ cleaner' =
          IF cleaner.list = {} \/ RoomRead(fails) >= MinFree THEN Idle
          ELSE LET items == Lowest(cleaner.list)
                   rest == cleaner.list \ items
               IN  IF unsorted THEN At("bucket", {}, rest) ELSE At("drop", items, rest)
    /\ UNCHANGED age

\* One picture of the bucket goes, unless there is room by now; then the rest
\* of this bucket stays.
DropOne(fails, sticks) ==
    /\ cleaner.step = "drop"
    /\ IF cleaner.items = {} \/ RoomRead(fails) >= MinFree
       THEN cleaner' = At("bucket", {}, cleaner.list) /\ UNCHANGED age
       ELSE \E n \in Oldest(cleaner.items) :
               /\ age' = IF sticks THEN age ELSE Without({n})
               /\ cleaner' = [cleaner EXCEPT !.items = @ \ {n}, !.blind = fails]

\* The thread lives in the API: it ends with it, and cleans up at its start.
CleanerRestarts == cleaner' = Booted /\ UNCHANGED age
=============================================================================
