------------------------------ MODULE SpoolQueue ------------------------------
(***************************************************************************)
(* The worker's disk buffer (services/vision/worker/spool.py): results the *)
(* API did not take wait in pending/, images the storage did not take wait *)
(* in images/, results that can never be sent are put aside in dead/.      *)
(*                                                                         *)
(* The worker's thread is the only one that touches it, so an operation is *)
(* a fragment of a worker action (module ResultDelivery conjoins it with   *)
(* the worker's own variables).  Files survive a crash.                    *)
(*                                                                         *)
(* Sizes are counted in units: a JSON file takes 1, an image ImageUnits.   *)
(***************************************************************************)
EXTENDS Inspections

CONSTANTS
    MaxUnits,    \* AIVIS_SPOOL_MAX_MB
    ImageUnits,  \* the size of an image, in JSON files
    FlushBatch   \* AIVIS_SPOOL_FLUSH_BATCH

ASSUME SpoolAssumption ==
    /\ MaxUnits \in Nat
    /\ ImageUnits \in Nat
    /\ FlushBatch \in Nat \ {0}

VARIABLES
    pending,        \* tubes with a file in pending/
    pendingImages,  \* "_pending_images" of that file: keys to upload first
    corrupt,        \* pending files whose JSON cannot be read back
    images,         \* keys with a file in images/
    dead,           \* tubes with a file in dead/
    dropped         \* history: tubes the size limit removed from pending/

spoolVars == <<pending, pendingImages, corrupt, images, dead, dropped>>

SpoolTypeOK ==
    /\ pending \in SUBSET Tubes
    /\ pendingImages \in [Tubes -> SUBSET Keys]
    /\ corrupt \in SUBSET pending
    /\ images \in SUBSET Keys
    /\ dead \in SUBSET Tubes
    /\ dropped \in SUBSET Tubes

SpoolInit ==
    /\ pending = {}
    /\ pendingImages = [t \in Tubes |-> {}]
    /\ corrupt = {}
    /\ images = {}
    /\ dead = {}
    /\ dropped = {}

-----------------------------------------------------------------------------
(* Size limit *)

Units(p, i, d) == Cardinality(p) + ImageUnits * Cardinality(i) + Cardinality(d)

\* The image files the readable ones among the files of ts refer to.
ImagesOf(ts, keysOf) == UNION {keysOf[t] : t \in ts \ corrupt}

\* _enforce_cap, run on pending files p: while the spool is over its limit,
\* the oldest pending file goes with the images it refers to, and when no
\* pending file is left the oldest dead files go.  gone is the set of files
\* removed: the removal stops at the first moment the spool fits, so without
\* its last victim the spool was still over the limit.  Among the tubes of
\* one frame the order is left open (the names differ in a "-N" suffix only).
EnforceCap(p, keysOf) ==
    \E gone \in SUBSET p, goneDead \in SUBSET dead :
        LET Over(g, gd) ==
                Units(p \ g, images \ ImagesOf(g, keysOf), dead \ gd) > MaxUnits
        IN  /\ OldestFirst(gone, p)
            /\ OldestFirst(goneDead, dead)
            /\ Over(gone, goneDead) => gone = p /\ goneDead = dead
            /\ gone # {} =>
                 \E last \in gone : OldestFirst(gone \ {last}, p) /\ Over(gone \ {last}, {})
            /\ goneDead # {} =>
                 /\ gone = p
                 /\ \E last \in goneDead :
                        OldestFirst(goneDead \ {last}, dead) /\ Over(p, goneDead \ {last})
            /\ pending' = p \ gone
            /\ images' = images \ ImagesOf(gone, keysOf)
            /\ dead' = dead \ goneDead
            /\ dropped' = dropped \cup gone

-----------------------------------------------------------------------------
(* Operations *)

\* enqueue: write the file (atomically), then enforce the size limit, which
\* may remove the very file that was just written.
Enqueue(t, keys) ==
    LET keysOf == [pendingImages EXCEPT ![t] = keys]
    IN  /\ pendingImages' = keysOf
        /\ EnforceCap(pending \cup {t}, keysOf)
        /\ corrupt' = corrupt \cap pending'

\* save_image: keep the bytes of an image the storage did not take.
SaveImage(k) ==
    /\ images' = images \cup {k}
    /\ UNCHANGED <<pending, pendingImages, corrupt, dead, dropped>>

\* The files one flush will try: the FlushBatch oldest pending ones.
Listings ==
    {l \in SUBSET pending :
        /\ OldestFirst(l, pending)
        /\ IF Cardinality(pending) <= FlushBatch THEN l = pending
                                                 ELSE Cardinality(l) = FlushBatch}

\* flush, after a 2xx: remove the file.  A failing unlink is ignored.
Unlink(t) ==
    /\ pending' \in {pending, pending \ {t}}
    /\ corrupt' = corrupt \cap pending'
    /\ UNCHANGED <<pendingImages, images, dead, dropped>>

\* _move_dead: put the file aside; when the move fails, delete it; when that
\* fails too, leave it.
MoveDead(t) ==
    \/ /\ pending' = pending \ {t}
       /\ corrupt' = corrupt \ {t}
       /\ dead' \in {dead, dead \cup {t}}
       /\ UNCHANGED <<pendingImages, images, dropped>>
    \/ UNCHANGED spoolVars

\* _upload_pending_images, after an upload: remove the image file.  A
\* failing unlink is ignored here too.
UnlinkImage(k) ==
    /\ images' \in {images, images \ {k}}
    /\ UNCHANGED <<pending, pendingImages, corrupt, dead, dropped>>

\* A power cut leaves the file of t unreadable: _atomic_write renames a file
\* it flushed but did not sync to the disk.
Tear(t) ==
    /\ corrupt' = corrupt \cup {t}
    /\ UNCHANGED <<pending, pendingImages, images, dead, dropped>>
=============================================================================
