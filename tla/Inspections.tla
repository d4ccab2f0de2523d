----------------------------- MODULE Inspections -----------------------------
(***************************************************************************)
(* What one trigger of the camera produces.  A frame is one photograph; a  *)
(* tube is one inspected product of it, i.e. one InspectionResult.  In     *)
(* batch mode the N tubes of a frame share the frame's images, in the      *)
(* single and crate-count modes a frame has one tube.                      *)
(*                                                                         *)
(* The number of a frame stands for inspected_at: frame f was taken before *)
(* frame f + 1.  (cam_id, lot, item_code, inspected_at, tube_index), the   *)
(* natural key of a result, is abstracted to the identity of the tube.     *)
(***************************************************************************)
EXTENDS Naturals, FiniteSets

CONSTANTS
    Tubes,      \* the inspected products
    LastFrame,  \* how many frames are taken
    FrameOf,    \* the frame a tube was seen in
    Kinds,      \* which images of a frame are stored: "raw", "result"
    NoTube      \* no tube at all

Frames == 1 .. LastFrame

ASSUME FramesAssumption ==
    /\ LastFrame \in Nat
    /\ FrameOf \in [Tubes -> Frames]
    /\ IsFiniteSet(Tubes)

ASSUME NoTubeAssumption == NoTube \notin Tubes

\* The storage key of an image, raw/<name>.jpg or result/<name>.jpg: it is
\* determined by the frame, so a later upload restores the very same path.
Keys == Frames \X Kinds

KeysOf(f) == {f} \X Kinds

TubesOf(f) == {t \in Tubes : FrameOf[t] = f}

\* No tube outside `some` is older than a tube inside it.
OldestFirst(some, all) ==
    /\ some \subseteq all
    /\ \A t \in some, u \in all \ some : FrameOf[t] <= FrameOf[u]
=============================================================================
