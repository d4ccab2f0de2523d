----------------------------- MODULE TubeVerdict -----------------------------
(***************************************************************************)
(* What one picture of the station comes to: the verdict on every tube     *)
(* (services/vision/pipeline.py, verdict/combine.py), the verdict on the   *)
(* whole frame (multi/batch.py, worker/runner.py), the rows that are sent  *)
(* and the names under which the pictures are filed (imaging/save.py).     *)
(*                                                                         *)
(* A reading is what the camera shows of one tube, as far as the verdicts  *)
(* tell readings apart: where its length lies in the tolerance, which      *)
(* surface scores pass their thresholds, whether one of them is close to   *)
(* it, whether the anomaly model finds it odd, and the step that raises.   *)
(***************************************************************************)
EXTENDS Naturals, Sequences, FiniteSets

CONSTANT SurfaceCodes   \* OIL, DIS, SCR

ASSUME CodesDiffer == SurfaceCodes \cap {"LEN", "COUNT", "MULTI"} = {}

Stages == {"CUT_LENGTH", "POST_WASH_SURFACE", "CRATE_COUNT"}

\* STAGE_CODES: a stage answers one question.
CodesForStage(stage) ==
    CASE stage = "CUT_LENGTH" -> {"LEN"}
      [] stage = "POST_WASH_SURFACE" -> SurfaceCodes
      [] stage = "CRATE_COUNT" -> {"COUNT"}

SeesLength(stage) == "LEN" \in CodesForStage(stage)
SeesSurface(stage) == CodesForStage(stage) \cap SurfaceCodes # {}

\* Around the tolerance lies a band in which a person looks again.
Lengths == {"within", "nearly out", "just out", "out", "no edge"}
RaisingSteps == {"none", "lens", "preprocess", "gauge", "length", "surface"}

Readings == [raises : RaisingSteps, length : Lengths, defects : SUBSET SurfaceCodes,
             near : BOOLEAN, odd : BOOLEAN]

\* A shot: its stage, the number of tubes the master data expects, what is
\* seen of those that are found, whether their number is certain, and the lot
\* and the work order it is taken for.
IsShot(s) ==
    /\ s.stage \in Stages
    /\ s.expected \in Nat \ {0}
    /\ s.tubes \in Seq(Readings)
    /\ s.expected = 1 /\ s.stage # "CRATE_COUNT" => Len(s.tubes) = 1
    /\ s.sure \in BOOLEAN

-----------------------------------------------------------------------------
(* One tube *)

\* _error_verdict: nothing could be measured, and still there is a verdict.
ErrorVerdict == [final |-> "NG", codes |-> {"MULTI"}, review |-> TRUE]

\* LengthResult.length_verdict
LengthNg(r) == r.raises = "length" \/ r.length \in {"just out", "out", "no edge"}

\* combine_verdict: the codes of the stage, and MULTI for two of them.
CombinedCodes(r, stage) ==
    LET found == {c \in CodesForStage(stage) :
                    \/ c = "LEN" /\ LengthNg(r)
                    \/ c \in r.defects /\ r.raises # "surface"}
    IN  IF Cardinality(found) >= 2 THEN found \cup {"MULTI"} ELSE found

\* combine_verdict: close to a threshold, no edge, or low confidence - which
\* is a closer band around the same thresholds.
Borderline(r, stage) ==
    \/ SeesLength(stage) /\ (r.raises = "length"
                               \/ r.length \in {"nearly out", "just out", "no edge"})
    \/ SeesSurface(stage) /\ r.raises # "surface" /\ (r.near \/ r.odd)

\* A step of this stage raised: its error is kept and the tube goes on.
Failed(r, stage) ==
    \/ SeesLength(stage) /\ r.raises \in {"length", "gauge"}
    \/ SeesSurface(stage) /\ r.raises = "surface"
    \/ r.raises = "lens"

\* Without a frame that can be used there is nothing to go on with.  Among
\* several tubes the lens is corrected once, before the tubes are cut out.
Unusable(r, several) == r.raises = "preprocess" \/ (r.raises = "lens" /\ ~several)

\* Faulty variant: a step that raised counts only by the codes it left.
JudgedByCodes(r, stage, several) ==
    LET codes == CombinedCodes(r, stage)
    IN  IF Unusable(r, several) THEN ErrorVerdict
        ELSE [final  |-> IF codes # {} THEN "NG" ELSE "OK",
              codes  |-> codes,
              review |-> Failed(r, stage) \/ Borderline(r, stage)]

\* _run_core: an error is NG and is looked at again.
Judged(r, stage, several) ==
    LET codes == CombinedCodes(r, stage)
    IN  IF Unusable(r, several) THEN ErrorVerdict
        ELSE [final  |-> IF codes # {} \/ Failed(r, stage) THEN "NG" ELSE "OK",
              codes  |-> codes,
              review |-> Failed(r, stage) \/ Borderline(r, stage)]

-----------------------------------------------------------------------------
(* The frame *)

IsCount(s) == s.stage = "CRATE_COUNT"
Several(s) == s.expected > 1 /\ ~IsCount(s)
Detected(s) == Len(s.tubes)

\* inspect_batch: tubes of an uncertain number are all looked at again.
Verdicts(s) ==
    [i \in DOMAIN s.tubes |->
        LET v == Judged(s.tubes[i], s.stage, Several(s))
        IN  [v EXCEPT !.review = @ \/ (Several(s) /\ ~s.sure)]]

NgCount(s) == Cardinality({i \in DOMAIN s.tubes : Verdicts(s)[i].final = "NG"})

\* _run_once_count
CountVerdict(s) == IF Detected(s) # s.expected THEN "NG" ELSE "OK"

\* BatchResult.batch_verdict
BatchVerdict(s) ==
    IF Detected(s) > 0 /\ NgCount(s) = 0 /\ Detected(s) = s.expected /\ s.sure
    THEN "OK" ELSE "NG"

\* The verdict in the names of the pictures.
FrameVerdict(s) ==
    IF IsCount(s) THEN CountVerdict(s)
    ELSE IF Several(s) THEN BatchVerdict(s) ELSE Verdicts(s)[1].final

FrameReview(s) ==
    IF IsCount(s) THEN CountVerdict(s) = "NG"
    ELSE \E i \in DOMAIN s.tubes : Verdicts(s)[i].review

\* TowerLight.signal(ng)
TowerRed(s) ==
    IF IsCount(s) THEN Detected(s) # s.expected
    ELSE IF Several(s) THEN NgCount(s) > 0 \/ Detected(s) # s.expected \/ ~s.sure
    ELSE Verdicts(s)[1].final = "NG"

-----------------------------------------------------------------------------
(* The rows and the pictures *)

\* InspectionResult, as far as the figures look at it.
Row(s, final, codes, review, count) ==
    [stage |-> s.stage, lot |-> s.lot, order |-> s.order, final |-> final,
     codes |-> codes, review |-> review, manual |-> "none", count |-> count]

CountRow(s) ==
    Row(s, CountVerdict(s), IF CountVerdict(s) = "NG" THEN {"COUNT"} ELSE {},
        CountVerdict(s) = "NG", Detected(s))

\* to_inspection_result and tube_to_inspection
TubeRow(s, v) == Row(s, v.final, v.codes, v.review, 0)

RowsOf(s) ==
    IF IsCount(s) THEN <<CountRow(s)>>
    ELSE [i \in DOMAIN s.tubes |-> TubeRow(s, Verdicts(s)[i])]

\* save_raw, save_result: the original, the result, and a copy to look at.
PicturesOf(s) ==
    [dir : {"raw", "result"} \cup (IF FrameReview(s) THEN {"review"} ELSE {}),
     verdict : {FrameVerdict(s)}]
=============================================================================
