-------------------------- MODULE SiteServer_proofs --------------------------
(***************************************************************************)
(* Proofs about one site, for every set of readings and shots, every size  *)
(* of the disk, every number of versions and of processes of the script.   *)
(***************************************************************************)
EXTENDS SiteServer, FiniteSetTheorems, TLAPS

AllShots == UNION {Menus[menu] : menu \in DOMAIN Menus}

-----------------------------------------------------------------------------
(* The verdicts *)

\* The run judges every tube that is bad, or cannot be measured, NG, and asks
\* for a person where it could not measure.
LEMMA BadTubeIsJudged ==
    ASSUME NEW r \in Readings, NEW stage \in Stages, stage # "CRATE_COUNT",
           NEW several \in BOOLEAN, BadTube(r, stage)
    PROVE  /\ Judged(r, stage, several).final = "NG"
           /\ Unmeasured(r, stage) => Judged(r, stage, several).review
<1>1. CASE Unusable(r, several)
  BY <1>1 DEF Judged, ErrorVerdict
<1>2. CASE ~Unusable(r, several) /\ Failed(r, stage)
  BY <1>2 DEF Judged
<1>3. CASE ~Unusable(r, several) /\ ~Failed(r, stage)
  <2>1. ~Unmeasured(r, stage)
    BY <1>3 DEF Unmeasured, Failed, Unusable
  <2>2. PICK c \in CodesForStage(stage) :
            (c = "LEN" /\ LengthNg(r)) \/ (c \in r.defects /\ r.raises # "surface")
    <3>1. CASE SeesLength(stage) /\ r.length \notin {"within", "nearly out"}
      BY <3>1 DEF SeesLength, LengthNg, Readings, Lengths
    <3>2. CASE SeesSurface(stage) /\ r.defects # {}
      <4>1. stage = "POST_WASH_SURFACE"
        BY <3>2, CodesDiffer DEF SeesSurface, CodesForStage, Stages
      <4>2. r.raises # "surface" /\ r.defects \subseteq SurfaceCodes
        BY <3>2, <2>1 DEF Unmeasured, Readings
      <4> QED BY <3>2, <4>1, <4>2 DEF CodesForStage
    <3> QED BY <2>1, <3>1, <3>2 DEF BadTube
  <2>3. CombinedCodes(r, stage) # {}
    BY <2>2 DEF CombinedCodes
  <2> QED BY <1>3, <2>1, <2>3 DEF Judged
<1> QED BY <1>1, <1>2, <1>3

\* The verdicts on the tubes of a shot that is no crate.
LEMMA VerdictOfTube ==
    ASSUME NEW s, IsShot(s), ~IsCount(s), NEW i \in DOMAIN s.tubes,
           BadTube(s.tubes[i], s.stage)
    PROVE  /\ Verdicts(s)[i].final = "NG"
           /\ Unmeasured(s.tubes[i], s.stage) => Verdicts(s)[i].review
<1>1. s.tubes[i] \in Readings /\ s.stage \in Stages /\ s.stage # "CRATE_COUNT"
  BY DEF IsShot, IsCount
<1>2. Several(s) \in BOOLEAN
  BY DEF Several
<1>3. /\ Judged(s.tubes[i], s.stage, Several(s)).final = "NG"
      /\ Unmeasured(s.tubes[i], s.stage)
           => Judged(s.tubes[i], s.stage, Several(s)).review
  BY <1>1, <1>2, BadTubeIsJudged
<1>4. Judged(s.tubes[i], s.stage, Several(s)) = 
        [final  |-> Judged(s.tubes[i], s.stage, Several(s)).final,
         codes  |-> Judged(s.tubes[i], s.stage, Several(s)).codes,
         review |-> Judged(s.tubes[i], s.stage, Several(s)).review]
  BY DEF Judged, ErrorVerdict
<1> QED BY <1>3, <1>4 DEF Verdicts

\* A shot with a bad tube, or with a wrong or uncertain number of them, has
\* the verdict NG in the names of its pictures, and turns the light red.
LEMMA BadShotIsJudged ==
    ASSUME NEW s, IsShot(s), BadShot(s)
    PROVE  FrameVerdict(s) = "NG" /\ TowerRed(s)
<1>1. CASE IsCount(s)
  BY <1>1 DEF BadShot, FrameVerdict, CountVerdict, TowerRed, Several
<1>2. CASE ~IsCount(s) /\ Several(s)
  <2>1. CASE \E i \in DOMAIN s.tubes : BadTube(s.tubes[i], s.stage)
    <3>1. PICK i \in DOMAIN s.tubes : BadTube(s.tubes[i], s.stage)
      BY <2>1
    <3>2. Verdicts(s)[i].final = "NG"
      BY <1>2, <3>1, VerdictOfTube
    <3> DEFINE ng == {j \in DOMAIN s.tubes : Verdicts(s)[j].final = "NG"}
    <3>3. IsFiniteSet(DOMAIN s.tubes)
      BY FS_Interval DEF IsShot
    <3>4. IsFiniteSet(ng) /\ ng # {}
      BY <3>1, <3>2, <3>3, FS_Subset
    <3>5. Cardinality(ng) \in Nat /\ Cardinality(ng) # 0
      BY <3>4, FS_CardinalityType, FS_EmptySet
    <3>6. NgCount(s) > 0
      BY <3>5 DEF NgCount
    <3> QED BY <1>2, <3>6 DEF FrameVerdict, BatchVerdict, TowerRed
  <2>2. CASE Detected(s) # s.expected \/ ~s.sure
    BY <1>2, <2>2 DEF FrameVerdict, BatchVerdict, TowerRed
  <2> QED BY <1>2, <2>1, <2>2 DEF BadShot
<1>3. CASE ~IsCount(s) /\ ~Several(s)
  <2>1. s.expected = 1 /\ Len(s.tubes) = 1
    BY <1>3 DEF IsShot, Several, IsCount
  <2>2. PICK i \in DOMAIN s.tubes : BadTube(s.tubes[i], s.stage)
    BY <1>3, <2>1 DEF BadShot, Detected
  <2>3. i = 1
    BY <2>1, <2>2 DEF IsShot
  <2> QED BY <1>3, <2>2, <2>3, VerdictOfTube DEF FrameVerdict, TowerRed
<1> QED BY <1>1, <1>2, <1>3

-----------------------------------------------------------------------------
(* What is filed *)

\* What is spent is no menu.
Kinds == {"shots", "reviews", "days", "cleanups", "failures", "commits", "asks", "late",
          "checks", "rollbacks", "cuts"}

BudgetFields == Kinds \cup {"menu", "systemd", "missing"}

MenuStays ==
    /\ \E T : left \in [BudgetFields -> T]
    /\ left.menu \in DOMAIN Menus

\* What reviews can make of a row: its verdict and its stage stay, and it asks
\* for a person until one has looked.
RowFields == {"stage", "lot", "order", "final", "codes", "review", "manual", "count"}

IsReviewed(row, made) ==
    /\ \E T : row \in [RowFields -> T]
    /\ row.final = made.final /\ row.stage = made.stage
    /\ row.review = made.review \/ row.manual # "none"

\* The rows of a shot are its verdicts, and what reviews made of them.
RowsTrue ==
    \A k \in DOMAIN taken :
        /\ IsShot(taken[k])
        /\ \E T : rows[k] \in [DOMAIN RowsOf(taken[k]) -> T]
        /\ \A i \in DOMAIN RowsOf(taken[k]) :
              IsReviewed(rows[k][i], RowsOf(taken[k])[i])

\* Pictures carry the verdict on their shot.
PicturesTrue ==
    \A n \in DOMAIN age :
        n.shot \in DOMAIN taken /\ n.verdict = FrameVerdict(taken[n.shot])

FiledInv ==
    /\ MenuStays
    /\ taken \in Seq(AllShots)
    /\ \E S : rows \in Seq(S)
    /\ DOMAIN rows = DOMAIN taken
    /\ RowsTrue
    /\ PicturesTrue
    /\ Len(taken) > 0 => red = TowerRed(taken[Len(taken)])

\* A row is a record made by Row, on the verdict of its tube.
LEMMA RowsAreRows ==
    ASSUME NEW s, NEW i \in DOMAIN RowsOf(s)
    PROVE  /\ \E final, codes, review, count :
                 RowsOf(s)[i] = Row(s, final, codes, review, count)
           /\ ~IsCount(s) => /\ i \in DOMAIN s.tubes
                            /\ RowsOf(s)[i].final = Verdicts(s)[i].final
                            /\ RowsOf(s)[i].review = Verdicts(s)[i].review
<1>1. CASE IsCount(s)
  <2>1. RowsOf(s) = <<CountRow(s)>> /\ i = 1
    BY <1>1 DEF RowsOf
  <2> QED BY <1>1, <2>1 DEF CountRow
<1>2. CASE ~IsCount(s)
  <2>1. i \in DOMAIN s.tubes /\ RowsOf(s)[i] = TubeRow(s, Verdicts(s)[i])
    BY <1>2 DEF RowsOf
  <2>2. RowsOf(s)[i] = Row(s, Verdicts(s)[i].final, Verdicts(s)[i].codes,
                           Verdicts(s)[i].review, 0)
    BY <2>1 DEF TubeRow
  <2>3. /\ RowsOf(s)[i].final = Verdicts(s)[i].final
        /\ RowsOf(s)[i].review = Verdicts(s)[i].review
    BY <2>2 DEF Row
  <2> QED BY <1>2, <2>1, <2>2, <2>3
<1> QED BY <1>1, <1>2

\* A row that no one has reviewed is among those reviews can make of it, and
\* a review leaves it there.
LEMMA ReviewKeepsVerdict ==
    ASSUME NEW s, NEW i \in DOMAIN RowsOf(s)
    PROVE  /\ IsReviewed(RowsOf(s)[i], RowsOf(s)[i])
           /\ \A r, v : IsReviewed(r, RowsOf(s)[i]) /\ v \in {"OK", "NG"}
                => IsReviewed(Reviewed(r, v), RowsOf(s)[i])
<1>1. PICK final, codes, review, count :
          RowsOf(s)[i] = Row(s, final, codes, review, count)
  BY RowsAreRows
<1> DEFINE made == RowsOf(s)[i]
<1>2. made \in [RowFields -> {s.stage, s.lot, s.order, final, codes, review, "none", count}]
  BY <1>1 DEF Row, RowFields
<1>3. IsReviewed(made, made)
  BY <1>2 DEF IsReviewed
<1>4. ASSUME NEW r, NEW v \in {"OK", "NG"}, IsReviewed(r, made)
      PROVE  IsReviewed(Reviewed(r, v), made)
  <2>1. PICK T : r \in [RowFields -> T]
    BY <1>4 DEF IsReviewed
  <2>2. /\ Reviewed(r, v) \in [RowFields -> T \cup {v, FALSE}]
        /\ Reviewed(r, v).final = r.final /\ Reviewed(r, v).stage = r.stage
        /\ Reviewed(r, v).manual = v
    BY <2>1 DEF RowFields, Reviewed
  <2> QED BY <1>4, <2>2 DEF IsReviewed
<1> QED BY <1>3, <1>4

\* At the start there are neither shots nor pictures.
LEMMA FiledInitially == Init => FiledInv
<1> SUFFICES ASSUME Init PROVE FiledInv
  OBVIOUS
<1>1. rows \in Seq({})
  BY DEF Init
<1>2. DOMAIN age = {}
  BY DEF Init, RetentionInit
<1>3. MenuStays
  <2>1. left \in [menu : DOMAIN Menus, shots : Nat, reviews : Nat, days : Nat,
                  cleanups : Nat, failures : Nat, commits : Nat, asks : Nat,
                  late : Nat, checks : Nat, rollbacks : Nat, cuts : Nat, systemd : BOOLEAN,
                  missing : SUBSET Parts]
    BY SiteAssumption DEF Init
  <2>2. left \in [BudgetFields -> (DOMAIN Menus) \cup Nat \cup BOOLEAN \cup SUBSET Parts]
    BY <2>1 DEF BudgetFields, Kinds
  <2> QED BY <2>1, <2>2 DEF MenuStays
<1> QED BY <1>1, <1>2, <1>3 DEF Init, FiledInv, RowsTrue, PicturesTrue

\* What spending leaves of the budget.
LEMMA BudgetStays == MenuStays /\ [Next]_vars => MenuStays'
<1> SUFFICES ASSUME MenuStays, [Next]_vars PROVE MenuStays'
  OBVIOUS
<1>1. CASE UNCHANGED left
  BY <1>1 DEF MenuStays
<1>2. ASSUME NEW what \in Kinds, Spend(what) PROVE MenuStays'
  <2>1. PICK T : left \in [BudgetFields -> T]
    BY DEF MenuStays
  <2>2. left' = [left EXCEPT ![what] = left[what] - 1] /\ what # "menu" /\ "menu" \in BudgetFields
    BY <1>2 DEF Spend, Kinds, BudgetFields
  <2>3. left' \in [BudgetFields -> T \cup {left[what] - 1}]
    BY <2>1, <2>2
  <2>4. left'.menu = left.menu
    BY <2>1, <2>2
  <2> QED BY <2>3, <2>4 DEF MenuStays
<1>3. ASSUME NEW what \in Kinds, NEW fails, SpendMay(what, fails) PROVE MenuStays'
  <2>1. PICK T : left \in [BudgetFields -> T]
    BY DEF MenuStays
  <2> DEFINE once == [left EXCEPT ![what] = left[what] - 1]
  <2>2. what # "menu" /\ "menu" \in BudgetFields /\ "failures" \in BudgetFields
    BY DEF Kinds, BudgetFields
  <2>3. PICK failures : left' = [once EXCEPT !["failures"] = failures]
    BY <1>3, <2>1, <2>2 DEF SpendMay
  <2>4. once \in [BudgetFields -> T \cup {left[what] - 1}] /\ once.menu = left.menu
    BY <2>1, <2>2
  <2> HIDE DEF once
  <2>5. left' \in [BudgetFields -> T \cup {left[what] - 1, failures}] /\ left'.menu = once.menu
    BY <2>2, <2>3, <2>4
  <2> QED BY <2>4, <2>5 DEF MenuStays
<1>4. \/ UNCHANGED left
      \/ \E what \in Kinds : Spend(what)
      \/ \E what \in Kinds, fails \in BOOLEAN : SpendMay(what, fails)
  BY DEF Next, vars, Person, Shoot, Review, Cleanup, UpdateRequest, Script,
         ScriptFailure, Restart, May, Kinds
<1> QED BY <1>1, <1>2, <1>3, <1>4

\* A new shot: its rows and its pictures carry its verdicts, the others stay.
LEMMA ShootFiles ==
    ASSUME FiledInv, NEW s \in AllShots, Shoot(s)
    PROVE  /\ taken' \in Seq(AllShots)
           /\ \E S : rows' \in Seq(S)
           /\ DOMAIN rows' = DOMAIN taken'
           /\ RowsTrue' /\ PicturesTrue'
           /\ red' = TowerRed(taken'[Len(taken')])
<1>1. PICK S : rows \in Seq(S)
  BY DEF FiledInv
<1>2. /\ taken' \in Seq(AllShots) /\ Len(taken') = Len(taken) + 1
      /\ taken'[Len(taken')] = s
      /\ \A k \in DOMAIN taken : k \in DOMAIN taken' /\ taken'[k] = taken[k]
  BY DEF FiledInv, Shoot
<1>3. Len(rows) = Len(taken)
  BY <1>1 DEF FiledInv
<1>4. rows \in Seq(S \cup {RowsOf(s)}) /\ rows' = Append(rows, RowsOf(s))
  BY <1>1 DEF Shoot
<1>5. /\ rows' \in Seq(S \cup {RowsOf(s)}) /\ Len(rows') = Len(rows) + 1
      /\ rows'[Len(rows')] = RowsOf(s)
      /\ \A k \in DOMAIN rows : rows'[k] = rows[k]
  BY <1>4
<1>6. DOMAIN rows' = DOMAIN taken'
  BY <1>2, <1>3, <1>5
<1>7. IsShot(s)
  BY SiteAssumption DEF AllShots
<1>8. \E T : RowsOf(s) \in [DOMAIN RowsOf(s) -> T]
  <2>1. CASE IsCount(s)
    <3>1. RowsOf(s) = <<CountRow(s)>>
      BY <2>1 DEF RowsOf
    <3>2. RowsOf(s) \in [DOMAIN RowsOf(s) -> {CountRow(s)}]
      BY <3>1
    <3> QED BY <3>2
  <2>2. CASE ~IsCount(s)
    <3> DEFINE T == {TubeRow(s, Verdicts(s)[i]) : i \in DOMAIN s.tubes}
    <3>1. RowsOf(s) = [i \in DOMAIN s.tubes |-> TubeRow(s, Verdicts(s)[i])]
      BY <2>2 DEF RowsOf
    <3>2. RowsOf(s) \in [DOMAIN s.tubes -> T] /\ DOMAIN RowsOf(s) = DOMAIN s.tubes
      BY <3>1
    <3> QED BY <3>2
  <2> QED BY <2>1, <2>2
<1>9. RowsTrue'
  <2> SUFFICES ASSUME NEW k \in DOMAIN taken'
               PROVE  /\ IsShot(taken'[k])
                      /\ \E T : rows'[k] \in [DOMAIN RowsOf(taken'[k]) -> T]
                      /\ \A i \in DOMAIN RowsOf(taken'[k]) :
                            IsReviewed(rows'[k][i], RowsOf(taken'[k])[i])
    BY DEF RowsTrue
  <2>1. CASE k \in DOMAIN taken
    BY <2>1, <1>2, <1>3, <1>5 DEF FiledInv, RowsTrue
  <2>2. CASE k = Len(taken')
    <3>1. taken'[k] = s /\ rows'[k] = RowsOf(s)
      BY <2>2, <1>2, <1>3, <1>5
    <3>2. \A i \in DOMAIN RowsOf(s) : IsReviewed(RowsOf(s)[i], RowsOf(s)[i])
      BY ReviewKeepsVerdict
    <3> QED BY <3>1, <3>2, <1>7, <1>8
  <2>3. k \in DOMAIN taken \/ k = Len(taken')
    BY <1>2 DEF FiledInv
  <2> QED BY <2>1, <2>2, <2>3
<1>10. PicturesTrue'
  <2>1. \A n \in Named(s) : n.shot = Len(taken') /\ n.verdict = FrameVerdict(s)
    BY <1>2 DEF Named, PicturesOf
  <2>2. DOMAIN age' = DOMAIN age \cup Fitting(Named(s)) /\ Fitting(Named(s)) \subseteq Named(s)
    BY DEF Shoot, Write, Fitting
  <2>3. Len(taken') \in DOMAIN taken'
    BY <1>2 DEF FiledInv
  <2> QED BY <2>1, <2>2, <2>3, <1>2 DEF FiledInv, PicturesTrue
<1> QED BY <1>2, <1>5, <1>6, <1>9, <1>10 DEF Shoot

\* A review changes one row, in what reviews may change.
LEMMA ReviewFiles ==
    ASSUME FiledInv,
           NEW k \in DOMAIN rows, NEW i \in DOMAIN rows[k], NEW verdict \in {"OK", "NG"},
           Review(k, i, verdict)
    PROVE  (\E S : rows' \in Seq(S)) /\ DOMAIN rows' = DOMAIN taken' /\ RowsTrue'
<1> DEFINE new == Reviewed(rows[k][i], verdict)
           changed == [rows[k] EXCEPT ![i] = new]
<1>1. rows' = [rows EXCEPT ![k] = changed] /\ UNCHANGED taken
  BY DEF Review
<1>2. PICK S : rows \in Seq(S)
  BY DEF FiledInv
<1>3. k \in DOMAIN taken
  BY DEF FiledInv
<1>4. PICK T : rows[k] \in [DOMAIN RowsOf(taken[k]) -> T]
  BY <1>3 DEF FiledInv, RowsTrue
<1>5. rows' \in Seq(S \cup {changed}) /\ DOMAIN rows' = DOMAIN rows
  BY <1>1, <1>2
<1>6. rows'[k] = changed /\ \A j \in DOMAIN rows : j # k => rows'[j] = rows[j]
  BY <1>1, <1>2
<1>7. changed \in [DOMAIN RowsOf(taken[k]) -> T \cup {new}]
  BY <1>4
<1>8. /\ i \in DOMAIN RowsOf(taken[k]) /\ changed[i] = new
      /\ \A j \in DOMAIN RowsOf(taken[k]) : j # i => changed[j] = rows[k][j]
  BY <1>4
<1>9. IsReviewed(new, RowsOf(taken[k])[i])
  <2>1. IsReviewed(rows[k][i], RowsOf(taken[k])[i])
    BY <1>3, <1>8 DEF FiledInv, RowsTrue
  <2> QED BY <2>1, <1>8, ReviewKeepsVerdict
<1>10. \A j \in DOMAIN RowsOf(taken[k]) : IsReviewed(changed[j], RowsOf(taken[k])[j])
  BY <1>3, <1>8, <1>9 DEF FiledInv, RowsTrue
<1>11. RowsTrue'
  <2> SUFFICES ASSUME NEW j \in DOMAIN taken
               PROVE  /\ IsShot(taken[j])
                      /\ \E U : rows'[j] \in [DOMAIN RowsOf(taken[j]) -> U]
                      /\ \A n \in DOMAIN RowsOf(taken[j]) :
                            IsReviewed(rows'[j][n], RowsOf(taken[j])[n])
    BY <1>1 DEF RowsTrue
  <2>1. CASE j = k
    <3>1. IsShot(taken[k])
      BY <1>3 DEF FiledInv, RowsTrue
    <3> QED BY <2>1, <1>6, <1>7, <1>10, <3>1
  <2>2. CASE j # k
    <3>1. rows'[j] = rows[j]
      BY <2>2, <1>6 DEF FiledInv
    <3> QED BY <3>1 DEF FiledInv, RowsTrue
  <2> QED BY <2>1, <2>2
<1> QED BY <1>1, <1>5, <1>11 DEF FiledInv

\* What is deleted does not change what the other pictures carry.
LEMMA CleanupFiles ==
    ASSUME FiledInv, Cleanup
    PROVE  PicturesTrue' /\ UNCHANGED siteVars
<1>1. DOMAIN age' \subseteq DOMAIN age
  <2>1. \A gone : DOMAIN Without(gone) \subseteq DOMAIN age
    BY DEF Without
  <2> QED BY <2>1 DEF Cleanup, NewDay, WakeCleaner, CheckRoom, Expire, OpenBucket, DropOne
<1>2. UNCHANGED siteVars
  BY DEF Cleanup
<1> QED BY <1>1, <1>2 DEF FiledInv, PicturesTrue, siteVars

LEMMA FiledStays == FiledInv /\ [Next]_vars => FiledInv'
<1> SUFFICES ASSUME FiledInv, [Next]_vars PROVE FiledInv'
  OBVIOUS
<1>1. MenuStays'
  BY BudgetStays DEF FiledInv
<1>2. ASSUME NEW s \in Menus[left.menu], Shoot(s) PROVE FiledInv'
  <2>1. s \in AllShots
    BY DEF FiledInv, MenuStays, AllShots
  <2>2. /\ taken' \in Seq(AllShots)
        /\ \E S : rows' \in Seq(S)
        /\ DOMAIN rows' = DOMAIN taken'
        /\ RowsTrue' /\ PicturesTrue'
        /\ red' = TowerRed(taken'[Len(taken')])
    BY <1>2, <2>1, ShootFiles
  <2>3. (Len(taken) > 0 => red = TowerRed(taken[Len(taken)]))'
    BY <2>2
  <2> QED BY <1>1, <2>2, <2>3 DEF FiledInv
<1>3. ASSUME NEW k \in DOMAIN rows, NEW i \in DOMAIN rows[k], NEW v \in {"OK", "NG"},
             Review(k, i, v)
      PROVE  FiledInv'
  <2>1. (\E S : rows' \in Seq(S)) /\ DOMAIN rows' = DOMAIN taken' /\ RowsTrue'
    BY <1>3, ReviewFiles
  <2>2. UNCHANGED <<taken, red, age>>
    BY <1>3 DEF Review, retentionVars
  <2> QED BY <1>1, <2>1, <2>2 DEF FiledInv, PicturesTrue
<1>4. CASE Cleanup
  BY <1>1, <1>4, CleanupFiles DEF FiledInv, RowsTrue, siteVars
<1>5. ASSUME UNCHANGED siteVars, UNCHANGED age PROVE FiledInv'
  BY <1>1, <1>5 DEF FiledInv, RowsTrue, PicturesTrue, siteVars
<1>6. CASE UpdateRequest
  BY <1>5, <1>6 DEF UpdateRequest, retentionVars
<1>7. CASE Restart
  BY <1>5, <1>7 DEF Restart, CleanerRestarts
<1>8. CASE \E i \in Slots : Script(i) \/ ScriptFailure(i)
  BY <1>5, <1>8 DEF Script, ScriptFailure, retentionVars
<1>9. CASE UNCHANGED vars
  BY <1>5, <1>9 DEF vars, retentionVars
<1> QED BY <1>2, <1>3, <1>4, <1>6, <1>7, <1>8, <1>9 DEF Next, Person

\* What is filed is what the verdicts made of the shots.
LEMMA FiledAlways == Spec => []FiledInv
BY FiledInitially, FiledStays, PTL DEF Spec

-----------------------------------------------------------------------------
(* The theorems *)

\* For every menu of shots and every interleaving of cycles, reviews, days,
\* cleanups and restarts, a tube that is bad or could not be measured has a
\* row that says so, a red light, and pictures named NG.
THEOREM BadIsFound == Spec => []NothingSlipsThrough
<1>1. FiledInv => NothingSlipsThrough
  <2> SUFFICES ASSUME FiledInv PROVE NothingSlipsThrough
    OBVIOUS
  <2>1. ASSUME NEW k \in DOMAIN taken, BadShot(taken[k])
        PROVE  /\ k = Len(taken) => red
               /\ \A n \in DOMAIN age : n.shot = k => n.verdict = "NG"
    <3>1. FrameVerdict(taken[k]) = "NG" /\ TowerRed(taken[k])
      BY <2>1, BadShotIsJudged DEF FiledInv, RowsTrue
    <3>2. k = Len(taken) => Len(taken) > 0
      BY DEF FiledInv
    <3> QED BY <3>1, <3>2 DEF FiledInv, PicturesTrue
  <2>2. ASSUME NEW k \in DOMAIN taken, ~IsCount(taken[k]), NEW i \in DOMAIN rows[k],
               BadTube(taken[k].tubes[i], taken[k].stage)
        PROVE  /\ rows[k][i].final = "NG"
               /\ Unmeasured(taken[k].tubes[i], taken[k].stage)
                    => rows[k][i].review \/ rows[k][i].manual # "none"
    <3> DEFINE s == taken[k]
    <3>1. IsShot(s) /\ i \in DOMAIN RowsOf(s) /\ IsReviewed(rows[k][i], RowsOf(s)[i])
      BY DEF FiledInv, RowsTrue
    <3>2. /\ i \in DOMAIN s.tubes
          /\ RowsOf(s)[i].final = Verdicts(s)[i].final
          /\ RowsOf(s)[i].review = Verdicts(s)[i].review
      BY <2>2, <3>1, RowsAreRows
    <3>3. /\ Verdicts(s)[i].final = "NG"
          /\ Unmeasured(s.tubes[i], s.stage) => Verdicts(s)[i].review
      BY <2>2, <3>1, <3>2, VerdictOfTube
    <3>4. rows[k][i].review = Verdicts(s)[i].review \/ rows[k][i].manual # "none"
      BY <3>1, <3>2 DEF IsReviewed
    <3> QED BY <3>1, <3>2, <3>3, <3>4 DEF IsReviewed
  <2> QED BY <2>1, <2>2 DEF NothingSlipsThrough
<1> QED BY <1>1, FiledAlways, PTL

\* What the cleanup works on: files of the disk, of one bucket at a time, the
\* buckets to come above it.
Works(thread, files) ==
    /\ \E S, I, L : thread \in [step : S, items : I, list : L, blind : BOOLEAN]
    /\ thread.items \subseteq files /\ thread.list \subseteq files
    /\ \A n \in thread.items, m \in thread.list : Bucket(n) < Bucket(m)
    /\ \A n, m \in thread.items : Bucket(n) = Bucket(m)
    /\ thread.step # "drop" => thread.items = {}
    /\ thread.step \in {"idle", "expire", "check"} => thread.list = {}

CleanerInv ==
    /\ age \in [DOMAIN age -> Nat]
    /\ \A n \in DOMAIN age : n.dir \in Folders
    /\ IsFiniteSet(DOMAIN age)
    /\ Works(cleaner, DOMAIN age)

\* A shot has few pictures.
LEMMA FewPictures == ASSUME NEW s PROVE IsFiniteSet(Named(s))
<1> DEFINE name(d) == [shot |-> Len(taken) + 1, dir |-> d, verdict |-> FrameVerdict(s)]
<1>1. IsFiniteSet(({name("raw")} \cup {name("result")}) \cup {name("review")})
  <2> HIDE DEF name
  <2>1. IsFiniteSet({name("raw")} \cup {name("result")})
    BY FS_Singleton, FS_Union
  <2> QED BY <2>1, FS_Singleton, FS_Union
<1>2. Named(s) \subseteq ({name("raw")} \cup {name("result")}) \cup {name("review")}
  BY DEF Named, PicturesOf
<1> QED BY <1>1, <1>2, FS_Subset

\* The states a step of the cleanup begins anew with.
LEMMA AtWorks ==
    ASSUME NEW step, NEW items, NEW list
    PROVE  /\ \E S, I, L : At(step, items, list)
                             \in [step : S, items : I, list : L, blind : BOOLEAN]
           /\ At(step, items, list).step = step /\ At(step, items, list).items = items
           /\ At(step, items, list).list = list
<1>1. At(step, items, list) \in [step : {step}, items : {items}, list : {list}, blind : BOOLEAN]
  BY DEF At
<1> QED BY <1>1 DEF At

LEMMA CleanerAlways == Spec => []CleanerInv
<1>1. Init => CleanerInv
  <2> SUFFICES ASSUME Init PROVE CleanerInv
    OBVIOUS
  <2>1. age \in [DOMAIN age -> Nat] /\ DOMAIN age = {} /\ cleaner = At("expire", {}, {})
    BY DEF Init, RetentionInit, Booted
  <2>2. Works(cleaner, DOMAIN age)
    BY <2>1, AtWorks DEF Works
  <2> QED BY <2>1, <2>2, FS_EmptySet DEF CleanerInv
<1>2. CleanerInv /\ [Next]_vars => CleanerInv'
  <2> SUFFICES ASSUME CleanerInv, [Next]_vars PROVE CleanerInv'
    OBVIOUS
  <2> DEFINE Filed == /\ age' \in [DOMAIN age' -> Nat]
                      /\ \A n \in DOMAIN age' : n.dir \in Folders
                      /\ IsFiniteSet(DOMAIN age')
  <2>1. PICK S, I, L : cleaner \in [step : S, items : I, list : L, blind : BOOLEAN]
    BY DEF CleanerInv, Works
  <2>2. UNCHANGED age => Filed
    BY DEF CleanerInv
  <2>3. UNCHANGED cleaner /\ DOMAIN age \subseteq DOMAIN age' => Works(cleaner', DOMAIN age')
    BY DEF CleanerInv, Works
  <2>4. ASSUME NEW gone, age' = Without(gone) PROVE Filed /\ DOMAIN age' = DOMAIN age \ gone
    BY <2>4, FS_Subset DEF Without, CleanerInv
  <2>5. cleaner' \in {Idle, Booted} => Works(cleaner', DOMAIN age')
    BY AtWorks DEF Idle, Booted, Works
  <2>6. ASSUME NEW s, Shoot(s) PROVE CleanerInv'
    <3>1. \A n \in Fitting(Named(s)) : n.dir \in Folders
      BY DEF Fitting, Named, PicturesOf, Folders
    <3>2. Fitting(Named(s)) \subseteq Named(s)
      BY DEF Fitting
    <3>3. IsFiniteSet(DOMAIN age \cup Fitting(Named(s)))
      BY <3>2, FewPictures, FS_Subset, FS_Union DEF CleanerInv
    <3>4. Filed /\ DOMAIN age \subseteq DOMAIN age'
      BY <2>6, <3>1, <3>3 DEF Shoot, Write, CleanerInv
    <3> QED BY <2>3, <2>6, <3>4 DEF Shoot, CleanerInv
  <2>7. CASE Cleanup
    <3>1. NewDay => CleanerInv'
      <4>1. NewDay => Filed
        BY RetentionAssumption DEF NewDay, CleanerInv
      <4> QED BY <2>3, <4>1 DEF NewDay, CleanerInv
    <3>2. WakeCleaner => CleanerInv'
      BY <2>2, <2>5 DEF WakeCleaner, CleanerInv
    <3>3. ASSUME NEW fails, NEW unread, CheckRoom(fails, unread) PROVE CleanerInv'
      <4> DEFINE read == {n \in DOMAIN age : Bucket(n) \notin unread}
      <4>1. cleaner' = At("bucket", {}, read) \/ cleaner' = Idle
        BY <3>3 DEF CheckRoom
      <4>2. UNCHANGED age /\ read \subseteq DOMAIN age
        BY <3>3 DEF CheckRoom
      <4> HIDE DEF read
      <4>3. Works(At("bucket", {}, read), DOMAIN age')
        BY <4>2, AtWorks DEF Works
      <4> QED BY <2>2, <2>5, <4>1, <4>2, <4>3 DEF CleanerInv
    <3>4. ASSUME NEW stuck, Expire(stuck) PROVE CleanerInv'
      <4>1. cleaner' \in [step : {"check"}, items : I, list : L, blind : BOOLEAN]
            /\ cleaner'.step = "check" /\ cleaner'.items = {} /\ cleaner'.list = {}
        BY <2>1, <3>4 DEF Expire, CleanerInv, Works
      <4>2. Works(cleaner', DOMAIN age')
        BY <4>1 DEF Works
      <4> QED BY <2>4, <3>4, <4>2 DEF Expire, CleanerInv
    <3>5. ASSUME NEW fails, NEW unsorted, OpenBucket(fails, unsorted) PROVE CleanerInv'
      <4> DEFINE items == Lowest(cleaner.list)
                 rest == cleaner.list \ items
      <4>1. /\ UNCHANGED age
            /\ cleaner' \in {Idle, At("bucket", {}, rest), At("drop", items, rest)}
        BY <3>5 DEF OpenBucket
      <4>2. items \subseteq DOMAIN age /\ rest \subseteq DOMAIN age
        BY DEF Lowest, CleanerInv, Works
      <4>3. \A n \in DOMAIN age : Bucket(n) \in 1 .. 4
        BY DEF CleanerInv, Folders, Bucket
      <4>4. \A n, m \in items : Bucket(n) = Bucket(m)
        BY <4>2, <4>3 DEF Lowest
      <4>5. ASSUME NEW n \in items, NEW m \in rest PROVE Bucket(n) < Bucket(m)
        <5>1. PICK k \in cleaner.list : ~(Bucket(m) <= Bucket(k))
          BY DEF Lowest
        <5>2. Bucket(n) <= Bucket(k) /\ {n, m, k} \subseteq DOMAIN age
          BY <4>2, <5>1 DEF Lowest, CleanerInv, Works
        <5>3. Bucket(n) \in 1 .. 4 /\ Bucket(m) \in 1 .. 4 /\ Bucket(k) \in 1 .. 4
          BY <4>3, <5>2
        <5> QED BY <5>1, <5>2, <5>3
      <4> HIDE DEF items, rest
      <4>6. /\ Works(At("bucket", {}, rest), DOMAIN age')
            /\ Works(At("drop", items, rest), DOMAIN age')
        BY <4>1, <4>2, <4>4, <4>5, AtWorks DEF Works
      <4> QED BY <2>2, <2>5, <4>1, <4>6 DEF CleanerInv
    <3>6. ASSUME NEW fails \in BOOLEAN, NEW sticks \in BOOLEAN, DropOne(fails, sticks)
          PROVE  CleanerInv'
      <4>1. CASE cleaner' = At("bucket", {}, cleaner.list) /\ UNCHANGED age
        <5>1. Works(cleaner', DOMAIN age')
          BY <4>1, AtWorks DEF Works, CleanerInv
        <5> QED BY <2>2, <4>1, <5>1 DEF CleanerInv
      <4>2. ASSUME NEW n \in cleaner.items,
                   age' = IF sticks THEN age ELSE Without({n}),
                   cleaner' = [cleaner EXCEPT !.items = cleaner.items \ {n}, !.blind = fails]
            PROVE  CleanerInv'
        <5>1. /\ cleaner' \in [step : S, items : {cleaner.items \ {n}}, list : L, blind : BOOLEAN]
              /\ cleaner'.step = cleaner.step /\ cleaner'.list = cleaner.list
              /\ cleaner'.items = cleaner.items \ {n}
          BY <2>1, <4>2
        <5>2. n \notin cleaner.list
          <6>1. Bucket(n) \in 1 .. 4
            BY DEF CleanerInv, Works, Folders, Bucket
          <6> QED BY <6>1 DEF CleanerInv, Works
        <5>3. DOMAIN age \ {n} \subseteq DOMAIN age' /\ Filed
          BY <2>2, <2>4, <4>2
        <5>4. Works(cleaner', DOMAIN age')
          BY <5>1, <5>2, <5>3 DEF CleanerInv, Works
        <5> QED BY <5>3, <5>4 DEF CleanerInv
      <4> QED BY <3>6, <4>1, <4>2 DEF DropOne, Oldest
    <3> QED BY <2>7, <3>1, <3>2, <3>3, <3>4, <3>5, <3>6 DEF Cleanup
  <2>8. CASE Restart
    BY <2>2, <2>5, <2>8 DEF Restart, CleanerRestarts, CleanerInv
  <2>9. CASE UNCHANGED retentionVars
    BY <2>2, <2>3, <2>9 DEF retentionVars, CleanerInv
  <2> QED BY <2>6, <2>7, <2>8, <2>9
          DEF Next, vars, Person, Review, UpdateRequest, Script, ScriptFailure
<1> QED BY <1>1, <1>2, PTL DEF Spec

\* For every capacity, every margin, every length of the days pictures are
\* kept, and whatever the cleanup fails to read, to sort or to delete: the
\* picture of a bad shot outlives every original and every good result that is
\* on its list.
THEOREM BadIsKept == Spec => NgGoesLast
<1> DEFINE A == \A n \in DOMAIN age \ DOMAIN age' :
          (n.dir = "result" /\ BadShot(taken[n.shot]) /\ age[n] <= NgDays) =>
              /\ cleaner.step = "drop"
              /\ FreeRoom < MinFree \/ cleaner'.blind
              /\ \A m \in cleaner.items \cup cleaner.list :
                    m.dir = "review" \/ (m.dir = "result" /\ m.verdict = "NG")
<1>1. FiledInv /\ CleanerInv /\ [Next]_vars => [A]_vars
  <2> SUFFICES ASSUME FiledInv, CleanerInv, [Next]_vars,
                      NEW n \in DOMAIN age \ DOMAIN age',
                      n.dir = "result", BadShot(taken[n.shot]), age[n] <= NgDays
               PROVE  /\ cleaner.step = "drop"
                      /\ FreeRoom < MinFree \/ cleaner'.blind
                      /\ \A m \in cleaner.items \cup cleaner.list :
                            m.dir = "review" \/ (m.dir = "result" /\ m.verdict = "NG")
    OBVIOUS
  <2>1. n.verdict = "NG"
    BY BadShotIsJudged DEF FiledInv, PicturesTrue, RowsTrue
  <2>2. Bucket(n) = 3 /\ KeptFor(n) = NgDays
    BY <2>1 DEF Bucket, KeptFor
  <2>3. ~Expired(n)
    BY <2>2, RetentionAssumption DEF Expired, CleanerInv
  <2>4. PICK fails \in BOOLEAN : DropOne(fails, FALSE)
    <3>1. age' # age
      OBVIOUS
    <3>2. ~(\E s : Shoot(s))
      BY DEF Shoot, Write
    <3>3. ~(\E stuck : Expire(stuck))
      BY <2>3 DEF Expire, Without
    <3>4. ~NewDay
      BY DEF NewDay
    <3>5. ~DropOne(FALSE, TRUE) /\ ~DropOne(TRUE, TRUE)
      BY <3>1 DEF DropOne
    <3>6. Cleanup
      BY <3>1, <3>2 DEF Next, vars, retentionVars, Person, Review, UpdateRequest, Restart,
                        CleanerRestarts, Script, ScriptFailure
    <3> QED BY <3>1, <3>3, <3>4, <3>5, <3>6
            DEF Cleanup, WakeCleaner, CheckRoom, OpenBucket
  <2>5. /\ cleaner.step = "drop" /\ ~(RoomRead(fails) >= MinFree)
        /\ n \in cleaner.items
        /\ \E m : cleaner' = [cleaner EXCEPT !.items = cleaner.items \ {m}, !.blind = fails]
    BY <2>4 DEF DropOne, Without, Oldest
  <2>6. cleaner'.blind = fails
    <3>1. PICK S, I, L : cleaner \in [step : S, items : I, list : L, blind : BOOLEAN]
      BY DEF CleanerInv, Works
    <3> QED BY <2>5, <3>1
  <2>7. FreeRoom < MinFree \/ cleaner'.blind
    <3>1. FreeRoom \in Int
      BY FS_CardinalityType, RetentionAssumption DEF FreeRoom, CleanerInv
    <3>2. ~fails => FreeRoom < MinFree
      BY <2>5, <3>1, RetentionAssumption DEF RoomRead
    <3> QED BY <2>6, <3>2
  <2>8. ASSUME NEW m \in cleaner.items \cup cleaner.list
        PROVE  m.dir = "review" \/ (m.dir = "result" /\ m.verdict = "NG")
    <3>1. Bucket(n) < Bucket(m) \/ Bucket(n) = Bucket(m)
      BY <2>5, <2>8 DEF CleanerInv, Works
    <3>2. m.dir \in Folders
      BY <2>8 DEF CleanerInv, Works
    <3> QED BY <2>2, <3>1, <3>2 DEF Bucket, Folders
  <2> QED BY <2>5, <2>7, <2>8
<1> QED BY <1>1, FiledAlways, CleanerAlways, PTL DEF Spec, NgGoesLast

-----------------------------------------------------------------------------
(* The update *)

\* What a process of the script knows.
KnownTo(p) ==
    /\ p.step \in {"fetch", "merge", "build", "restart"} => p.prev \in Versions
    /\ p.step \in {"build", "restart"} => p.target \in Versions

Marked == log \cap Marks # {}

\* What the parts and the code differ in lies in the code: no part is ahead
\* of it.
Level == \A d \in gap : d[1] <= head

\* Where a process is in the update, as long as it is alone.
OnItsWay(p) ==
    /\ p.step \in {"begin", "fetch"} => ~Marked
    /\ p.step \in {"fetch", "merge"} => p.prev = head
    /\ p.step = "merge" /\ Marked => Level
    /\ p.step \in {"build", "restart"} => Level

\* A difference that is not ahead of the code is one a script gave up in its
\* build, or has still to make.
Accounted == \A d \in gap : d[1] <= origin /\ (d[1] > head \/ d \in unbuilt \/ d \in Building)

Ordered ==
    /\ \A i, j \in Slots : Alive(i) /\ Alive(j) => i = j
    /\ lastGood <= head /\ head <= origin /\ origin <= remote
    /\ Accounted
    /\ \A i \in Slots : OnItsWay(scripts[i])
    /\ status.state = "running" /\ Marked => Level

UpdateInv ==
    /\ UpdateTypeOK
    /\ \A i \in Slots : KnownTo(scripts[i])
    /\ ~doubled => Ordered

\* A difference is a version and a part.
LEMMA ChangeOf ==
    ASSUME NEW d \in Versions \X Parts
    PROVE  /\ d[1] \in Versions /\ d[1] \in Nat /\ d[2] \in Parts
           /\ \A V, P : d \in V \X P <=> d[1] \in V /\ d[2] \in P
  BY UpdaterAssumption

LEMMA AreNumbers ==
    ASSUME UpdateTypeOK
    PROVE  /\ remote \in Nat /\ origin \in Nat /\ head \in Nat /\ lastGood \in Nat
           /\ remote \in Versions /\ origin \in Versions /\ head \in Versions
           /\ gap \subseteq Versions \X Parts
<1>1. /\ remote \in Versions /\ origin \in Versions /\ head \in Versions
      /\ lastGood \in Versions \cup {0} /\ gap \subseteq Versions \X Parts
  BY DEF UpdateTypeOK
<1> QED BY <1>1, UpdaterAssumption

LEMMA UpdateInitially == Init => UpdateInv
<1> SUFFICES ASSUME Init PROVE UpdateInv
  OBVIOUS
<1> USE UpdaterAssumption DEF Init, UpdateInit, Process, NoProcess
<1>1. \A i \in Slots : scripts[i].step = "none"
  OBVIOUS
<1>2. UpdateTypeOK
  BY DEF UpdateTypeOK, ScriptSteps, States
<1>3. \A i \in Slots : KnownTo(scripts[i])
  BY <1>1 DEF KnownTo
<1>4. Ordered
  BY <1>1 DEF Ordered, Alive, OnItsWay, Accounted, Level
<1> QED BY <1>2, <1>3, <1>4 DEF UpdateInv

\* One process goes on, the others stay.
LEMMA OneGoesOn ==
    ASSUME UpdateTypeOK, NEW i \in Slots, NEW p, Becomes(i, p)
    PROVE  /\ scripts'[i] = p
           /\ \A j \in Slots : j # i => scripts'[j] = scripts[j]
           /\ p \in [step : ScriptSteps, prev : Versions \cup {0}, target : Versions \cup {0}]
                => scripts' \in [Slots -> [step : ScriptSteps, prev : Versions \cup {0},
                                          target : Versions \cup {0}]]
           /\ (\A j \in Slots : KnownTo(scripts[j])) /\ KnownTo(p)
                => (\A j \in Slots : KnownTo(scripts[j]))'
BY DEF UpdateTypeOK, Becomes

\* Changes that keep a difference one of a version and a part.
LEMMA DifferStays ==
    ASSUME UpdateTypeOK, NEW a, NEW b
    PROVE  /\ Differ(a, b) \subseteq Versions \X Parts
           /\ \A d \in Differ(a, b) :
                 \/ d \in gap /\ d[1] \notin Between(a, b)
                 \/ d[1] \in Between(a, b)
<1>1. Between(a, b) \subseteq Versions
  BY DEF Between
<1>2. Differ(a, b) \subseteq Versions \X Parts
  BY <1>1 DEF Differ, UpdateTypeOK
<1>3. ASSUME NEW d \in Differ(a, b)
      PROVE  (d \in gap /\ d[1] \notin Between(a, b)) \/ d[1] \in Between(a, b)
  <2>1. d \in Versions \X Parts
    BY <1>2
  <2> QED BY <1>3, <2>1, ChangeOf DEF Differ
<1> QED BY <1>2, <1>3

\* Only what is built can be due.
LEMMA OneBuilds ==
    ASSUME NEW i \in Slots, \A j \in Slots : j # i => scripts[j].step # "build"
    PROVE  /\ scripts[i].step # "build" => Building = {}
           /\ scripts[i].step = "build" => Building = Due(i)
BY DEF Building

LEMMA UpdateStays == UpdateInv /\ [Next]_vars => UpdateInv'
<1> SUFFICES ASSUME UpdateInv, [Next]_vars PROVE UpdateInv'
  OBVIOUS
<1> USE UpdaterAssumption
<1> DEFINE Record == [step : ScriptSteps, prev : Versions \cup {0}, target : Versions \cup {0}]
<1>0. /\ remote \in Nat /\ origin \in Nat /\ head \in Nat /\ lastGood \in Nat
      /\ remote \in Versions /\ origin \in Versions /\ head \in Versions
      /\ gap \subseteq Versions \X Parts
  BY AreNumbers DEF UpdateInv
<1>1. CASE UNCHANGED updateVars
  <2>1. UNCHANGED <<systemd, missing, remote, origin, head, gap, running, lastGood, unbuilt,
                    scripts, log, status, settling, asked, doubled>>
    BY <1>1 DEF updateVars, codeVars, requestVars
  <2>2. UNCHANGED Building
    BY <2>1 DEF Building, Due, Changed, Between
  <2> QED BY <2>1, <2>2 DEF UpdateInv, UpdateTypeOK, KnownTo, Ordered, OnItsWay, Alive, Marked,
                            Level, Accounted
<1>2. ASSUME NEW i \in Slots, BeginScript(i) PROVE UpdateInv'
  <2> DEFINE p == Process("fetch", head, 0)
  <2>1. p \in Record /\ KnownTo(p) /\ p.step = "fetch" /\ p.prev = head
    BY DEF UpdateInv, UpdateTypeOK, Process, ScriptSteps, KnownTo
  <2>2. scripts'[i] = p /\ \A j \in Slots : j # i => scripts'[j] = scripts[j]
    BY <1>2, OneGoesOn DEF BeginScript, UpdateInv
  <2>3. UNCHANGED <<systemd, missing, remote, origin, head, gap, running, lastGood, unbuilt,
                    log, status, settling, asked, doubled>>
    BY <1>2 DEF BeginScript, ScriptOnly, codeVars, requestVars
  <2>4. UpdateTypeOK' /\ (\A j \in Slots : KnownTo(scripts[j]))'
    BY <1>2, <2>1, <2>3, OneGoesOn DEF BeginScript, UpdateInv, UpdateTypeOK
  <2>5. ASSUME ~doubled' PROVE Ordered'
    <3>1. Ordered /\ scripts[i].step = "begin"
      BY <1>2, <2>3, <2>5 DEF UpdateInv, BeginScript
    <3>2. /\ \A j \in Slots : j # i => scripts[j].step = "none"
          /\ \A j \in Slots : j # i => scripts'[j].step = "none"
      BY <2>2, <3>1 DEF Ordered, Alive
    <3>3. Building = {} /\ Building' = {}
      BY <2>1, <2>2, <3>1, <3>2 DEF Building
    <3>4. Accounted'
      BY <2>3, <3>1, <3>3 DEF Ordered, Accounted
    <3>5. ASSUME NEW j \in Slots PROVE OnItsWay(scripts[j])'
      BY <2>1, <2>2, <2>3, <3>1, <3>2 DEF Ordered, OnItsWay, Marked
    <3>6. (\A j, n \in Slots : Alive(j) /\ Alive(n) => j = n)'
      BY <3>2 DEF Alive
    <3> QED BY <2>3, <3>1, <3>4, <3>5, <3>6 DEF Ordered, Marked, Level
  <2> QED BY <2>4, <2>5 DEF UpdateInv
<1>3. ASSUME NEW i \in Slots, Fetch(i) PROVE UpdateInv'
  <2> DEFINE p == Process("merge", scripts[i].prev, scripts[i].target)
  <2>1. p \in Record /\ KnownTo(p) /\ p.step = "merge" /\ p.prev = scripts[i].prev
    BY <1>3 DEF UpdateInv, UpdateTypeOK, Process, ScriptSteps, KnownTo, Fetch
  <2>2. scripts'[i] = p /\ \A j \in Slots : j # i => scripts'[j] = scripts[j]
    BY <1>3, OneGoesOn DEF Fetch, Goes, UpdateInv
  <2>3. /\ UNCHANGED <<systemd, missing, remote, head, gap, running, lastGood, unbuilt,
                       status, settling, asked, doubled>>
        /\ origin' = remote
    BY <1>3 DEF Fetch, ScriptOnly, requestVars
  <2>4. UpdateTypeOK' /\ (\A j \in Slots : KnownTo(scripts[j]))'
    BY <1>3, <2>1, <2>3, OneGoesOn DEF Fetch, Goes, UpdateInv, UpdateTypeOK, Marks
  <2>5. ASSUME ~doubled' PROVE Ordered'
    <3>1. Ordered /\ scripts[i].step = "fetch"
      BY <1>3, <2>3, <2>5 DEF UpdateInv, Fetch
    <3>2. /\ \A j \in Slots : j # i => scripts[j].step = "none"
          /\ \A j \in Slots : j # i => scripts'[j].step = "none"
      BY <2>2, <3>1 DEF Ordered, Alive
    <3>3. Building = {} /\ Building' = {}
      BY <2>1, <2>2, <3>1, <3>2 DEF Building
    <3>4. scripts[i].prev = head /\ ~Marked
      BY <3>1 DEF Ordered, OnItsWay
    <3>5. \A d \in gap : d[1] \in Nat /\ d[1] <= remote
      <4>1. \A d \in gap : d[1] \in Nat /\ d[1] <= origin /\ origin <= remote
        BY <1>0, <3>1, ChangeOf DEF Ordered, Accounted
      <4> QED BY <1>0, <4>1
    <3>6. Marked' => Level'
      BY <1>3, <2>3, <3>4, <3>5 DEF Fetch, Marked, Level
    <3>7. Accounted'
      BY <2>3, <3>1, <3>3, <3>5 DEF Ordered, Accounted
    <3>8. ASSUME NEW j \in Slots PROVE OnItsWay(scripts[j])'
      BY <2>1, <2>2, <2>3, <3>2, <3>4, <3>6 DEF OnItsWay
    <3>9. (\A j, n \in Slots : Alive(j) /\ Alive(n) => j = n)'
      BY <3>2 DEF Alive
    <3>10. (lastGood <= head /\ head <= origin /\ origin <= remote)'
      BY <1>0, <2>3, <3>1 DEF Ordered
    <3> QED BY <2>3, <3>6, <3>7, <3>8, <3>9, <3>10 DEF Ordered
  <2> QED BY <2>4, <2>5 DEF UpdateInv
<1>4. ASSUME NEW i \in Slots, Merge(i) PROVE UpdateInv'
  <2> DEFINE p == Process("build", scripts[i].prev, origin)
  <2>1. /\ p \in Record /\ KnownTo(p)
        /\ p.step = "build" /\ p.prev = scripts[i].prev /\ p.target = origin
    BY <1>4 DEF UpdateInv, UpdateTypeOK, Process, ScriptSteps, KnownTo, Merge
  <2>2. scripts'[i] = p /\ \A j \in Slots : j # i => scripts'[j] = scripts[j]
    BY <1>4, OneGoesOn DEF Merge, UpdateInv
  <2>3. /\ UNCHANGED <<systemd, missing, remote, origin, running, unbuilt, log, status,
                       settling, asked, doubled>>
        /\ head' = origin /\ gap' = Differ(head, origin)
        /\ lastGood' \in {lastGood, scripts[i].prev}
    BY <1>4 DEF Merge, ScriptOnly, requestVars
  <2>4. gap' \subseteq Versions \X Parts /\ lastGood' \in Versions \cup {0}
    BY <1>4, <2>3, DifferStays DEF Merge, UpdateInv, UpdateTypeOK, KnownTo
  <2>5. UpdateTypeOK' /\ (\A j \in Slots : KnownTo(scripts[j]))'
    BY <1>4, <2>1, <2>3, <2>4, OneGoesOn DEF Merge, UpdateInv, UpdateTypeOK
  <2>6. ASSUME ~doubled' PROVE Ordered'
    <3>1. Ordered /\ scripts[i].step = "merge"
      BY <1>4, <2>3, <2>6 DEF UpdateInv, Merge
    <3>2. /\ \A j \in Slots : j # i => scripts[j].step = "none"
          /\ \A j \in Slots : j # i => scripts'[j].step = "none"
      BY <2>2, <3>1 DEF Ordered, Alive
    <3>3. Building = {}
      BY <3>1, <3>2 DEF Building
    <3>4. scripts[i].prev = head /\ lastGood <= head /\ head <= origin
      BY <3>1 DEF Ordered, OnItsWay
    <3>5. ASSUME NEW d \in gap'
          PROVE  /\ d[1] \in Nat /\ d[1] <= origin
                 /\ d \in unbuilt \/ d \in Building'
      <4>1. d \in Versions \X Parts /\ d[1] \in Nat /\ d[1] \in Versions /\ d[2] \in Parts
        BY <2>4, ChangeOf
      <4>2. CASE d \in gap /\ d[1] \notin Between(head, origin)
        <5>1. d[1] <= origin /\ (d[1] > head \/ d \in unbuilt)
          BY <3>1, <3>3, <4>2 DEF Ordered, Accounted
        <5> QED BY <1>0, <4>1, <4>2, <5>1 DEF Between
      <4>3. CASE d[1] \in Between(head, origin)
        <5>1. d[1] <= origin
          BY <1>0, <3>4, <4>1, <4>3 DEF Between
        <5>2. Changed(i)' = Between(head, origin)
          BY <2>1, <2>2, <3>4 DEF Changed, Between
        <5>3. d \in Due(i)'
          <6>1. d \in Changed(i)' \X Parts
            BY <4>1, <4>3, <5>2, ChangeOf
          <6> QED BY <6>1 DEF Due
        <5>4. Building' = Due(i)'
          BY <2>1, <2>2, <3>2 DEF Building
        <5> QED BY <4>1, <5>1, <5>3, <5>4
      <4> QED BY <2>3, <4>2, <4>3, DifferStays DEF UpdateInv
    <3>6. Level' /\ Accounted'
      BY <2>3, <3>5 DEF Level, Accounted
    <3>7. ASSUME NEW j \in Slots PROVE OnItsWay(scripts[j])'
      BY <2>1, <2>2, <3>2, <3>6 DEF OnItsWay
    <3>8. (\A j, n \in Slots : Alive(j) /\ Alive(n) => j = n)'
      BY <3>2 DEF Alive
    <3>9. (lastGood <= head /\ head <= origin /\ origin <= remote)'
      BY <1>0, <2>3, <3>1, <3>4 DEF Ordered
    <3> QED BY <3>6, <3>7, <3>8, <3>9 DEF Ordered
  <2> QED BY <2>5, <2>6 DEF UpdateInv
<1>5. ASSUME NEW i \in Slots, Build(i) PROVE UpdateInv'
  <2> DEFINE p == Process("restart", scripts[i].prev, scripts[i].target)
  <2>1. p \in Record /\ KnownTo(p) /\ p.step = "restart"
    BY <1>5 DEF UpdateInv, UpdateTypeOK, Process, ScriptSteps, KnownTo, Build
  <2>2. scripts'[i] = p /\ \A j \in Slots : j # i => scripts'[j] = scripts[j]
    BY <1>5, OneGoesOn DEF Build, Goes, UpdateInv
  <2>3. /\ UNCHANGED <<systemd, missing, remote, origin, head, running, lastGood, log, status,
                       settling, asked, doubled>>
        /\ gap' = gap \ Makes(i) /\ unbuilt' = (unbuilt \cup Due(i)) \ Makes(i)
    BY <1>5 DEF Build, ScriptOnly, requestVars
  <2>4. gap' \subseteq Versions \X Parts /\ unbuilt' \subseteq Versions \X Parts
    BY <2>3 DEF UpdateInv, UpdateTypeOK, Due
  <2>5. UpdateTypeOK' /\ (\A j \in Slots : KnownTo(scripts[j]))'
    BY <1>5, <2>1, <2>3, <2>4, OneGoesOn DEF Build, Goes, UpdateInv, UpdateTypeOK
  <2>6. ASSUME ~doubled' PROVE Ordered'
    <3>1. Ordered /\ scripts[i].step = "build"
      BY <1>5, <2>3, <2>6 DEF UpdateInv, Build
    <3>2. /\ \A j \in Slots : j # i => scripts[j].step = "none"
          /\ \A j \in Slots : j # i => scripts'[j].step = "none"
      BY <2>2, <3>1 DEF Ordered, Alive
    <3>3. Building = Due(i)
      BY <3>1, <3>2, OneBuilds
    <3>4. Level
      BY <3>1 DEF Ordered, OnItsWay
    <3>5. ASSUME NEW d \in gap'
          PROVE  d[1] <= origin /\ d[1] <= head /\ d \in unbuilt'
      <4>1. d \in gap /\ d \notin Makes(i)
        BY <2>3
      <4>2. d[1] <= origin /\ d[1] <= head /\ d[1] \in Nat
        BY <1>0, <3>1, <3>4, <4>1, ChangeOf DEF Ordered, Accounted, Level
      <4>3. d \in unbuilt \/ d \in Due(i)
        BY <1>0, <3>1, <3>3, <4>1, <4>2 DEF Ordered, Accounted
      <4> QED BY <2>3, <4>1, <4>2, <4>3
    <3>6. Level' /\ Accounted'
      BY <2>3, <3>5 DEF Level, Accounted
    <3>7. ASSUME NEW j \in Slots PROVE OnItsWay(scripts[j])'
      BY <2>1, <2>2, <3>2, <3>6 DEF OnItsWay
    <3>8. (\A j, n \in Slots : Alive(j) /\ Alive(n) => j = n)'
      BY <3>2 DEF Alive
    <3> QED BY <2>3, <3>1, <3>6, <3>7, <3>8 DEF Ordered
  <2> QED BY <2>5, <2>6 DEF UpdateInv
<1>6. ASSUME NEW i \in Slots, ScriptFails(i) \/ ScriptDone(i) PROVE UpdateInv'
  <2>1. NoProcess \in Record /\ KnownTo(NoProcess) /\ NoProcess.step = "none"
    BY DEF NoProcess, Process, ScriptSteps, KnownTo
  <2>2. scripts'[i] = NoProcess /\ \A j \in Slots : j # i => scripts'[j] = scripts[j]
    BY <1>6, OneGoesOn DEF ScriptFails, ScriptDone, Dies, UpdateInv
  <2>3. /\ UNCHANGED <<systemd, missing, remote, origin, head, gap, running, lastGood, status,
                       settling, asked, doubled>>
        /\ unbuilt \subseteq unbuilt' /\ unbuilt' \subseteq unbuilt \cup Due(i)
        /\ scripts[i].step = "build" => Due(i) \subseteq unbuilt'
        /\ log' \subseteq Marks
    BY <1>6 DEF ScriptFails, ScriptDone, ScriptOnly, requestVars, codeVars, UpdateInv,
                UpdateTypeOK, Marks
  <2>4. unbuilt' \subseteq Versions \X Parts
    BY <2>3 DEF Due, UpdateInv, UpdateTypeOK
  <2>5. UpdateTypeOK' /\ (\A j \in Slots : KnownTo(scripts[j]))'
    BY <1>6, <2>1, <2>3, <2>4, OneGoesOn
       DEF ScriptFails, ScriptDone, Dies, UpdateInv, UpdateTypeOK
  <2>6. ASSUME ~doubled' PROVE Ordered'
    <3>1. Ordered /\ Alive(i)
      BY <1>6, <2>3, <2>6 DEF UpdateInv, ScriptFails, ScriptDone, Alive
    <3>2. /\ \A j \in Slots : j # i => scripts[j].step = "none"
          /\ \A j \in Slots : scripts'[j].step = "none"
      BY <2>1, <2>2, <3>1 DEF Ordered, Alive
    <3>3. Building \subseteq unbuilt'
      BY <2>3, <3>2, OneBuilds
    <3>4. Accounted'
      BY <2>3, <3>1, <3>3 DEF Ordered, Accounted
    <3>5. status.state = "running" /\ Marked' => Level
      BY <1>6, <3>1 DEF ScriptFails, ScriptDone, Ordered, Marked, OnItsWay
    <3> QED BY <2>3, <3>1, <3>2, <3>4, <3>5 DEF Ordered, Alive, OnItsWay, Level
  <2> QED BY <2>5, <2>6 DEF UpdateInv
<1>7. ASSUME NEW i \in Slots, NEW fails, StartScript(i, fails) PROVE UpdateInv'
  <2> DEFINE p == Process("begin", 0, 0)
  <2>1. p \in Record /\ KnownTo(p) /\ p.step = "begin"
    BY DEF Process, ScriptSteps, KnownTo
  <2>2. scripts'[i] = p /\ \A j \in Slots : j # i => scripts'[j] = scripts[j]
    BY <1>7, OneGoesOn DEF StartScript, UpdateInv
  <2>3. /\ UNCHANGED <<systemd, missing, remote, origin, head, gap, running, lastGood, unbuilt,
                       settling>>
        /\ log' = {} /\ asked' \in Nat
    BY <1>7 DEF StartScript, codeVars, UpdateInv, UpdateTypeOK
  <2>9. doubled' \in BOOLEAN /\ (~doubled' => ~doubled /\ \A j \in Slots : ~Alive(j))
    BY <1>7 DEF StartScript
  <2>4. status' \in [state : States, pid : Slots \cup {0}]
    BY <1>7 DEF StartScript, States, UpdateInv, UpdateTypeOK
  <2>5. UpdateTypeOK' /\ (\A j \in Slots : KnownTo(scripts[j]))'
    BY <1>7, <2>1, <2>3, <2>4, <2>9, OneGoesOn DEF StartScript, UpdateInv, UpdateTypeOK
  <2>6. ASSUME ~doubled' PROVE Ordered'
    <3>1. Ordered /\ (\A j \in Slots : scripts[j].step = "none") /\ ~Marked'
      BY <2>3, <2>6, <2>9 DEF UpdateInv, Alive, Marked
    <3>2. \A j \in Slots : j # i => scripts'[j].step = "none"
      BY <2>2, <3>1
    <3>3. Building = {} /\ Building' = {}
      BY <2>1, <2>2, <3>1, <3>2 DEF Building
    <3>4. Accounted'
      BY <2>3, <3>1, <3>3 DEF Ordered, Accounted
    <3>5. ASSUME NEW j \in Slots PROVE OnItsWay(scripts[j])'
      BY <2>1, <2>2, <3>1, <3>2 DEF OnItsWay
    <3> QED BY <2>3, <3>1, <3>2, <3>4, <3>5 DEF Ordered, Alive
  <2> QED BY <2>5, <2>6 DEF UpdateInv
<1>8. ASSUME UNCHANGED <<systemd, missing, remote, head, gap, running, lastGood, unbuilt,
                         scripts, doubled>>,
             origin' \in {origin, remote}, log' \in {log, {}},
             status' = status \/ \E state \in {"success", "failed"} :
                                    status' = [state |-> state, pid |-> 0],
             settling' \subseteq Outcomes, asked' \in Nat
      PROVE  UpdateInv'
  <2>1. status' \in [state : States, pid : Slots \cup {0}]
    BY <1>8 DEF States, UpdateInv, UpdateTypeOK
  <2>2. status'.state = "running" => status.state = "running"
    BY <1>8
  <2>3. UpdateTypeOK' /\ (\A j \in Slots : KnownTo(scripts[j]))'
    BY <1>8, <2>1 DEF UpdateInv, UpdateTypeOK, KnownTo
  <2>4. ASSUME ~doubled' PROVE Ordered'
    <3>1. Ordered /\ Marked' => Marked
      BY <1>8, <2>4 DEF UpdateInv, Marked
    <3>2. Ordered
      BY <1>8, <2>4 DEF UpdateInv
    <3>3. UNCHANGED Building
      BY <1>8 DEF Building, Due, Changed, Between
    <3>4. origin' \in Nat /\ origin <= origin' /\ origin' <= remote
      BY <1>0, <1>8, <3>2 DEF Ordered
    <3>5. \A d \in gap : d[1] \in Nat /\ d[1] <= origin'
      <4>1. \A d \in gap : d[1] \in Nat /\ d[1] <= origin
        BY <1>0, <3>2, ChangeOf DEF Ordered, Accounted
      <4> QED BY <1>0, <3>4, <4>1
    <3>6. Accounted'
      BY <1>8, <3>2, <3>3, <3>5 DEF Ordered, Accounted
    <3>7. ASSUME NEW j \in Slots PROVE OnItsWay(scripts[j])'
      BY <1>8, <3>1, <3>2 DEF Ordered, OnItsWay, Level
    <3>8. (lastGood <= head /\ head <= origin /\ origin <= remote)'
      BY <1>0, <1>8, <3>2, <3>4 DEF Ordered
    <3> QED BY <1>8, <2>2, <3>1, <3>2, <3>6, <3>7, <3>8 DEF Ordered, Alive, Level
  <2> QED BY <2>3, <2>4 DEF UpdateInv
<1>9. ASSUME NEW unread, NEW asks \in BOOLEAN, Judge(unread, asks) PROVE UpdateInv'
  <2>1. [state |-> Outcome(unread), asks |-> asks] \in Outcomes
    BY DEF Outcome, Outcomes
  <2>2. /\ UNCHANGED <<systemd, missing, remote, origin, head, gap, running, lastGood, unbuilt,
                       scripts, log, status, asked, doubled>>
        /\ settling' \subseteq Outcomes /\ asked \in Nat
    BY <1>9, <2>1 DEF Judge, codeVars, UpdateInv, UpdateTypeOK
  <2> QED BY <1>8, <2>2
<1>10. ASSUME NEW r \in settling, NEW fails, SettleWrites(r, fails) PROVE UpdateInv'
  <2>1. r.state \in {"success", "failed"} /\ settling \subseteq Outcomes /\ asked \in Nat
    BY DEF UpdateInv, UpdateTypeOK, Outcomes
  <2>2. /\ UNCHANGED <<systemd, missing, remote, origin, head, gap, running, lastGood, unbuilt,
                       scripts, log, doubled>>
        /\ status' = status \/ status' = [state |-> r.state, pid |-> 0]
        /\ settling' \subseteq Outcomes /\ asked' \in Nat
    BY <1>10, <2>1 DEF SettleWrites, codeVars
  <2> QED BY <1>8, <2>1, <2>2
<1>11. ASSUME NEW misread \in BOOLEAN, NEW unread, AskUpdate(misread, unread) PROVE UpdateInv'
  <2>1. CASE Judge(unread, TRUE)
    BY <1>9, <2>1
  <2>2. CASE ~Judge(unread, TRUE)
    <3>1. /\ UNCHANGED <<systemd, missing, remote, origin, head, gap, running, lastGood, unbuilt,
                         scripts, log, status, settling, doubled>>
          /\ asked' = asked + 1
      BY <1>11, <2>2 DEF AskUpdate, codeVars
    <3>2. asked \in Nat /\ settling \subseteq Outcomes
      BY DEF UpdateInv, UpdateTypeOK
    <3> QED BY <1>8, <3>1, <3>2
  <2> QED BY <2>1, <2>2
<1>12. CASE StartFails \/ CheckRemote
  <2>1. /\ UNCHANGED <<systemd, missing, remote, head, gap, running, lastGood, unbuilt,
                       scripts, status, settling, doubled>>
        /\ origin' \in {origin, remote} /\ log' \in {log, {}}
        /\ asked' \in Nat /\ settling \subseteq Outcomes
    BY <1>12 DEF StartFails, CheckRemote, codeVars, requestVars, UpdateInv, UpdateTypeOK
  <2> QED BY <1>8, <2>1
<1>13. CASE ServiceRestarts
  <2>1. NoProcess \in Record /\ KnownTo(NoProcess) /\ NoProcess.step = "none"
    BY DEF NoProcess, Process, ScriptSteps, KnownTo
  <2>2. /\ UNCHANGED <<systemd, missing, remote, origin, head, gap, lastGood, log, status,
                       doubled>>
        /\ scripts' = [i \in Slots |-> NoProcess]
        /\ running' = head /\ unbuilt' = unbuilt \cup Building
        /\ asked' = 0 /\ settling' = {}
    BY <1>13 DEF ServiceRestarts
  <2>3. Building \subseteq Versions \X Parts
    BY <1>0 DEF Building, Due
  <2>4. UpdateTypeOK' /\ (\A j \in Slots : KnownTo(scripts[j]))'
    BY <2>1, <2>2, <2>3 DEF UpdateInv, UpdateTypeOK
  <2>5. ASSUME ~doubled' PROVE Ordered'
    <3>1. Ordered /\ \A i \in Slots : scripts'[i].step = "none"
      BY <2>1, <2>2, <2>5 DEF UpdateInv
    <3>2. Accounted'
      BY <2>2, <3>1 DEF Ordered, Accounted
    <3> QED BY <2>2, <3>1, <3>2 DEF Ordered, OnItsWay, Alive, Marked, Level
  <2> QED BY <2>4, <2>5 DEF UpdateInv
<1>14. CASE Rollback
  <2>1. /\ head' = lastGood /\ lastGood \in Versions /\ gap' = Differ(head, lastGood)
        /\ unbuilt' = unbuilt \ (Between(head, lastGood) \X Parts)
    BY <1>14 DEF Rollback, UpdateInv, UpdateTypeOK
  <2>2. gap' \subseteq Versions \X Parts
    BY <2>1, DifferStays DEF UpdateInv
  <2>3. UNCHANGED <<systemd, missing, remote, origin, running, lastGood, scripts, log, status,
                    settling, asked, doubled>>
    BY <1>14 DEF Rollback, requestVars
  <2>4. UpdateTypeOK' /\ (\A j \in Slots : KnownTo(scripts[j]))'
    BY <2>1, <2>2, <2>3 DEF UpdateInv, UpdateTypeOK, KnownTo
  <2>5. ASSUME ~doubled' PROVE Ordered'
    <3>1. Ordered /\ (\A i \in Slots : scripts[i].step = "none") /\ status.state # "running"
      BY <1>14, <2>3, <2>5 DEF Rollback, Alive, UpdateInv
    <3>2. Building = {} /\ lastGood <= head /\ head <= origin /\ origin <= remote
      BY <3>1 DEF Ordered, Building
    <3>3. ASSUME NEW d \in gap'
          PROVE  d[1] <= origin /\ (d[1] > lastGood \/ d \in unbuilt')
      <4>1. d \in Versions \X Parts /\ d[1] \in Nat /\ d[1] \in Versions
        BY <2>2, ChangeOf
      <4>2. CASE d \in gap /\ d[1] \notin Between(head, lastGood)
        <5>1. d[1] <= origin /\ (d[1] > head \/ d \in unbuilt)
          BY <3>1, <3>2, <4>2 DEF Ordered, Accounted
        <5>2. d \notin Between(head, lastGood) \X Parts
          BY <4>1, <4>2, ChangeOf
        <5> QED BY <1>0, <2>1, <3>2, <4>1, <5>1, <5>2
      <4>3. CASE d[1] \in Between(head, lastGood)
        BY <1>0, <3>2, <4>1, <4>3 DEF Between
      <4> QED BY <2>1, <4>2, <4>3, DifferStays DEF UpdateInv
    <3>4. Accounted'
      BY <2>1, <2>3, <3>3 DEF Accounted
    <3>5. (lastGood <= head /\ head <= origin /\ origin <= remote)'
      BY <1>0, <2>1, <2>3, <3>2
    <3> QED BY <2>3, <3>1, <3>4, <3>5 DEF Ordered, Alive, OnItsWay
  <2> QED BY <2>4, <2>5 DEF UpdateInv
<1>15. CASE Publish
  <2>1. remote' = remote + 1 /\ remote' \in Versions
    BY <1>15 DEF Publish
  <2>2. UNCHANGED <<systemd, missing, origin, head, gap, running, lastGood, unbuilt, scripts,
                    log, status, settling, asked, doubled>>
    BY <1>15 DEF Publish, requestVars
  <2>3. UpdateTypeOK' /\ (\A j \in Slots : KnownTo(scripts[j]))'
    BY <2>1, <2>2 DEF UpdateInv, UpdateTypeOK, KnownTo
  <2>4. ASSUME ~doubled' PROVE Ordered'
    <3>1. Ordered
      BY <2>2, <2>4 DEF UpdateInv
    <3>2. UNCHANGED Building
      BY <2>2 DEF Building, Due, Changed, Between
    <3>3. Accounted'
      BY <2>2, <3>1, <3>2 DEF Ordered, Accounted
    <3>4. (lastGood <= head /\ head <= origin /\ origin <= remote)'
      BY <1>0, <2>1, <2>2, <3>1 DEF Ordered
    <3>5. ASSUME NEW j \in Slots PROVE OnItsWay(scripts[j])'
      BY <2>2, <3>1 DEF Ordered, OnItsWay, Marked, Level
    <3> QED BY <2>2, <3>1, <3>3, <3>4, <3>5 DEF Ordered, Alive, Marked, Level
  <2> QED BY <2>3, <2>4 DEF UpdateInv
<1>16. CASE Person \/ Cleanup
  BY <1>1, <1>16 DEF Person, Cleanup, Shoot, Review
<1>17. CASE UpdateRequest
  BY <1>7, <1>9, <1>10, <1>11, <1>12, <1>14, <1>15, <1>17 DEF UpdateRequest, GetState
<1>18. ASSUME NEW i \in Slots, Script(i) \/ ScriptFailure(i) PROVE UpdateInv'
  BY <1>2, <1>3, <1>4, <1>5, <1>6, <1>18 DEF Script, ScriptFailure
<1>19. CASE Restart
  BY <1>13, <1>19 DEF Restart, ScriptRestarts
<1> QED BY <1>1, <1>16, <1>17, <1>18, <1>19 DEF Next, vars

\* For any number of versions, parts and processes, and whichever tools are
\* missing: what differs from the code when an update is found to be a success
\* is what a script gave up in its build, or has still to make, unless two
\* scripts have run at the same time.
THEOREM SuccessIsTrue == Spec => SuccessIsInstalled
<1> DEFINE A == \A r \in settling' \ settling :
          r.state = "success" => gap' \subseteq unbuilt' \cup Building' \/ doubled'
<1>1. UpdateInv /\ [Next]_vars => [A]_vars
  <2> SUFFICES ASSUME UpdateInv, Next, NEW r \in settling' \ settling,
                      r.state = "success", ~doubled'
               PROVE  gap' \subseteq unbuilt' \cup Building'
    OBVIOUS
  <2>1. ASSUME UNCHANGED settling \/ settling' \subseteq settling PROVE FALSE
    BY <2>1
  <2>2. PICK unread \in BOOLEAN, asks \in BOOLEAN :
            Judge(unread, asks) /\ status.state = "running"
    <3>1. ~Person /\ ~Cleanup /\ ~Restart
      BY <2>1 DEF Person, Cleanup, Shoot, Review, updateVars, requestVars, Restart,
                  ScriptRestarts, ServiceRestarts
    <3>2. ASSUME NEW i \in Slots PROVE ~Script(i) /\ ~ScriptFailure(i)
      BY <2>1 DEF Script, ScriptFailure, BeginScript, Fetch, Merge, Build, ScriptFails,
                  ScriptDone, ScriptOnly, requestVars
    <3>3. UpdateRequest
      BY <3>1, <3>2 DEF Next
    <3> QED BY <2>1, <3>3 DEF UpdateRequest, GetState, AskUpdate, Over, SettleWrites,
                              StartScript, StartFails, CheckRemote, Rollback, Publish, requestVars
  <2>3. r.state = Outcome(unread)
    BY <2>2 DEF Judge
  <2>4. Marked
    BY <2>3 DEF Outcome, Marked
  <2>5. UNCHANGED <<scripts, gap, head, unbuilt, doubled>>
    BY <2>2 DEF Judge, codeVars
  <2>6. UNCHANGED Building
    BY <2>5 DEF Building, Due, Changed, Between
  <2>7. Ordered
    BY <2>5 DEF UpdateInv
  <2>8. ASSUME NEW d \in gap PROVE d \in unbuilt \cup Building
    <3>1. d[1] \in Nat /\ head \in Nat
      BY ChangeOf, UpdaterAssumption DEF UpdateInv, UpdateTypeOK
    <3>2. d[1] <= head
      BY <2>2, <2>4, <2>7 DEF Ordered, Level
    <3> QED BY <2>7, <3>1, <3>2 DEF Ordered, Accounted
  <2> QED BY <2>5, <2>6, <2>8
<1>2. Spec => []UpdateInv
  BY UpdateInitially, UpdateStays, PTL DEF Spec
<1> QED BY <1>1, <1>2, PTL DEF Spec, SuccessIsInstalled

-----------------------------------------------------------------------------
(* The types *)

\* A function on 1 .. n is a sequence.
LEMMA FunctionIsSeq ==
    ASSUME NEW n \in Nat, NEW T, NEW f \in [1 .. n -> T]
    PROVE  f \in Seq(T) /\ Len(f) = n
  OBVIOUS

\* The rows of a shot, and the same rows after reviews, are as many.
LEMMA RowsAreSeq ==
    ASSUME NEW s, IsShot(s)
    PROVE  \E n \in Nat : DOMAIN RowsOf(s) = 1 .. n /\ Len(RowsOf(s)) = n
<1>1. CASE IsCount(s)
  <2>1. RowsOf(s) = <<CountRow(s)>>
    BY <1>1 DEF RowsOf
  <2> HIDE DEF RowsOf
  <2>2. DOMAIN <<CountRow(s)>> = 1 .. 1 /\ Len(<<CountRow(s)>>) = 1
    OBVIOUS
  <2> QED BY <2>1, <2>2
<1>2. CASE ~IsCount(s)
  <2> DEFINE T == {TubeRow(s, Verdicts(s)[i]) : i \in DOMAIN s.tubes}
  <2>1. DOMAIN s.tubes = 1 .. Len(s.tubes) /\ Len(s.tubes) \in Nat
    BY DEF IsShot
  <2>2. RowsOf(s) = [i \in DOMAIN s.tubes |-> TubeRow(s, Verdicts(s)[i])]
    BY <1>2 DEF RowsOf
  <2>3. RowsOf(s) \in [1 .. Len(s.tubes) -> T]
    BY <2>1, <2>2
  <2>4. DOMAIN RowsOf(s) = 1 .. Len(s.tubes)
    BY <2>3
  <2>5. Len(RowsOf(s)) = Len(s.tubes)
    <3> HIDE DEF T
    <3> QED BY <2>1, <2>3, FunctionIsSeq
  <2> QED BY <2>1, <2>4, <2>5
<1> QED BY <1>1, <1>2

LEMMA VerdictIsOne == ASSUME NEW s, IsShot(s) PROVE FrameVerdict(s) \in {"OK", "NG"}
<1>1. CASE IsCount(s) \/ Several(s)
  BY <1>1 DEF FrameVerdict, CountVerdict, BatchVerdict
<1>2. CASE ~IsCount(s) /\ ~Several(s)
  <2>1. Len(s.tubes) = 1 /\ 1 \in DOMAIN s.tubes
    BY <1>2 DEF IsShot, IsCount, Several
  <2> DEFINE v == Judged(s.tubes[1], s.stage, Several(s))
  <2>2. v.final \in {"OK", "NG"} /\ v = [final |-> v.final, codes |-> v.codes, review |-> v.review]
    BY DEF Judged, ErrorVerdict
  <2>3. Verdicts(s)[1] = [v EXCEPT !.review = v.review \/ (Several(s) /\ ~s.sure)]
    BY <2>1 DEF Verdicts
  <2> HIDE DEF v
  <2>4. Verdicts(s)[1].final = v.final
    BY <2>2, <2>3
  <2> QED BY <1>2, <2>2, <2>4 DEF FrameVerdict
<1> QED BY <1>1, <1>2

\* What a person has said of a row.
ManualInv ==
    /\ \A k \in DOMAIN rows : \A i \in DOMAIN rows[k] : rows[k][i].manual \in {"none", "OK", "NG"}
    /\ red \in BOOLEAN

\* At the start no row has been stored, so none has been reviewed.
LEMMA InitiallyUnread == Init => ManualInv
<1> SUFFICES ASSUME Init PROVE ManualInv
  OBVIOUS
<1>1. rows = <<>> /\ red = FALSE
  BY DEF Init
<1>2. DOMAIN <<>> = {}
  OBVIOUS
<1>3. DOMAIN rows = {} /\ red \in BOOLEAN
  BY <1>1, <1>2
<1> QED BY <1>3 DEF ManualInv

LEMMA ManualStep == FiledInv /\ ManualInv /\ [Next]_vars => ManualInv'
<1> SUFFICES ASSUME FiledInv, ManualInv, [Next]_vars PROVE ManualInv'
  OBVIOUS
<1>1. PICK S : rows \in Seq(S)
  BY DEF FiledInv
<1>2. ASSUME NEW s, Shoot(s) PROVE ManualInv'
  <2>1. rows \in Seq(S \cup {RowsOf(s)}) /\ rows' = Append(rows, RowsOf(s))
    BY <1>1, <1>2 DEF Shoot
  <2>2. \A k \in DOMAIN rows' : rows'[k] = RowsOf(s) \/ (k \in DOMAIN rows /\ rows'[k] = rows[k])
    BY <2>1
  <2>3. \A i \in DOMAIN RowsOf(s) : RowsOf(s)[i].manual = "none"
    BY RowsAreRows DEF Row
  <2>4. red' \in BOOLEAN
    BY <1>2 DEF Shoot, TowerRed
  <2> QED BY <2>2, <2>3, <2>4 DEF ManualInv
<1>3. ASSUME NEW k \in DOMAIN rows, NEW i \in DOMAIN rows[k], NEW v \in {"OK", "NG"}, Review(k, i, v)
      PROVE  ManualInv'
  <2> DEFINE new == Reviewed(rows[k][i], v)
             changed == [rows[k] EXCEPT ![i] = new]
  <2>1. rows' = [rows EXCEPT ![k] = changed] /\ UNCHANGED red
    BY <1>3 DEF Review
  <2>2. k \in DOMAIN taken /\ i \in DOMAIN rows[k]
    BY DEF FiledInv
  <2>3. PICK T : rows[k] \in [DOMAIN RowsOf(taken[k]) -> T]
    BY <2>2 DEF FiledInv, RowsTrue
  <2>4. new.manual = v
    <3>1. PICK U : rows[k][i] \in [RowFields -> U]
      BY <2>2, <2>3 DEF FiledInv, RowsTrue, IsReviewed
    <3> QED BY <3>1 DEF Reviewed, RowFields
  <2> HIDE DEF new
  <2>5. /\ DOMAIN changed = DOMAIN rows[k] /\ changed[i] = new
        /\ \A j \in DOMAIN rows[k] : j # i => changed[j] = rows[k][j]
    BY <2>3
  <2> HIDE DEF changed
  <2>6. /\ DOMAIN rows' = DOMAIN rows /\ rows'[k] = changed
        /\ \A j \in DOMAIN rows : j # k => rows'[j] = rows[j]
    BY <1>1, <2>1
  <2> QED BY <2>1, <2>4, <2>5, <2>6 DEF ManualInv
<1>4. CASE UNCHANGED <<rows, red>>
  BY <1>4 DEF ManualInv
<1> QED BY <1>2, <1>3, <1>4
        DEF Next, vars, siteVars, Person, Cleanup, UpdateRequest, Script, ScriptFailure, Restart

\* What lies on the disk, where the cleanup is, and the room left.
RoomInv ==
    /\ \A n \in DOMAIN age : age[n] \in 0 .. MaxAge
    /\ cleaner.step \in {"idle", "expire", "check", "bucket", "drop"}
    /\ FreeRoom >= 0

LEMMA PicturesOnDisk == ASSUME FiledInv, CleanerInv PROVE \A n \in DOMAIN age : IsPicture(n)
  BY VerdictIsOne DEF FiledInv, RowsTrue, PicturesTrue, CleanerInv, IsPicture

\* The pictures of a shot lie in buckets of their own, so those that are
\* written fit: all but the last one were there before it.
LEMMA FittingFits ==
    ASSUME NEW s, IsShot(s), FreeRoom \in Nat
    PROVE  IsFiniteSet(Fitting(Named(s))) /\ Cardinality(Fitting(Named(s))) <= FreeRoom
<1> DEFINE N == Named(s)
<1>1. \A n \in N : Bucket(n) \in 1 .. 4
  BY DEF Named, PicturesOf, Bucket
<1>2. \A n, m \in N : Bucket(n) = Bucket(m) => n = m
  <2> SUFFICES ASSUME NEW n \in N, NEW m \in N, Bucket(n) = Bucket(m) PROVE n = m
    OBVIOUS
  <2>1. /\ n = [shot |-> Len(taken) + 1, dir |-> n.dir, verdict |-> FrameVerdict(s)]
        /\ m = [shot |-> Len(taken) + 1, dir |-> m.dir, verdict |-> FrameVerdict(s)]
        /\ n.dir \in Folders /\ m.dir \in Folders
    BY DEF Named, PicturesOf, Folders
  <2>2. n.dir = m.dir
    BY <2>1 DEF Bucket, Folders
  <2> QED BY <2>1, <2>2
<1>3. IsFiniteSet(N)
  BY FewPictures
<1> HIDE DEF N
<1>4. Fitting(N) \subseteq N /\ IsFiniteSet(Fitting(N))
  BY <1>3, FS_Subset DEF Fitting
<1>5. CASE Fitting(N) = {}
  BY <1>4, <1>5, FS_EmptySet DEF N
<1>6. CASE Fitting(N) # {}
  <2>1. PICK last \in Fitting(N) : \A m \in Fitting(N) : Bucket(m) <= Bucket(last)
    <3>1. \A n \in Fitting(N) : Bucket(n) \in 1 .. 4
      BY <1>1, <1>4
    <3>2. CASE \E n \in Fitting(N) : Bucket(n) = 4
      BY <3>1, <3>2
    <3>3. CASE (\E n \in Fitting(N) : Bucket(n) = 3) /\ \A n \in Fitting(N) : Bucket(n) # 4
      BY <3>1, <3>3
    <3>4. CASE /\ \E n \in Fitting(N) : Bucket(n) = 2
               /\ \A n \in Fitting(N) : Bucket(n) \notin {3, 4}
      BY <3>1, <3>4
    <3>5. CASE \A n \in Fitting(N) : Bucket(n) = 1
      BY <1>6, <3>5
    <3> QED BY <3>1, <3>2, <3>3, <3>4, <3>5
  <2> DEFINE below == {m \in N : Bucket(m) < Bucket(last)}
  <2>2. Cardinality(below) < FreeRoom
    BY <2>1 DEF Fitting
  <2>3. Fitting(N) \ {last} \subseteq below
    <3> SUFFICES ASSUME NEW m \in Fitting(N), m # last PROVE Bucket(m) < Bucket(last)
      BY <1>4
    <3>1. m \in N /\ last \in N
      BY <1>4
    <3> QED BY <1>1, <1>2, <2>1, <3>1
  <2>4. IsFiniteSet(below) /\ Cardinality(below) \in Nat
    BY <1>3, FS_Subset, FS_CardinalityType
  <2> HIDE DEF below
  <2>5. Cardinality(Fitting(N) \ {last}) <= Cardinality(below)
    BY <2>3, <2>4, FS_Subset
  <2>6. Cardinality(Fitting(N) \ {last}) = Cardinality(Fitting(N)) - 1
    BY <1>4, FS_RemoveElement
  <2>7. Cardinality(Fitting(N)) \in Nat
    BY <1>4, FS_CardinalityType
  <2>8. Cardinality(Fitting(N)) <= FreeRoom
    BY <2>2, <2>4, <2>5, <2>6, <2>7
  <2> QED BY <1>4, <2>8 DEF N
<1> QED BY <1>5, <1>6

LEMMA TogetherAtMost ==
    ASSUME NEW S, IsFiniteSet(S), NEW T, IsFiniteSet(T)
    PROVE  /\ Cardinality(S) \in Nat /\ Cardinality(T) \in Nat
           /\ Cardinality(S \cup T) \in Nat
           /\ Cardinality(S \cup T) <= Cardinality(S) + Cardinality(T)
<1>1. IsFiniteSet(S \cup T) /\ IsFiniteSet(S \cap T)
  BY FS_Union, FS_Subset
<1>2. Cardinality(S \cap T) \in Nat /\ Cardinality(S) \in Nat
      /\ Cardinality(T) \in Nat /\ Cardinality(S \cup T) \in Nat
  BY <1>1, FS_CardinalityType
<1>3. Cardinality(S \cup T) = Cardinality(S) + Cardinality(T) - Cardinality(S \cap T)
  BY FS_Union
<1> QED BY <1>2, <1>3

LEMMA RoomStep ==
    ASSUME FiledInv, CleanerInv, CleanerInv', RoomInv, [Next]_vars
    PROVE  RoomInv'
<1> DEFINE Aged == \A n \in DOMAIN age' : age'[n] \in 0 .. MaxAge
           Listed == cleaner'.step \in {"idle", "expire", "check", "bucket", "drop"}
<1>1. FreeRoom \in Nat /\ FreeRoom' \in Int
  <2>1. IsFiniteSet(DOMAIN age) /\ IsFiniteSet(DOMAIN age')
    BY DEF CleanerInv
  <2>2. Cardinality(DOMAIN age) \in Nat /\ Cardinality(DOMAIN age') \in Nat
    BY <2>1, FS_CardinalityType
  <2> QED BY <2>2, RetentionAssumption DEF FreeRoom, RoomInv
<1>2. PICK S, I, L : cleaner \in [step : S, items : I, list : L, blind : BOOLEAN]
  BY DEF CleanerInv, Works
<1>3. ASSUME DOMAIN age' \subseteq DOMAIN age PROVE FreeRoom' >= 0
  <2>1. IsFiniteSet(DOMAIN age)
    BY DEF CleanerInv
  <2>2. Cardinality(DOMAIN age') <= Cardinality(DOMAIN age)
    BY <1>3, <2>1, FS_Subset
  <2>3. Cardinality(DOMAIN age) \in Nat /\ Cardinality(DOMAIN age') \in Nat
    BY <2>1, FS_CardinalityType DEF CleanerInv
  <2> QED BY <2>2, <2>3, RetentionAssumption DEF FreeRoom, RoomInv
<1>4. UNCHANGED age => Aged /\ FreeRoom' >= 0
  BY <1>3 DEF RoomInv
<1>5. UNCHANGED cleaner => Listed
  BY DEF RoomInv
<1>6. cleaner' \in {Idle, Booted} => Listed
  BY AtWorks DEF Idle, Booted
<1>7. ASSUME NEW gone, age' = Without(gone) PROVE Aged /\ FreeRoom' >= 0
  <2>1. DOMAIN age' \subseteq DOMAIN age /\ \A n \in DOMAIN age' : age'[n] = age[n]
    BY <1>7 DEF Without
  <2> QED BY <1>3, <2>1 DEF RoomInv
<1>8. ASSUME NEW s \in Menus[left.menu], Shoot(s) PROVE RoomInv'
  <2>1. IsShot(s)
    BY SiteAssumption DEF FiledInv, MenuStays
  <2> DEFINE F == Fitting(Named(s))
  <2>2. IsFiniteSet(F) /\ Cardinality(F) <= FreeRoom
    BY <1>1, <2>1, FittingFits
  <2> HIDE DEF F
  <2>3. /\ age' = [n \in DOMAIN age \cup F |-> IF n \in F THEN 0 ELSE age[n]]
        /\ UNCHANGED cleaner
    BY <1>8 DEF Shoot, Write, F
  <2>4. Aged
    BY <2>3, RetentionAssumption DEF RoomInv
  <2>5. IsFiniteSet(DOMAIN age)
    BY DEF CleanerInv
  <2>6. /\ Cardinality(DOMAIN age) \in Nat /\ Cardinality(F) \in Nat
        /\ Cardinality(DOMAIN age \cup F) \in Nat
        /\ Cardinality(DOMAIN age \cup F) <= Cardinality(DOMAIN age) + Cardinality(F)
    BY <2>2, <2>5, TogetherAtMost
  <2>7. DOMAIN age' = DOMAIN age \cup F
    BY <2>3
  <2>8. FreeRoom' >= 0
    BY <2>2, <2>6, <2>7, RetentionAssumption DEF FreeRoom
  <2> QED BY <1>5, <2>3, <2>4, <2>8 DEF RoomInv
<1>9. CASE Cleanup
  <2>1. NewDay => RoomInv'
    <3> SUFFICES ASSUME NewDay PROVE RoomInv'
      OBVIOUS
    <3>1. /\ age' = [n \in DOMAIN age |-> IF age[n] < MaxAge THEN age[n] + 1 ELSE MaxAge]
          /\ UNCHANGED cleaner
      BY DEF NewDay
    <3>2. Aged
      BY <3>1, RetentionAssumption DEF RoomInv
    <3> QED BY <1>3, <1>5, <3>1, <3>2 DEF RoomInv
  <2>2. WakeCleaner => RoomInv'
    BY <1>4, <1>6 DEF WakeCleaner, RoomInv
  <2>3. ASSUME NEW fails, NEW unread, CheckRoom(fails, unread) PROVE RoomInv'
    <3>1. /\ UNCHANGED age
          /\ cleaner' = Idle \/ \E list : cleaner' = At("bucket", {}, list)
      BY <2>3 DEF CheckRoom
    <3> QED BY <1>4, <1>6, <3>1, AtWorks DEF RoomInv
  <2>4. ASSUME NEW stuck, Expire(stuck) PROVE RoomInv'
    <3>1. cleaner'.step = "check"
      BY <1>2, <2>4 DEF Expire
    <3> QED BY <1>7, <2>4, <3>1 DEF Expire, RoomInv
  <2>5. ASSUME NEW fails, NEW unsorted, OpenBucket(fails, unsorted) PROVE RoomInv'
    <3>1. /\ UNCHANGED age
          /\ \/ cleaner' = Idle
             \/ \E list : cleaner' = At("bucket", {}, list)
             \/ \E items, list : cleaner' = At("drop", items, list)
      BY <2>5 DEF OpenBucket
    <3> QED BY <1>4, <1>6, <3>1, AtWorks DEF RoomInv
  <2>6. ASSUME NEW fails \in BOOLEAN, NEW sticks \in BOOLEAN, DropOne(fails, sticks)
        PROVE  RoomInv'
    <3>1. CASE cleaner' = At("bucket", {}, cleaner.list) /\ UNCHANGED age
      BY <1>4, <3>1, AtWorks DEF RoomInv
    <3>2. ASSUME NEW n, age' = IF sticks THEN age ELSE Without({n}),
                 cleaner' = [cleaner EXCEPT !.items = cleaner.items \ {n}, !.blind = fails]
          PROVE  RoomInv'
      <4>1. cleaner'.step = cleaner.step
        BY <1>2, <3>2
      <4> QED BY <1>4, <1>7, <3>2, <4>1 DEF RoomInv
    <3> QED BY <2>6, <3>1, <3>2 DEF DropOne
  <2> QED BY <1>9, <2>1, <2>2, <2>3, <2>4, <2>5, <2>6 DEF Cleanup
<1>10. CASE Restart
  BY <1>4, <1>6, <1>10 DEF Restart, CleanerRestarts, RoomInv
<1>11. CASE UNCHANGED retentionVars
  BY <1>4, <1>5, <1>11 DEF retentionVars, RoomInv
<1> QED BY <1>8, <1>9, <1>10, <1>11
        DEF Next, vars, Person, Review, UpdateRequest, Script, ScriptFailure

\* For every disk and every menu: a row is one of its shot, reviewed or not, a
\* picture is of a shot that was taken, and no more is written than there is
\* room for, so that the room left is never negative.
THEOREM SiteTypeCorrect == Spec => []TypeOK
<1>1. Init => RoomInv
  <2> SUFFICES ASSUME Init PROVE RoomInv
    OBVIOUS
  <2>1. DOMAIN age = {} /\ cleaner = Booted
    BY DEF Init, RetentionInit
  <2>2. FreeRoom >= 0
    BY <2>1, FS_EmptySet, RetentionAssumption DEF FreeRoom
  <2>3. cleaner.step = "expire"
    BY <2>1, AtWorks DEF Booted
  <2> QED BY <2>1, <2>2, <2>3 DEF RoomInv
<1>2. Spec => []ManualInv
  BY InitiallyUnread, FiledAlways, ManualStep, PTL DEF Spec
<1>3. Spec => []RoomInv
  BY <1>1, FiledAlways, CleanerAlways, RoomStep, PTL DEF Spec
<1>4. Spec => []UpdateInv
  BY UpdateInitially, UpdateStays, PTL DEF Spec
<1>5. FiledInv /\ CleanerInv /\ ManualInv /\ RoomInv /\ UpdateInv => TypeOK
  <2> SUFFICES ASSUME FiledInv, CleanerInv, ManualInv, RoomInv, UpdateInv PROVE TypeOK
    OBVIOUS
  <2>1. RetentionTypeOK
    <3>1. cleaner.items \cup cleaner.list \subseteq DOMAIN age /\ cleaner.blind \in BOOLEAN
      BY DEF CleanerInv, Works
    <3> QED BY <3>1, PicturesOnDisk DEF RetentionTypeOK, RoomInv
  <2>2. ASSUME NEW k \in DOMAIN taken
        PROVE  IsShot(taken[k]) /\ Len(rows[k]) = Len(RowsOf(taken[k]))
    <3>1. IsShot(taken[k])
      BY DEF FiledInv, RowsTrue
    <3>2. PICK n \in Nat : DOMAIN RowsOf(taken[k]) = 1 .. n /\ Len(RowsOf(taken[k])) = n
      BY <3>1, RowsAreSeq
    <3>3. PICK T : rows[k] \in [DOMAIN RowsOf(taken[k]) -> T]
      BY DEF FiledInv, RowsTrue
    <3>4. Len(rows[k]) = n
      BY <3>2, <3>3, FunctionIsSeq
    <3> QED BY <3>1, <3>2, <3>4
  <2>3. UpdateTypeOK
    BY DEF UpdateInv
  <2>4. \A n \in DOMAIN age : n.shot \in DOMAIN taken
    BY DEF FiledInv, PicturesTrue
  <2> QED BY <2>1, <2>2, <2>3, <2>4 DEF TypeOK, FiledInv, ManualInv, RoomInv
<1> QED BY <1>2, <1>3, <1>4, <1>5, FiledAlways, CleanerAlways, PTL

-----------------------------------------------------------------------------
(* Sums over finite sets *)

\* g gives the sum of f over each subset of S.
IsSum(f, S, g) ==
    g = [s \in SUBSET S |->
            IF s = {} THEN 0
            ELSE f[CHOOSE x \in s : TRUE] + g[s \ {CHOOSE x \in s : TRUE}]]

TheSum(f, S) == CHOOSE g : IsSum(f, S, g)

LEMMA SumUnfolds ==
    ASSUME NEW f, NEW S
    PROVE  SumFunctionOnSet(f, S) = TheSum(f, S)[S]
  BY DEF SumFunctionOnSet, FoldFunctionOnSet, MapThenFoldSet, TheSum, IsSum

\* Of a set of subsets of a finite set one has no smaller one beside it.
LEMMA SmallestSubset ==
    ASSUME NEW S, IsFiniteSet(S), NEW B \in SUBSET (SUBSET S), B # {}
    PROVE  \E T \in B : \A U \in B : U \subseteq T => U = T
<1> DEFINE R == StrictSubsetOrdering(S)
<1>1. IsWellFoundedOn(R, FiniteSubsetsOf(S))
  BY FS_StrictSubsetOrderingWellFounded
<1>2. B \subseteq FiniteSubsetsOf(S)
  BY FS_FiniteSubsetsOfFinite
<1> HIDE DEF R
<1>3. PICK T \in B : \A U \in B : <<U, T>> \notin R
  BY <1>1, <1>2, WFMin, Zenon
<1>4. ASSUME NEW U \in B, U \subseteq T, U # T PROVE <<U, T>> \in R
  BY <1>4 DEF R, StrictSubsetOrdering
<1>5. \A U \in B : U \subseteq T => U = T
  BY <1>3, <1>4
<1> QED BY <1>5

LEMMA SumsAgree ==
    ASSUME NEW f, NEW S, IsFiniteSet(S), NEW T \in SUBSET S, NEW g, NEW h,
           IsSum(f, S, g), IsSum(f, T, h)
    PROVE  \A s \in SUBSET T : g[s] = h[s]
<1> DEFINE B == {s \in SUBSET T : g[s] # h[s]}
<1> SUFFICES ASSUME B # {} PROVE FALSE
  OBVIOUS
<1>1. IsFiniteSet(T)
  BY FS_Subset
<1>2. PICK s \in B : \A U \in B : U \subseteq s => U = s
  <2>1. B \in SUBSET (SUBSET T) /\ B # {}
    OBVIOUS
  <2> HIDE DEF B
  <2> QED BY <1>1, <2>1, SmallestSubset
<1> DEFINE x == CHOOSE x \in s : TRUE
<1>3. s \in SUBSET S /\ s \in SUBSET T
  OBVIOUS
<1>4. CASE s = {}
  BY <1>3, <1>4 DEF IsSum
<1>5. CASE s # {}
  <2>1. x \in s
    BY <1>5
  <2> HIDE DEF x
  <2>2. s \ {x} \notin B /\ s \ {x} \in SUBSET T
    BY <1>2, <2>1
  <2>3. g[s \ {x}] = h[s \ {x}]
    BY <2>2
  <2>4. g[s] = f[x] + g[s \ {x}] /\ h[s] = f[x] + h[s \ {x}]
    BY <1>3, <1>5 DEF IsSum, x
  <2> QED BY <2>3, <2>4
<1> QED BY <1>4, <1>5

LEMMA SumExists ==
    ASSUME NEW f, NEW S, IsFiniteSet(S)
    PROVE  IsSum(f, S, TheSum(f, S))
<1> DEFINE B == {T \in SUBSET S : ~ \E g : IsSum(f, T, g)}
<1>1. B = {}
  <2> SUFFICES ASSUME B # {} PROVE FALSE
    OBVIOUS
  <2>1. PICK T \in B : \A U \in B : U \subseteq T => U = T
    <3>1. B \in SUBSET (SUBSET S) /\ B # {}
      OBVIOUS
    <3> HIDE DEF B
    <3> QED BY <3>1, SmallestSubset
  <2> DEFINE first(s) == CHOOSE x \in s : TRUE
             rest(s) == s \ {first(s)}
             G == [s \in SUBSET T |-> IF s = {} THEN 0 ELSE f[first(s)] + TheSum(f, rest(s))[rest(s)]]
  <2>2. ASSUME NEW U \in SUBSET T, U # T PROVE IsSum(f, U, TheSum(f, U))
    <3>1. \E g : IsSum(f, U, g)
      BY <2>1, <2>2
    <3> QED BY <3>1, Zenon DEF TheSum
  <2>3. ASSUME NEW U \in SUBSET T, U # T PROVE G[U] = TheSum(f, U)[U]
    <3>1. IsSum(f, U, TheSum(f, U))
      BY <2>2, <2>3
    <3>2. CASE U = {}
      <4>1. TheSum(f, U)[U] = 0
        BY <3>1, <3>2 DEF IsSum
      <4> QED BY <3>2, <4>1
    <3>3. CASE U # {}
      <4>1. first(U) \in U
        BY <3>3
      <4>2. rest(U) \in SUBSET U /\ rest(U) \in SUBSET T /\ rest(U) # T
        BY <4>1
      <4>3. IsSum(f, rest(U), TheSum(f, rest(U)))
        BY <2>2, <4>2
      <4>4. IsFiniteSet(U)
        BY FS_Subset
      <4>5. TheSum(f, U)[rest(U)] = TheSum(f, rest(U))[rest(U)]
        <5> DEFINE V == rest(U)
        <5> HIDE DEF V
        <5>1. \A s \in SUBSET V : TheSum(f, U)[s] = TheSum(f, V)[s]
          BY <3>1, <4>2, <4>3, <4>4, SumsAgree DEF V
        <5> QED BY <5>1 DEF V
      <4>6. TheSum(f, U)[U] = f[first(U)] + TheSum(f, U)[rest(U)]
        BY <3>1, <3>3 DEF IsSum
      <4> QED BY <3>3, <4>5, <4>6
    <3> QED BY <3>2, <3>3
  <2>4. ASSUME NEW s \in SUBSET T, s # {} PROVE G[s] = f[first(s)] + G[rest(s)]
    <3>1. first(s) \in s
      BY <2>4
    <3>2. rest(s) \in SUBSET T /\ rest(s) # T
      BY <3>1
    <3>3. G[rest(s)] = TheSum(f, rest(s))[rest(s)]
      BY <2>3, <3>2
    <3>4. G[s] = f[first(s)] + TheSum(f, rest(s))[rest(s)]
      BY <2>4
    <3> QED BY <3>3, <3>4
  <2>5. G[{}] = 0
    OBVIOUS
  <2>6. G = [s \in SUBSET T |-> IF s = {} THEN 0 ELSE f[first(s)] + G[rest(s)]]
    <3> DEFINE H == [s \in SUBSET T |-> IF s = {} THEN 0 ELSE f[first(s)] + G[rest(s)]]
    <3>1. \A s \in SUBSET T : G[s] = H[s]
      BY <2>4, <2>5
    <3>2. DOMAIN G = SUBSET T /\ G = [s \in SUBSET T |-> G[s]]
      OBVIOUS
    <3>3. H = [s \in SUBSET T |-> H[s]]
      OBVIOUS
    <3> HIDE DEF H, G
    <3> QED BY <3>1, <3>2, <3>3 DEF H
  <2>7. IsSum(f, T, G)
    <3> HIDE DEF G
    <3> QED BY <2>6 DEF IsSum
  <2> QED BY <2>7
<1>2. \E g : IsSum(f, S, g)
  BY <1>1
<1> QED BY <1>2, Zenon DEF TheSum

\* The sum over a set, by the element the fold takes first.
LEMMA SumByChoice ==
    ASSUME NEW f, NEW S, IsFiniteSet(S)
    PROVE  SumFunctionOnSet(f, S) =
             IF S = {} THEN 0
             ELSE f[CHOOSE x \in S : TRUE] + SumFunctionOnSet(f, S \ {CHOOSE x \in S : TRUE})
<1> DEFINE x == CHOOSE x \in S : TRUE
           V == S \ {x}
<1>1. IsSum(f, S, TheSum(f, S))
  BY SumExists
<1>2. S \in SUBSET S
  OBVIOUS
<1>3. TheSum(f, S)[S] = IF S = {} THEN 0 ELSE f[x] + TheSum(f, S)[V]
  BY <1>1, <1>2 DEF IsSum
<1>4. V \in SUBSET S /\ IsFiniteSet(V)
  BY FS_RemoveElement
<1> HIDE DEF x, V
<1>5. IsSum(f, V, TheSum(f, V))
  BY <1>4, SumExists
<1>6. ASSUME NEW g, NEW h, IsSum(f, S, g), IsSum(f, V, h) PROVE g[V] = h[V]
  <2>1. \A s \in SUBSET V : g[s] = h[s]
    BY <1>4, <1>6, SumsAgree
  <2> QED BY <2>1
<1>7. TheSum(f, S)[V] = TheSum(f, V)[V]
  BY <1>1, <1>5, <1>6
<1>8. SumFunctionOnSet(f, S) = TheSum(f, S)[S] /\ SumFunctionOnSet(f, V) = TheSum(f, V)[V]
  BY SumUnfolds
<1> QED BY <1>3, <1>7, <1>8 DEF x, V

\* The sum is an integer, and any element may be taken out of it.
LEMMA SumTakesOut ==
    ASSUME NEW f, NEW S, IsFiniteSet(S), \A x \in S : f[x] \in Int
    PROVE  \A T \in SUBSET S :
              /\ SumFunctionOnSet(f, T) \in Int
              /\ \A x \in T : SumFunctionOnSet(f, T) = f[x] + SumFunctionOnSet(f, T \ {x})
<1> DEFINE Ok(T) == /\ SumFunctionOnSet(f, T) \in Int
                    /\ \A x \in T : SumFunctionOnSet(f, T) = f[x] + SumFunctionOnSet(f, T \ {x})
           B == {T \in SUBSET S : ~Ok(T)}
<1>1. ASSUME NEW T \in SUBSET S, \A U \in SUBSET T : U # T => Ok(U) PROVE Ok(T)
  <2> DEFINE c == CHOOSE x \in T : TRUE
  <2>1. IsFiniteSet(T)
    BY FS_Subset
  <2>2. SumFunctionOnSet(f, T) = IF T = {} THEN 0 ELSE f[c] + SumFunctionOnSet(f, T \ {c})
    BY <2>1, SumByChoice
  <2>3. CASE T = {}
    BY <2>2, <2>3
  <2>4. CASE T # {}
    <3>1. c \in T
      BY <2>4
    <3> HIDE DEF c
    <3>2. Ok(T \ {c})
      BY <1>1, <3>1
    <3>3. f[c] \in Int /\ SumFunctionOnSet(f, T \ {c}) \in Int
      BY <3>1, <3>2
    <3>4. SumFunctionOnSet(f, T) = f[c] + SumFunctionOnSet(f, T \ {c})
      BY <2>2, <2>4
    <3>5. ASSUME NEW x \in T, x # c
          PROVE  SumFunctionOnSet(f, T) = f[x] + SumFunctionOnSet(f, T \ {x})
      <4>1. Ok(T \ {x}) /\ x \in T \ {c} /\ c \in T \ {x}
        BY <1>1, <3>1, <3>5
      <4> DEFINE both == (T \ {x}) \ {c}
      <4>2. (T \ {c}) \ {x} = both
        OBVIOUS
      <4> HIDE DEF both
      <4>3. SumFunctionOnSet(f, T \ {c}) = f[x] + SumFunctionOnSet(f, both)
        BY <3>2, <4>1, <4>2
      <4>4. SumFunctionOnSet(f, T \ {x}) = f[c] + SumFunctionOnSet(f, both)
        BY <4>1 DEF both
      <4>5. Ok(both)
        <5>1. both \in SUBSET T /\ both # T
          BY <3>1 DEF both
        <5> HIDE DEF Ok
        <5> QED BY <1>1, <5>1
      <4>6. f[x] \in Int /\ SumFunctionOnSet(f, both) \in Int
        BY <4>5
      <4> QED BY <3>3, <3>4, <4>3, <4>4, <4>6
    <3>6. SumFunctionOnSet(f, T) \in Int
      BY <3>3, <3>4
    <3>7. \A x \in T : SumFunctionOnSet(f, T) = f[x] + SumFunctionOnSet(f, T \ {x})
      BY <3>4, <3>5
    <3> QED BY <3>6, <3>7
  <2> QED BY <2>3, <2>4
<1> HIDE DEF Ok
<1>2. B = {}
  <2> SUFFICES ASSUME B # {} PROVE FALSE
    OBVIOUS
  <2>1. B \in SUBSET (SUBSET S)
    OBVIOUS
  <2> HIDE DEF B
  <2>2. PICK T \in B : \A U \in B : U \subseteq T => U = T
    BY <2>1, SmallestSubset
  <2>3. \A U \in SUBSET T : U # T => Ok(U)
    BY <2>1, <2>2 DEF B
  <2> QED BY <1>1, <2>1, <2>2, <2>3 DEF B
<1>3. \A T \in SUBSET S : Ok(T)
  BY <1>2
<1> QED BY <1>3 DEF Ok

\* Disjoint finite sets have together as many elements as the sum says.
LEMMA TogetherInSum ==
    ASSUME NEW W, IsFiniteSet(W), NEW F, \A w \in W : IsFiniteSet(F[w]),
           \A v, w \in W : v # w => F[v] \cap F[w] = {},
           NEW f, \A w \in W : f[w] = Cardinality(F[w])
    PROVE  /\ IsFiniteSet(UNION {F[w] : w \in W})
           /\ SumFunctionOnSet(f, W) = Cardinality(UNION {F[w] : w \in W})
<1> DEFINE All(T) == UNION {F[w] : w \in T}
           Ok(T) == IsFiniteSet(All(T)) /\ SumFunctionOnSet(f, T) = Cardinality(All(T))
           B == {T \in SUBSET W : ~Ok(T)}
<1>1. \A w \in W : f[w] \in Int
  BY FS_CardinalityType
<1>2. ASSUME NEW T \in SUBSET W, \A U \in SUBSET T : U # T => Ok(U) PROVE Ok(T)
  <2>1. CASE T = {}
    <3>1. All(T) = {}
      BY <2>1
    <3>2. SumFunctionOnSet(f, {}) = 0
      BY FS_EmptySet, SumByChoice
    <3> QED BY <2>1, <3>1, <3>2, FS_EmptySet
  <2>2. ASSUME NEW w \in T PROVE Ok(T)
    <3> DEFINE V == T \ {w}
    <3>1. V \in SUBSET T /\ V # T
      OBVIOUS
    <3>2. Ok(V)
      BY <1>2, <3>1
    <3>3. All(T) = All(V) \cup F[w]
      OBVIOUS
    <3>4. All(V) \cap F[w] = {}
      OBVIOUS
    <3>5. IsFiniteSet(F[w]) /\ IsFiniteSet(All(V))
      BY <3>2
    <3> DEFINE A == All(V)
               C == F[w]
    <3>6. SumFunctionOnSet(f, T) = f[w] + SumFunctionOnSet(f, V)
      BY <1>1, SumTakesOut
    <3>7. f[w] = Cardinality(C) /\ SumFunctionOnSet(f, V) = Cardinality(A)
      BY <3>2
    <3> HIDE DEF A, C
    <3>8. /\ IsFiniteSet(A \cup C)
          /\ Cardinality(A \cup C) = Cardinality(A) + Cardinality(C) - Cardinality(A \cap C)
      BY <3>5, FS_Union DEF A, C
    <3>9. Cardinality(A \cap C) = 0
      BY <3>4, FS_EmptySet DEF A, C
    <3>10. Cardinality(A) \in Nat /\ Cardinality(C) \in Nat
      BY <3>5, FS_CardinalityType DEF A, C
    <3>11. All(T) = A \cup C
      BY <3>3 DEF A, C
    <3> HIDE DEF All, V
    <3>12. SumFunctionOnSet(f, T) = Cardinality(A \cup C)
      BY <3>6, <3>7, <3>8, <3>9, <3>10
    <3> QED BY <3>8, <3>11, <3>12
  <2> QED BY <2>1, <2>2
<1> HIDE DEF Ok
<1>3. B = {}
  <2> SUFFICES ASSUME B # {} PROVE FALSE
    OBVIOUS
  <2>1. B \in SUBSET (SUBSET W)
    OBVIOUS
  <2> HIDE DEF B
  <2>2. PICK T \in B : \A U \in B : U \subseteq T => U = T
    BY <2>1, SmallestSubset
  <2>3. \A U \in SUBSET T : U # T => Ok(U)
    BY <2>1, <2>2 DEF B
  <2> QED BY <1>2, <2>1, <2>2, <2>3 DEF B
<1>4. Ok(W)
  BY <1>3
<1> QED BY <1>4 DEF Ok

\* The sum of a pair.
LEMMA SumOfTwo ==
    ASSUME NEW f, f[1] \in Int, f[2] \in Int
    PROVE  SumFunctionOnSet(f, {1, 2}) = f[1] + f[2]
<1> DEFINE S == {1, 2}
<1>1. IsFiniteSet(S)
  <2>1. IsFiniteSet({1})
    BY FS_Singleton
  <2>2. IsFiniteSet({1} \cup {2})
    BY <2>1, FS_AddElement, Zenon
  <2>3. {1} \cup {2} = S
    OBVIOUS
  <2> HIDE DEF S
  <2> QED BY <2>2, <2>3
<1>0. \A x \in S : f[x] \in Int
  OBVIOUS
<1>2. \A T \in SUBSET S :
         /\ SumFunctionOnSet(f, T) \in Int
         /\ \A x \in T : SumFunctionOnSet(f, T) = f[x] + SumFunctionOnSet(f, T \ {x})
  <2> HIDE DEF S
  <2> QED BY <1>1, <1>0, SumTakesOut
<1>3. SumFunctionOnSet(f, {1, 2}) = f[1] + SumFunctionOnSet(f, {2})
  BY <1>2, {1, 2} \ {1} = {2}
<1>4. SumFunctionOnSet(f, {2}) = f[2] + SumFunctionOnSet(f, {})
  BY <1>2, {2} \ {2} = {}
<1>5. SumFunctionOnSet(f, {}) = 0
  BY FS_EmptySet, SumByChoice
<1> QED BY <1>3, <1>4, <1>5

-----------------------------------------------------------------------------
(* The figures *)

\* Rows that can be counted: finitely many, each of a stage there is, with the
\* verdict of the station and perhaps that of a person.
Countable(R) ==
    /\ IsFiniteSet(DOMAIN R)
    /\ \A i \in DOMAIN R :
          /\ R[i].stage \in Stages
          /\ R[i].final \in {"OK", "NG"}
          /\ R[i].manual \in {"none", "OK", "NG"}

\* The product rows among these places whose verdict is NG in the end.
Defects(R, at) == {i \in at : R[i].stage # CrateStage /\ FinalNg(R[i])}

\* The same with the verdict OK.
Passed(R, at) == {i \in at : R[i].stage # CrateStage /\ ~FinalNg(R[i])}

\* Rows of an order the MES does not know, on a lot it does.
Unlisted(R) ==
    {i \in Sent(R) :
        /\ R[i].order \notin DOMAIN LotOf \cup {NoWorkOrder}
        /\ \E w \in DOMAIN LotOf : R[i].lot = LotOf[w]}

\* The two product stages and the crates are all stages.
LEMMA ProductOrCrate ==
    ASSUME NEW R, Countable(R), NEW i \in DOMAIN R
    PROVE  R[i].stage # CrateStage
             <=> R[i].stage = ProductStages[1] \/ R[i].stage = ProductStages[2]
  BY DEF Countable, Stages, CrateStage, ProductStages

\* The defects of a production, a sum over the stages, are the rows that are
\* NG in the end, each counted once.
LEMMA DefectsOfProduction ==
    ASSUME NEW R, Countable(R), NEW at \in SUBSET (DOMAIN R)
    PROVE  Production(R, at).defects = Cardinality(Defects(R, at))
<1> DEFINE Of(k) == {i \in {i \in at : R[i].stage = ProductStages[k]} : FinalNg(R[i])}
           stats == [k \in DOMAIN ProductStages |-> StageStat(R, at, ProductStages[k])]
           ngs == [k \in DOMAIN stats |-> stats[k].finalNg]
<1>1. Production(R, at).defects = SumFunction(ngs)
  BY DEF Production
<1>2. DOMAIN ProductStages = {1, 2}
  BY DEF ProductStages
<1>3. DOMAIN ngs = {1, 2} /\ ngs[1] = Cardinality(Of(1)) /\ ngs[2] = Cardinality(Of(2))
  BY <1>2 DEF StageStat, HowMany
<1>4. IsFiniteSet(Of(1)) /\ IsFiniteSet(Of(2))
  <2>1. Of(1) \in SUBSET (DOMAIN R) /\ Of(2) \in SUBSET (DOMAIN R)
    OBVIOUS
  <2> QED BY <2>1, FS_Subset DEF Countable
<1>5. Of(1) \cup Of(2) = Defects(R, at) /\ Of(1) \cap Of(2) = {}
  <2>1. ProductStages[1] # ProductStages[2]
    BY DEF ProductStages
  <2> QED BY <2>1, ProductOrCrate DEF Defects
<1> HIDE DEF ngs, Of
<1>6. Cardinality(Of(1)) \in Nat /\ Cardinality(Of(2)) \in Nat
  BY <1>4, FS_CardinalityType
<1>7. SumFunction(ngs) = Cardinality(Of(1)) + Cardinality(Of(2))
  BY <1>3, <1>6, SumOfTwo DEF SumFunction
<1>8. Cardinality(Of(1) \cup Of(2)) = Cardinality(Of(1)) + Cardinality(Of(2))
  <2>1. Cardinality(Of(1) \cup Of(2))
          = Cardinality(Of(1)) + Cardinality(Of(2)) - Cardinality(Of(1) \cap Of(2))
    BY <1>4, FS_Union
  <2>2. Cardinality(Of(1) \cap Of(2)) = 0
    BY <1>5, FS_EmptySet
  <2> QED BY <2>1, <2>2, <1>6
<1> QED BY <1>1, <1>5, <1>7, <1>8

\* Where no crate was counted the good ones are rows that are not NG in the
\* end: those of the last stage that has rows.
LEMMA GoodWithoutCrate ==
    ASSUME NEW R, Countable(R), NEW at \in SUBSET (DOMAIN R),
           Production(R, at).crates = 0
    PROVE  /\ IsFiniteSet(Passed(R, at))
           /\ Production(R, at).good \in Int
           /\ Production(R, at).good <= Cardinality(Passed(R, at))
<1> DEFINE crates == {i \in at : R[i].stage = CrateStage}
           stats == [k \in DOMAIN ProductStages |-> StageStat(R, at, ProductStages[k])]
           seen == {k \in DOMAIN stats : stats[k].inspected > 0}
<1>1. crates = {}
  <2>1. Cardinality(crates) = 0
    BY DEF Production
  <2>2. crates \in SUBSET (DOMAIN R)
    OBVIOUS
  <2>3. IsFiniteSet(crates)
    BY <2>2, FS_Subset DEF Countable
  <2> QED BY <2>1, <2>3, FS_EmptySet
<1>2. Production(R, at).good = IF seen = {} THEN 0 ELSE stats[Max(seen)].good
  BY <1>1 DEF Production
<1>3. DOMAIN stats = {1, 2}
  BY DEF ProductStages
<1>4. IsFiniteSet(Passed(R, at)) /\ Cardinality(Passed(R, at)) \in Nat
  <2>1. Passed(R, at) \in SUBSET (DOMAIN R)
    BY DEF Passed
  <2>2. IsFiniteSet(Passed(R, at))
    BY <2>1, FS_Subset DEF Countable
  <2> QED BY <2>2, FS_CardinalityType
<1>5. ASSUME NEW k \in DOMAIN ProductStages
      PROVE  stats[k].good \in Int /\ stats[k].good <= Cardinality(Passed(R, at))
  <2> DEFINE mine == {i \in at : R[i].stage = ProductStages[k]}
             ng == {i \in mine : FinalNg(R[i])}
  <2>1. stats[k].good = Cardinality(mine) - Cardinality(ng)
    BY DEF StageStat, HowMany
  <2>2. mine \in SUBSET (DOMAIN R) /\ ng \in SUBSET mine
    OBVIOUS
  <2>3. IsFiniteSet(mine)
    BY <2>2, FS_Subset DEF Countable
  <2>4. mine \ ng \in SUBSET Passed(R, at)
    <3>1. ProductStages[k] # CrateStage
      BY DEF ProductStages, CrateStage
    <3> QED BY <3>1 DEF Passed
  <2> HIDE DEF mine, ng
  <2>5. Cardinality(mine \ ng) <= Cardinality(Passed(R, at))
    BY <1>4, <2>4, FS_Subset
  <2>6. /\ Cardinality(mine \ ng) = Cardinality(mine) - Cardinality(mine \cap ng)
        /\ mine \cap ng = ng
    BY <2>2, <2>3, FS_Difference
  <2>7. Cardinality(mine) \in Nat /\ Cardinality(ng) \in Nat
    BY <2>2, <2>3, FS_Subset, FS_CardinalityType
  <2>8. Cardinality(mine \ ng) = Cardinality(mine) - Cardinality(ng)
    BY <2>6
  <2> QED BY <2>1, <2>5, <2>7, <2>8
<1>6. seen # {} => Max(seen) \in seen
  <2>1. seen \in SUBSET {1, 2}
    BY <1>3
  <2> HIDE DEF seen
  <2>2. seen # {} => \E x \in seen : \A y \in seen : x >= y
    <3> SUFFICES ASSUME seen # {} PROVE \E x \in seen : \A y \in seen : x >= y
      OBVIOUS
    <3>1. CASE 2 \in seen
      <4>1. \A y \in seen : 2 >= y
        BY <2>1
      <4> QED BY <3>1, <4>1
    <3>2. CASE 2 \notin seen
      <4>1. seen = {1}
        BY <2>1, <3>2
      <4> QED BY <4>1
    <3> QED BY <3>1, <3>2
  <2> QED BY <2>2 DEF Max
<1>7. DOMAIN ProductStages = DOMAIN stats
  OBVIOUS
<1> HIDE DEF stats
<1>8. seen # {} => /\ stats[Max(seen)].good \in Int
                   /\ stats[Max(seen)].good <= Cardinality(Passed(R, at))
  BY <1>5, <1>6, <1>7
<1> QED BY <1>2, <1>4, <1>8

\* Each row the MES gets is in one of its lists, or in the one it does not
\* have: an order lists the rows of its number or of its lot.
LEMMA ListedOnce ==
    ASSUME NEW R, NEW i \in Sent(R)
    PROVE  /\ \/ \E w \in DOMAIN LotOf : i \in RecordsFor(R, w)
              \/ i \in Unassigned(R) \/ i \in Unlisted(R)
           /\ ~(i \in Unassigned(R) /\ i \in Unlisted(R))
           /\ \A w \in DOMAIN LotOf : i \in RecordsFor(R, w) =>
                 /\ i \notin Unassigned(R) /\ i \notin Unlisted(R)
                 /\ \A v \in DOMAIN LotOf : i \in RecordsFor(R, v) => v = w
  BY LotsUnique, OrdersAssumption DEF RecordsFor, Unassigned, Unlisted

\* The defects of all orders, of the lots without one and of the rows listed
\* nowhere are the defects among the rows the MES gets.
LEMMA DefectsOfLists ==
    ASSUME NEW R, Countable(R)
    PROVE  SumFunction([w \in DOMAIN LotOf |-> Production(R, RecordsFor(R, w)).defects])
             + Production(R, Unassigned(R)).defects + Production(R, Unlisted(R)).defects
           = Cardinality(Defects(R, Sent(R)))
<1> DEFINE W == DOMAIN LotOf
           f == [w \in W |-> Production(R, RecordsFor(R, w)).defects]
           F == [w \in W |-> Defects(R, RecordsFor(R, w))]
           A == UNION {F[w] : w \in W}
           B == Defects(R, Unassigned(R))
           C == Defects(R, Unlisted(R))
           D == Defects(R, Sent(R))
<1>1. /\ Sent(R) \in SUBSET (DOMAIN R)
      /\ Unassigned(R) \in SUBSET (DOMAIN R)
      /\ Unlisted(R) \in SUBSET (DOMAIN R)
      /\ \A w \in W : RecordsFor(R, w) \in SUBSET (DOMAIN R)
  BY DEF Sent, Unassigned, Unlisted, RecordsFor
<1>2. /\ \A w \in W : f[w] = Cardinality(F[w])
      /\ Production(R, Unassigned(R)).defects = Cardinality(B)
      /\ Production(R, Unlisted(R)).defects = Cardinality(C)
  BY <1>1, DefectsOfProduction
<1>3. IsFiniteSet(D) /\ IsFiniteSet(B) /\ IsFiniteSet(C) /\ \A w \in W : IsFiniteSet(F[w])
  <2>1. /\ D \in SUBSET (DOMAIN R) /\ B \in SUBSET (DOMAIN R) /\ C \in SUBSET (DOMAIN R)
        /\ \A w \in W : F[w] \in SUBSET (DOMAIN R)
    BY <1>1 DEF Defects
  <2> HIDE DEF B, C, D, F
  <2> QED BY <2>1, FS_Subset DEF Countable
<1>4. \A v, w \in W : v # w => F[v] \cap F[w] = {}
  <2>1. \A w \in W : F[w] \subseteq RecordsFor(R, w) /\ RecordsFor(R, w) \subseteq Sent(R)
    BY DEF Defects, RecordsFor
  <2> HIDE DEF F
  <2> QED BY <2>1, ListedOnce
<1>5. (A \cup B) \cup C = D
  <2>1. ASSUME NEW i \in D PROVE i \in (A \cup B) \cup C
    <3>1. i \in Sent(R) /\ R[i].stage # CrateStage /\ FinalNg(R[i])
      BY DEF Defects
    <3>2. CASE \E w \in W : i \in RecordsFor(R, w)
      <4>1. PICK w \in W : i \in RecordsFor(R, w)
        BY <3>2
      <4>2. i \in F[w]
        BY <3>1, <4>1 DEF Defects
      <4> QED BY <4>2
    <3>3. CASE i \in Unassigned(R) \/ i \in Unlisted(R)
      BY <3>1, <3>3 DEF Defects
    <3> QED BY <3>1, <3>2, <3>3, ListedOnce
  <2>2. ASSUME NEW i \in (A \cup B) \cup C PROVE i \in D
    <3>1. i \in B \/ i \in C \/ \E w \in W : i \in F[w]
      OBVIOUS
    <3> QED BY <3>1 DEF Defects, RecordsFor, Unassigned, Unlisted
  <2> QED BY <2>1, <2>2
<1>6. A \cap B = {} /\ (A \cup B) \cap C = {}
  <2>1. \A i \in A : \E w \in W : i \in RecordsFor(R, w) /\ i \in Sent(R)
    BY DEF Defects, RecordsFor
  <2>2. /\ \A i \in B : i \in Unassigned(R) /\ i \in Sent(R)
        /\ \A i \in C : i \in Unlisted(R) /\ i \in Sent(R)
    BY DEF Defects, Unassigned, Unlisted
  <2> HIDE DEF A, B, C
  <2> QED BY <2>1, <2>2, ListedOnce
<1>7. IsFiniteSet(A) /\ SumFunction(f) = Cardinality(A)
  <2>1. DOMAIN f = W
    OBVIOUS
  <2>2. IsFiniteSet(W)
    BY OrdersAssumption
  <2>3. /\ \A w \in W : IsFiniteSet(F[w])
        /\ \A w \in W : f[w] = Cardinality(F[w])
    BY <1>2, <1>3
  <2> HIDE DEF f, F, W, B, C, D
  <2>4. /\ IsFiniteSet(UNION {F[w] : w \in W})
        /\ SumFunctionOnSet(f, W) = Cardinality(UNION {F[w] : w \in W})
    BY <1>4, <2>2, <2>3, TogetherInSum
  <2> QED BY <2>1, <2>4 DEF SumFunction
<1> HIDE DEF A, B, C, D, f
<1>8. /\ Cardinality(A) \in Nat /\ Cardinality(B) \in Nat /\ Cardinality(C) \in Nat
      /\ IsFiniteSet(A \cup B)
      /\ Cardinality(A \cup B) = Cardinality(A) + Cardinality(B)
  <2>1. /\ IsFiniteSet(A \cup B)
        /\ Cardinality(A \cup B) = Cardinality(A) + Cardinality(B) - Cardinality(A \cap B)
    BY <1>3, <1>7, FS_Union
  <2>2. Cardinality(A) \in Nat /\ Cardinality(B) \in Nat /\ Cardinality(C) \in Nat
    BY <1>3, <1>7, FS_CardinalityType
  <2> QED BY <2>1, <2>2, <1>6, FS_EmptySet
<1>9. Cardinality((A \cup B) \cup C) = Cardinality(A \cup B) + Cardinality(C)
  <2>1. Cardinality((A \cup B) \cup C)
          = Cardinality(A \cup B) + Cardinality(C) - Cardinality((A \cup B) \cap C)
    BY <1>3, <1>8, FS_Union
  <2>2. Cardinality((A \cup B) \cap C) = 0
    BY <1>6, FS_EmptySet
  <2>3. Cardinality(A \cup B) \in Nat /\ Cardinality(C) \in Nat
    BY <1>8
  <2> QED BY <2>1, <2>2, <2>3
<1>10. SumFunction(f) + Cardinality(B) + Cardinality(C) = Cardinality(D)
  BY <1>5, <1>7, <1>8, <1>9
<1> QED BY <1>2, <1>10 DEF f, D

\* The same number from the key figures: the defects of the station, less the
\* ones a person found good, and with those a person found.
LEMMA DefectsOfSummary ==
    ASSUME NEW R, Countable(R)
    PROVE  Cardinality(Defects(R, Sent(R)))
             = (Summary(R).defects + Summary(R).missed) - Summary(R).misjudged
<1> DEFINE at == KpiRows(R)
           ng == {i \in at : IsNg(R[i])}
           back == {i \in at : Misjudged(R[i])}
           late == {i \in at : Missed(R[i])}
<1>1. /\ Summary(R).defects = Cardinality(ng)
      /\ Summary(R).missed = Cardinality(late)
      /\ Summary(R).misjudged = Cardinality(back)
  BY DEF Summary, HowMany
<1>2. at = {i \in Sent(R) : R[i].stage # CrateStage} /\ at \in SUBSET (DOMAIN R)
  BY DEF KpiRows, Sent
<1>3. IsFiniteSet(ng) /\ IsFiniteSet(back) /\ IsFiniteSet(late) /\ back \in SUBSET ng
  <2>1. ng \in SUBSET (DOMAIN R) /\ back \in SUBSET (DOMAIN R) /\ late \in SUBSET (DOMAIN R)
    BY <1>2
  <2>2. back \in SUBSET ng
    BY DEF Misjudged, IsNg
  <2> HIDE DEF ng, back, late
  <2> QED BY <2>1, <2>2, FS_Subset DEF Countable
<1>4. Defects(R, Sent(R)) = (ng \ back) \cup late
  <2>1. ASSUME NEW i \in at
        PROVE  FinalNg(R[i]) <=> (IsNg(R[i]) /\ ~Misjudged(R[i])) \/ Missed(R[i])
    <3>1. R[i].final \in {"OK", "NG"} /\ R[i].manual \in {"none", "OK", "NG"}
      BY <1>2 DEF Countable
    <3> QED BY <3>1 DEF FinalNg, Effective, IsNg, Misjudged, Missed
  <2>2. Defects(R, Sent(R)) = {i \in at : FinalNg(R[i])}
    BY <1>2 DEF Defects
  <2> HIDE DEF at
  <2> QED BY <2>1, <2>2
<1>5. (ng \ back) \cap late = {}
  BY DEF IsNg, Missed
<1> HIDE DEF ng, back, late
<1>6. /\ IsFiniteSet(ng \ back)
      /\ Cardinality(ng \ back) = Cardinality(ng) - Cardinality(back)
  <2>1. ng \cap back = back
    BY <1>3
  <2> QED BY <1>3, <2>1, FS_Difference
<1>7. Cardinality((ng \ back) \cup late) = Cardinality(ng \ back) + Cardinality(late)
  <2>1. Cardinality((ng \ back) \cup late)
          = Cardinality(ng \ back) + Cardinality(late) - Cardinality((ng \ back) \cap late)
    BY <1>3, <1>6, FS_Union
  <2>2. Cardinality((ng \ back) \cap late) = 0
    BY <1>5, FS_EmptySet
  <2>3. Cardinality(ng \ back) \in Nat /\ Cardinality(late) \in Nat
    BY <1>3, <1>6, FS_CardinalityType
  <2> QED BY <2>1, <2>2, <2>3
<1>8. Cardinality(ng) \in Nat /\ Cardinality(back) \in Nat /\ Cardinality(late) \in Nat
  BY <1>3, FS_CardinalityType
<1> QED BY <1>1, <1>4, <1>6, <1>7, <1>8

\* The rows of the site can be counted.  A row of a shot that is no crate and
\* whose tube is bad has the verdict NG.
LEMMA RowsAreCountable ==
    ASSUME FiledInv, ManualInv
    PROVE  /\ Countable(AllRows)
           /\ \A t \in DOMAIN AllRows :
                 /\ t = <<t[1], t[2]>>
                 /\ t[1] \in DOMAIN rows /\ t[2] \in DOMAIN rows[t[1]]
                 /\ AllRows[t] = rows[t[1]][t[2]]
                 /\ IsCount(taken[t[1]]) <=> AllRows[t].stage = CrateStage
                 /\ /\ AllRows[t].stage # CrateStage
                    /\ BadTube(taken[t[1]].tubes[t[2]], taken[t[1]].stage)
                    => AllRows[t].final = "NG"
<1>1. IsFiniteSet(DOMAIN AllRows)
  <2> DEFINE G == [k \in DOMAIN rows |-> {k} \X DOMAIN rows[k]]
  <2>1. DOMAIN AllRows = UNION {G[k] : k \in DOMAIN rows}
    BY DEF AllRows, RowsFrom
  <2>2. IsFiniteSet(DOMAIN rows)
    <3>1. PICK S : rows \in Seq(S)
      BY DEF FiledInv
    <3>2. DOMAIN rows = 1 .. Len(rows) /\ Len(rows) \in Int /\ 1 \in Int
      BY <3>1
    <3> QED BY <3>2, FS_Interval
  <2>3. ASSUME NEW k \in DOMAIN rows PROVE IsFiniteSet(G[k])
    <3>1. IsShot(taken[k]) /\ DOMAIN rows[k] = DOMAIN RowsOf(taken[k])
      BY DEF FiledInv, RowsTrue
    <3>2. PICK n \in Nat : DOMAIN RowsOf(taken[k]) = 1 .. n
      BY <3>1, RowsAreSeq
    <3>3. IsFiniteSet(DOMAIN rows[k])
      <4>1. IsFiniteSet(1 .. n)
        BY FS_Interval
      <4> QED BY <3>1, <3>2, <4>1
    <3>4. IsFiniteSet({k})
      BY FS_Singleton
    <3> QED BY <3>3, <3>4, FS_Product
  <2>4. \A v, w \in DOMAIN rows : v # w => G[v] \cap G[w] = {}
    OBVIOUS
  <2> DEFINE g == [k \in DOMAIN rows |-> Cardinality(G[k])]
             K == DOMAIN rows
  <2>5. \A k \in K : g[k] = Cardinality(G[k])
    OBVIOUS
  <2> HIDE DEF G, g, K
  <2>6. IsFiniteSet(UNION {G[k] : k \in K})
    BY <2>2, <2>3, <2>4, <2>5, TogetherInSum DEF K
  <2> QED BY <2>1, <2>6 DEF K
<1>2. ASSUME NEW t \in DOMAIN AllRows
      PROVE  /\ t = <<t[1], t[2]>>
             /\ t[1] \in DOMAIN rows /\ t[2] \in DOMAIN rows[t[1]]
             /\ AllRows[t] = rows[t[1]][t[2]]
             /\ IsCount(taken[t[1]]) <=> AllRows[t].stage = CrateStage
             /\ /\ AllRows[t].stage # CrateStage
                /\ BadTube(taken[t[1]].tubes[t[2]], taken[t[1]].stage)
                => AllRows[t].final = "NG"
             /\ AllRows[t].stage \in Stages
             /\ AllRows[t].final \in {"OK", "NG"}
             /\ AllRows[t].manual \in {"none", "OK", "NG"}
  <2>1. /\ t = <<t[1], t[2]>>
        /\ t[1] \in DOMAIN rows /\ t[2] \in DOMAIN rows[t[1]]
        /\ AllRows[t] = rows[t[1]][t[2]]
    BY DEF AllRows, RowsFrom
  <2> DEFINE s == taken[t[1]]
             i == t[2]
             made == RowsOf(s)[i]
  <2>2. IsShot(s) /\ i \in DOMAIN RowsOf(s) /\ IsReviewed(AllRows[t], made)
    BY <2>1 DEF FiledInv, RowsTrue
  <2>3. AllRows[t].final = made.final /\ AllRows[t].stage = made.stage
    BY <2>2 DEF IsReviewed
  <2>4. AllRows[t].manual \in {"none", "OK", "NG"}
    BY <2>1 DEF ManualInv
  <2>5. made.stage = s.stage
    BY <2>2, RowsAreRows DEF Row
  <2>6. s.stage \in Stages
    BY <2>2 DEF IsShot
  <2>7. made.final \in {"OK", "NG"}
    <3>1. CASE IsCount(s)
      <4>1. RowsOf(s) = <<CountRow(s)>> /\ i = 1
        BY <2>2, <3>1 DEF RowsOf
      <4> QED BY <4>1 DEF CountRow, Row, CountVerdict
    <3>2. CASE ~IsCount(s)
      <4>1. i \in DOMAIN s.tubes /\ made.final = Verdicts(s)[i].final
        BY <2>2, <3>2, RowsAreRows
      <4> DEFINE v == Judged(s.tubes[i], s.stage, Several(s))
      <4>2. v.final \in {"OK", "NG"} /\ v = [final |-> v.final, codes |-> v.codes, review |-> v.review]
        BY DEF Judged, ErrorVerdict
      <4>3. Verdicts(s)[i] = [v EXCEPT !.review = v.review \/ (Several(s) /\ ~s.sure)]
        BY <4>1 DEF Verdicts
      <4> HIDE DEF v
      <4> QED BY <4>1, <4>2, <4>3
    <3> QED BY <3>1, <3>2
  <2>8. ASSUME AllRows[t].stage # CrateStage, BadTube(s.tubes[i], s.stage)
        PROVE  AllRows[t].final = "NG"
    <3>1. ~IsCount(s)
      BY <2>3, <2>5, <2>8 DEF IsCount, CrateStage
    <3>2. i \in DOMAIN s.tubes /\ made.final = Verdicts(s)[i].final
      BY <2>2, <3>1, RowsAreRows
    <3> QED BY <2>2, <2>3, <2>8, <3>1, <3>2, VerdictOfTube
  <2>9. IsCount(s) <=> AllRows[t].stage = CrateStage
    BY <2>3, <2>5 DEF IsCount, CrateStage
  <2> QED BY <2>1, <2>3, <2>4, <2>5, <2>6, <2>7, <2>8, <2>9
<1> QED BY <1>1, <1>2 DEF Countable

\* For every number of shots, lots and work orders and every review: the
\* defects of the MES's productions, a sum over orders and stages, and those
\* of the key figures are the same rows, counted once each; and without a
\* crate the good tubes of an order are tubes of its own, good or found good by
\* a person.
THEOREM FiguresAlwaysAgree == Spec => []FiguresAgree
<1>1. FiledInv /\ ManualInv => FiguresAgree
  <2> SUFFICES ASSUME FiledInv, ManualInv PROVE FiguresAgree
    OBVIOUS
  <2>1. Countable(AllRows)
    BY RowsAreCountable
  <2>2. SumFunction([w \in DOMAIN LotOf |->
                        Production(AllRows, RecordsFor(AllRows, w)).defects])
          + Production(AllRows, Unassigned(AllRows)).defects
          + Production(AllRows, Unlisted(AllRows)).defects
        = (Summary(AllRows).defects + Summary(AllRows).missed) - Summary(AllRows).misjudged
    BY <2>1, DefectsOfLists, DefectsOfSummary
  <2>3. ASSUME NEW w \in DOMAIN LotOf, Production(AllRows, RecordsFor(AllRows, w)).crates = 0
        PROVE  Production(AllRows, RecordsFor(AllRows, w)).good
                   <= Cardinality({t \in RecordsFor(AllRows, w) \cap AllTubes :
                    \/ rows[t[1]][t[2]].manual = "OK"
                    \/ ~BadTube(taken[t[1]].tubes[t[2]], taken[t[1]].stage)})
    <3> DEFINE at == RecordsFor(AllRows, w)
               good == {t \in at \cap AllTubes :
                          \/ rows[t[1]][t[2]].manual = "OK"
                          \/ ~BadTube(taken[t[1]].tubes[t[2]], taken[t[1]].stage)}
               passed == Passed(AllRows, at)
    <3>1. at \in SUBSET (DOMAIN AllRows)
      BY DEF RecordsFor, Sent
    <3>2. /\ IsFiniteSet(passed)
          /\ Production(AllRows, at).good \in Int
          /\ Production(AllRows, at).good <= Cardinality(passed)
      BY <2>1, <2>3, <3>1, GoodWithoutCrate
    <3>3. passed \subseteq good
      <4> SUFFICES ASSUME NEW t \in passed PROVE t \in good
        OBVIOUS
      <4>1. t \in DOMAIN AllRows /\ AllRows[t].stage # CrateStage /\ ~FinalNg(AllRows[t])
        BY <3>1 DEF Passed
      <4>2. /\ t = <<t[1], t[2]>>
            /\ t[1] \in DOMAIN rows /\ t[2] \in DOMAIN rows[t[1]]
            /\ AllRows[t] = rows[t[1]][t[2]] /\ ~IsCount(taken[t[1]])
            /\ BadTube(taken[t[1]].tubes[t[2]], taken[t[1]].stage) => AllRows[t].final = "NG"
        BY <4>1, RowsAreCountable
      <4>3. t \in at \cap AllTubes
        BY <4>2 DEF AllTubes, RowsFrom, Passed
      <4>4. AllRows[t].manual \in {"none", "OK", "NG"}
        BY <2>1, <4>1 DEF Countable
      <4> QED BY <4>1, <4>2, <4>3, <4>4 DEF FinalNg, Effective
    <3>4. IsFiniteSet(good) /\ Cardinality(good) \in Nat
      <4>1. good \in SUBSET (DOMAIN AllRows)
        BY DEF AllTubes, AllRows, RowsFrom
      <4>2. IsFiniteSet(good)
        <5> HIDE DEF good
        <5> QED BY <2>1, <4>1, FS_Subset DEF Countable
      <4> QED BY <4>2, FS_CardinalityType
    <3> HIDE DEF good, passed
    <3>5. Cardinality(passed) <= Cardinality(good) /\ Cardinality(passed) \in Nat
      BY <3>2, <3>3, <3>4, FS_Subset, FS_CardinalityType
    <3>6. Production(AllRows, at).good <= Cardinality(good)
      BY <3>2, <3>4, <3>5
    <3> QED BY <3>6 DEF good
  <2> QED BY <2>2, <2>3 DEF FiguresAgree, Unlisted
<1>2. Init => ManualInv
  BY InitiallyUnread
<1>3. Spec => []ManualInv
  BY <1>2, FiledAlways, ManualStep, PTL DEF Spec
<1> QED BY <1>1, <1>3, FiledAlways, PTL
=============================================================================
