---------------------------- MODULE QualityFigures ----------------------------
(***************************************************************************)
(* What the rows add up to, in the two places that count them: the monthly *)
(* key figures of AIVIS (services/api/routers/kpi.py, _compute_summary)    *)
(* and the production of a work order in the MES (services/mes/mes_app/    *)
(* production.py).  Figures are numbers; rates and percentages are left    *)
(* to the reader.                                                          *)
(***************************************************************************)
EXTENDS Naturals, Sequences, FiniteSets, FiniteSetsExt

CONSTANTS
    TrainingLots,   \* lots whose name is_training_lot accepts
    LotOf,          \* the work orders of the MES, and the lot of each (unique)
    NoWorkOrder

ASSUME LotsUnique ==
    \A v, w \in DOMAIN LotOf : LotOf[v] = LotOf[w] => v = w

\* The table of work orders, whose numbers are not empty.
ASSUME OrdersAssumption ==
    IsFiniteSet(DOMAIN LotOf) /\ NoWorkOrder \notin DOMAIN LotOf

\* The product stages, earlier ones first (STAGE_ORDER).
ProductStages == <<"CUT_LENGTH", "POST_WASH_SURFACE">>
CrateStage == "CRATE_COUNT"

\* is_training_lot
IsTraining(r) == r.lot \in TrainingLots

\* How many of the rows at these places are so.
HowMany(rows, at, Test(_)) == Cardinality({i \in at : Test(rows[i])})

-----------------------------------------------------------------------------
(* The key figures *)

\* Pictures of samples are left out, and so are crates: one row is a crate.
KpiRows(rows) ==
    {i \in DOMAIN rows : ~IsTraining(rows[i]) /\ rows[i].stage # CrateStage}

IsNg(r) == r.final = "NG"
Misjudged(r) == r.final = "NG" /\ r.manual = "OK"
Missed(r) == r.final = "OK" /\ r.manual = "NG"
Pending(r) == r.review /\ r.manual = "none"

Summary(rows) ==
    LET at == KpiRows(rows)
    IN  [inspected |-> Cardinality(at),
         defects   |-> HowMany(rows, at, IsNg),
         misjudged |-> HowMany(rows, at, Misjudged),
         missed    |-> HowMany(rows, at, Missed),
         pending   |-> HowMany(rows, at, Pending)]

-----------------------------------------------------------------------------
(* The production *)

\* Faulty variant: the verdict of the review is not looked at.
EffectiveByAi(r) == r.final

\* effective_verdict
Effective(r) == IF r.manual # "none" THEN r.manual ELSE r.final

FinalNg(r) == Effective(r) = "NG"

StageStat(rows, at, stage) ==
    LET mine == {i \in at : rows[i].stage = stage}
    IN  [inspected |-> Cardinality(mine),
         finalNg   |-> HowMany(rows, mine, FinalNg),
         good      |-> Cardinality(mine) - HowMany(rows, mine, FinalNg)]

\* summarize: what was packed is what the crates hold; without a crate it is
\* what the last product stage let through.
Production(rows, at) ==
    LET crates == {i \in at : rows[i].stage = CrateStage}
        stats == [k \in DOMAIN ProductStages |-> StageStat(rows, at, ProductStages[k])]
        seen == {k \in DOMAIN stats : stats[k].inspected > 0}
    IN  [inspected |-> SumFunction([k \in DOMAIN stats |-> stats[k].inspected]),
         defects   |-> SumFunction([k \in DOMAIN stats |-> stats[k].finalNg]),
         crates    |-> Cardinality(crates),
         good      |-> IF crates # {} THEN SumFunction([i \in crates |-> rows[i].count])
                       ELSE IF seen = {} THEN 0 ELSE stats[Max(seen)].good]

\* What reaches the MES: everything but samples (mes/adapter.py).
Sent(rows) == {i \in DOMAIN rows : ~IsTraining(rows[i])}

\* records_for: the rows that name the order, and those of its lot that name
\* none.
RecordsFor(rows, w) ==
    {i \in Sent(rows) :
        \/ rows[i].order = w
        \/ rows[i].order = NoWorkOrder /\ rows[i].lot = LotOf[w]}

\* unassigned_lots
Unassigned(rows) ==
    {i \in Sent(rows) :
        /\ rows[i].order \notin DOMAIN LotOf
        /\ \A w \in DOMAIN LotOf : rows[i].lot # LotOf[w]}
=============================================================================
