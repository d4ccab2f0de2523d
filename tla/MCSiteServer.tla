----------------------------- MODULE MCSiteServer -----------------------------
(* One site in four settings: every reading there is, figures of two lots, a  *)
(* disk that fills, and updates.                                              *)
EXTENDS SiteServer, TLC

CONSTANTS Train, OutsideOrder

MCLotOf == [w \in {"w1", "w2"} |-> IF w = "w1" THEN "l1" ELSE "l2"]
MCVersions == 1 .. 3

Tube(raises, length, defects) ==
    [raises |-> raises, length |-> length, defects |-> defects, near |-> FALSE, odd |-> FALSE]

Good == Tube("none", "within", {})
Bad == Tube("none", "out", {"OIL", "DIS"})

Shot(stage, expected, tubes, sure, lot, order) ==
    [stage |-> stage, expected |-> expected, tubes |-> tubes, sure |-> sure,
     lot |-> lot, order |-> order]

Products == {"CUT_LENGTH", "POST_WASH_SURFACE"}

MCMenus ==
    [readings |->
        {Shot(stage, 1, <<r>>, TRUE, "l1", NoWorkOrder) : stage \in Products, r \in Readings}
        \cup {Shot(stage, 2, <<Good, Tube(raises, "within", {})>>, TRUE, "l1", "w1") :
                stage \in Products, raises \in RaisingSteps}
        \cup {Shot(stage, 2, tubes, sure, "l1", "w1") : stage \in Products \cup {"CRATE_COUNT"},
                tubes \in {<<>>, <<Bad>>, <<Good, Good>>, <<Good, Bad>>}, sure \in BOOLEAN},
     figures |->
        {Shot("CUT_LENGTH", 1, <<r>>, TRUE, lot, order) : r \in {Good, Bad},
            lot \in {"l1", "l2", Train}, order \in {NoWorkOrder, "w1", OutsideOrder}}
        \cup {Shot("POST_WASH_SURFACE", 1, <<Bad>>, TRUE, "l1", "w1"),
              Shot("CRATE_COUNT", 2, <<Good>>, TRUE, "l1", "w1")},
     disk |->
        {Shot("CUT_LENGTH", 1, <<r>>, TRUE, "l1", "w1") :
            r \in {Good, Bad, Tube("none", "nearly out", {})}}]

MCBudget(menu, shots, reviews, days, cleanups, failures) ==
    [menu |-> menu, shots |-> shots, reviews |-> reviews, days |-> days,
     cleanups |-> cleanups, failures |-> failures,
     commits |-> 0, asks |-> 0, late |-> 0, checks |-> 0, rollbacks |-> 0, cuts |-> 0,
     systemd |-> TRUE, missing |-> {}]

Updates(b, commits, asks, late, checks, rollbacks, cuts, service, tools) ==
    [b EXCEPT !.commits = commits, !.asks = asks, !.late = late, !.checks = checks,
              !.rollbacks = rollbacks, !.cuts = cuts, !.systemd = service,
              !.missing = Parts \ tools]

MCBudgets ==
    {MCBudget("readings", 1, 1, 0, 0, 0),
     MCBudget("figures", 2, 1, 0, 0, 0),
     MCBudget("disk", 3, 0, 0, 1, 1),
     MCBudget("disk", 2, 0, 3, 2, 0),
     Updates(MCBudget("disk", 0, 0, 0, 0, 0), 1, 2, 1, 1, 1, 0, TRUE, Parts),
     Updates(MCBudget("disk", 0, 0, 0, 0, 1), 2, 2, 0, 0, 1, 0, TRUE, Parts),
     Updates(MCBudget("disk", 0, 0, 0, 0, 0), 2, 2, 0, 0, 1, 0, FALSE, {"packages"}),
     Updates(MCBudget("disk", 0, 0, 0, 0, 1), 2, 1, 1, 1, 0, 0, FALSE, {"packages"}),
     Updates(MCBudget("disk", 0, 0, 0, 0, 0), 1, 2, 0, 0, 0, 1, TRUE, Parts),
     Updates(MCBudget("disk", 2, 0, 0, 0, 0), 1, 1, 0, 0, 0, 0, FALSE, Parts)}
=============================================================================
