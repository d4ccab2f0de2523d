SPECIFICATION FairSpec
CONSTANTS
    k1 = k1
    o1 = o1
    p1 = p1
    c1 = c1
    Results <- MCResults
    NumberOf <- MCNumberOf
    LotOf <- MCLotOf
    Verdicts = {"OK", "NG"}
    None = "none"
    NoRecord = "norecord"
    Orders = {o1}
    Closed = {"DONE"}
    Clerks = {c1}
    Reviewers = {p1}
    MaxReviews = 2
    MaxLate = 1
    MaxRestarts = 1
INVARIANTS
    TypeOK
    ReceivedIsReal
    PlannedHasNoRecord
    ClosedHasEnd
PROPERTIES
    MirrorSpec
    AllReceived
CHECK_DEADLOCK FALSE
