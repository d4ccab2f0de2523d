SPECIFICATION Spec
CONSTANTS
    k1 = k1
    k2 = k2
    p1 = p1
    p2 = p2
    Results <- MCResults
    Reviewers <- MCOneReviewer
    Verdicts = {"OK", "NG"}
    None = "none"
    MaxReviews = 1
INVARIANT ConsumedIsCurrent
CHECK_DEADLOCK FALSE
