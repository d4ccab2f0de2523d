SPECIFICATION FairSpec
CONSTANTS
    k1 = k1
    k2 = k2
    p1 = p1
    p2 = p2
    Results <- MCResults
    Reviewers <- MCReviewers
    Verdicts = {"OK", "NG"}
    None = "none"
    MaxReviews = 2
INVARIANTS
    TypeOK
PROPERTIES
    MirrorSpec
    MarksWhatItLoaded
    AllTaken
CHECK_DEADLOCK FALSE
