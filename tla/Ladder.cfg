\* The ladder with the default thresholds, and author reputations from shaky to proven.
SPECIFICATION MCSpec
CONSTANTS
    SharedMinSuccesses = 1
    ValidatedMinReuses = 3
    ValidatedMinRate = 80
    OrgMinReuses = 10
    OrgMinRate = 90
    DemoteMinReuses = 3
    DemoteMaxRate = 40
    MinConfidence = 4500
    Memories = {m1}
    NoRow = NoRow
    AuthorPriors = {2400, 4400, 6000, 7000, 8400, 9400}
    MaxReports = 14
INVARIANTS TypeOK NoVisibleFailure TierIsEarned DefaultPriorConfidence
PROPERTY QuarantineIsTerminal
CHECK_DEADLOCK FALSE
