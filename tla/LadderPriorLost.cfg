\* With author priors, a tier change replaces the posterior of the memory by the default one.
SPECIFICATION MCSpec
CONSTANTS
    SharedMinSuccesses = 1
    ValidatedMinReuses = 3
    ValidatedMinRate = 80
    OrgMinReuses = 10
    OrgMinRate = 90
    DemoteMinReuses = 3
    DemoteMaxRate = 40
    MinConfidence = 4500
    Memories = {m1}
    NoRow = NoRow
    AuthorPriors = {2400, 8400}
    MaxReports = 4
INVARIANT ConfidenceIsPosterior
CHECK_DEADLOCK FALSE
