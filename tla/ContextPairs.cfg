\* Ids in rank order, task keys in search order.
SPECIFICATION Spec
CONSTANTS
    SharedMinSuccesses = 1
    ValidatedMinReuses = 3
    ValidatedMinRate = 80
    OrgMinReuses = 10
    OrgMinRate = 90
    DemoteMinReuses = 3
    DemoteMaxRate = 40
    MinConfidence = 4500
    AuthorPriors = {}
    Memories = {m1, m2, m3}
    m1 = m1
    m2 = m2
    m3 = m3
    a1 = a1
    a2 = a2
    a3 = a3
    Nobody = Nobody
    NoRole = NoRole
    NoRun = NoRun
    NoKey = NoKey
    Author <- Authors
    AuthorRole <- Roles
    Run <- Runs
    TaskKey <- Keys
    Created <- Ages
    Size <- Sizes
    Similar <- Alike
    HeaderTokens = 2
    Readers <- Fleet
    Policies <- Settings
    RowChoices <- Governed
    Matches <- Fits
    Threshold = 3000
    TrustWeight = 10
    FtsWeight = 15
CHECK_DEADLOCK FALSE
INVARIANT KeysMatchIds
