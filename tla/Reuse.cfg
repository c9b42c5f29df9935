\* One memory, its author and two peers, two handler threads.  The rungs are
\* lowered so that every tier and the quarantine are within MaxCalls.
SPECIFICATION Spec
CONSTANTS
    SharedMinSuccesses = 1
    ValidatedMinReuses = 2
    ValidatedMinRate = 80
    OrgMinReuses = 3
    OrgMinRate = 90
    DemoteMinReuses = 2
    DemoteMaxRate = 40
    MinConfidence = 4500
    AuthorPriors = {}
    Memories = {m1}
    first = m1
    author = author
    peer = peer
    outsider = outsider
    Agents = {author, peer, outsider}
    Handlers = {h1, h2}
    Author <- OneMemoryAuthor
    RoleOf <- Roles
    Null = Null
    MaxContext = 1
    MaxCalls = 6
SYMMETRY Threads
INVARIANTS TypeOK CountersMatchLog CreditSpendsInjection AuthorCountsOnceAgainst FleetVisibleIsVouched AuditTrailIsComplete
PROPERTY LadderSpec
