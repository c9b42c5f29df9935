\* Two memories of two authors of one role, which can be given both, in either
\* order; two handlers.  Every request ends, those that hold locks while they
\* wait for another included.
SPECIFICATION FairSpec
CONSTANTS
    SharedMinSuccesses = 1
    ValidatedMinReuses = 2
    ValidatedMinRate = 80
    OrgMinReuses = 3
    OrgMinRate = 90
    DemoteMinReuses = 2
    DemoteMaxRate = 40
    MinConfidence = 4500
    AuthorPriors = {}
    Memories = {m1, m2}
    first = m1
    author = author
    peer = peer
    outsider = outsider
    Agents = {author, peer}
    Handlers = {h1, h2}
    Author <- EachTheirs
    RoleOf <- Roles
    Null = Null
    MaxContext = 2
    MaxCalls = 3
PROPERTY EveryCallReturns
