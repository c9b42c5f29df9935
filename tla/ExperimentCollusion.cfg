\* The arm of the paper with agents that lie, two of three.
SPECIFICATION XSpec
CONSTANTS
    SharedMinSuccesses = 1
    ValidatedMinReuses = 3
    ValidatedMinRate = 80
    OrgMinReuses = 10
    OrgMinRate = 90
    DemoteMinReuses = 3
    DemoteMaxRate = 40
    MinConfidence = 4500
    AuthorPriors = {}
    Memories = {m1, m2, m3, m4}
    Agents = {author, peer, outsider}
    author = author
    peer = peer
    outsider = outsider
    Families = {f1, f2}
    f1 = f1
    f2 = f2
    RoleOf <- Roles
    Null = Null
    Settings <- Liars
SYMMETRY Alike
CHECK_DEADLOCK FALSE
INVARIANT LiarsVouchForEachOther
