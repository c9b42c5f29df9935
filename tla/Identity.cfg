\* Two agents, three keys, a handler and an MCP server.
SPECIFICATION FairSpec
CONSTANTS
    AgentIds = {a1, a2}
    Roles = {coding, security}
    Keys = {k1, k2, k3}
    AdminKey = AdminKey
    DefaultRole = coding
    None = None
    Down = Down
    Unbound = Unbound
    Handlers = {h1}
    Servers = {s1}
    AuthRequired = FALSE
INVARIANTS TypeOK ActsAsIssued StaleOnlyWithKey
PROPERTIES DeadKeysStayDead RevocationTakesEffect
