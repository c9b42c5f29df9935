------------------------------ MODULE Identity ------------------------------
(***************************************************************************)
(* Who acts: the registry of agents and their keys, requests to the API,   *)
(* which are authenticated one by one, and MCP servers, which resolve their*)
(* key when they start.  A request that is refused (401, 403, 422, or a    *)
(* ToolError) changes nothing and is not an action.                        *)
(***************************************************************************)
EXTENDS Naturals, FiniteSets

CONSTANTS
    AgentIds, Roles,
    Keys,          \* bound of the model: the keys that can ever be issued
    AdminKey, DefaultRole, None,
    Down, Unbound, \* an MCP server that is not running, or runs without a key
    Handlers,      \* handler threads of the API
    Servers,       \* MCP server processes
    AuthRequired

VARIABLES
    agents,   \* the table: role, key (its hash) and whether it is revoked
    owner,    \* history: the agent and role each key was issued for
    bound,    \* per MCP server: its principal
    calls     \* per handler and server: whom the call it carries out acts as

registry == <<agents, owner>>
vars     == <<registry, bound, calls>>

Ops       == {"read", "store", "report"}
Agent     == [role : Roles, key : Keys, revoked : BOOLEAN]
Principal == [key : Keys, id : AgentIds, role : Roles]
Call      == [key : Keys \cup {AdminKey, None}, id : AgentIds \cup {None},
              role : Roles \cup {None}]

ASSUME IdentityAssumption ==
    /\ AdminKey \notin Keys /\ None \notin AgentIds \cup Roles \cup Keys \cup {AdminKey}
    /\ DefaultRole \in Roles /\ AuthRequired \in BOOLEAN
    /\ None \notin Agent \cup Call
                  \cup [id : AgentIds \cup {None}, role : Roles \cup {None}]
    /\ Down # Unbound /\ {Down, Unbound} \cap Principal = {}

Init ==
    /\ agents = [a \in AgentIds |-> None]
    /\ owner = [k \in Keys |-> None]
    /\ bound = [s \in Servers |-> Down]
    /\ calls = [x \in Handlers \cup Servers |-> None]

-----------------------------------------------------------------------------
(* The registry.                                                           *)

Live(k) == \E a \in AgentIds : agents[a] # None /\ agents[a].key = k /\ ~agents[a].revoked

KnownKey(k) ==   \* slip: revoked_at is not looked at
    \E a \in AgentIds : agents[a] # None /\ agents[a].key = k

\* Can a request with this key be resolved?
Resolves(k) == Live(k)

\* The principal of a key that resolves.
Resolved(k) ==
    LET a == CHOOSE x \in AgentIds : agents[x] # None /\ agents[x].key = k
    IN  [key |-> k, id |-> a, role |-> agents[a].role]

Fresh == {k \in Keys : owner[k] = None}

\* A new key; random ones are alike, so which of the fresh ones does not matter.
Issue(a, role) ==
    /\ Fresh # {}
    /\ LET k == CHOOSE x \in Fresh : TRUE IN
          /\ owner' = [owner EXCEPT ![k] = [id |-> a, role |-> role]]
          /\ agents' = [agents EXCEPT ![a] = [role |-> role, key |-> k, revoked |-> FALSE]]
    /\ UNCHANGED <<bound, calls>>

\* register_agent: a known agent_id is a unique violation (409).
Register(a, role) == agents[a] = None /\ Issue(a, role)

RotateKeepingKey(a, role) ==   \* slip: the upsert leaves key_hash alone
    IF agents[a] = None THEN Issue(a, role)
    ELSE /\ agents' = [agents EXCEPT ![a].role = role, ![a].revoked = FALSE]
         /\ UNCHANGED <<owner, bound, calls>>

\* register_agent(rotate=True): an upsert of role, key and revoked_at.
Rotate(a, role) == Issue(a, role)

\* revoke_agent; an agent already revoked is a 404.
Revoke(a) ==
    /\ agents[a] # None /\ ~agents[a].revoked
    /\ agents' = [agents EXCEPT ![a].revoked = TRUE]
    /\ UNCHANGED <<owner, bound, calls>>

-----------------------------------------------------------------------------
(* The API.                                                                *)

IdentityAsClaimed(k, id, role) ==   \* slip: a claimed role is not compared
    IF k \in Keys
    THEN IF id \in {None, Resolved(k).id}
         THEN {[id |-> Resolved(k).id, role |-> IF role = None THEN Resolved(k).role ELSE role]}
         ELSE {}
    ELSE {[id |-> id, role |-> role]}

\* resolve_identity: the identity a request acts as; none is a 403.  With the
\* admin key, or without a key, it is the claimed one.
ActsAs(k, id, role) ==
    IF k \in Keys
    THEN IF id \in {None, Resolved(k).id} /\ role \in {None, Resolved(k).role}
         THEN {[id |-> Resolved(k).id, role |-> Resolved(k).role]} ELSE {}
    ELSE {[id |-> id, role |-> role]}

Authenticates(k) ==
    \/ k \in Keys /\ Resolves(k)
    \/ k = AdminKey
    \/ k = None /\ ~AuthRequired

\* What the endpoints ask of an identity.
Complete(op, who) ==
    /\ op \in {"store", "report"} => who.id # None
    /\ op = "store" => who.role # None

Admit(h) ==
    /\ calls[h] = None
    /\ \E k \in Keys \cup {AdminKey, None}, op \in Ops,
          id \in AgentIds \cup {None}, role \in Roles \cup {None} :
          /\ Authenticates(k)
          /\ op = "report" => role = None
          /\ \E who \in ActsAs(k, id, role) :
                /\ Complete(op, who)
                /\ calls' = [calls EXCEPT ![h] = [key |-> k, id |-> who.id, role |-> who.role]]
    /\ UNCHANGED <<registry, bound>>

\* The service does what was asked or fails at it, in transactions after that
\* of the key lookup.
Serve(x) ==
    /\ calls[x] # None
    /\ calls' = [calls EXCEPT ![x] = None]
    /\ UNCHANGED <<registry, bound>>

-----------------------------------------------------------------------------
(* The MCP server.  It knows no admin key.                                 *)

Start(s) ==
    /\ bound[s] = Down
    /\ \E p \in {Resolved(k) : k \in {x \in Keys : Resolves(x)}} \cup {Unbound} :
          bound' = [bound EXCEPT ![s] = p]
    /\ UNCHANGED <<registry, calls>>

\* _bind: the identities a tool may act as.
Binds(p, op, id, role) ==
    IF p = Unbound
    THEN {[key |-> None, id |-> id,
           role |-> IF op = "store" /\ role = None THEN DefaultRole ELSE role]}
    ELSE IF id \in {None, p.id} /\ role \in {None, p.role} THEN {p} ELSE {}

CallTool(s) ==
    /\ bound[s] # Down /\ calls[s] = None
    /\ \E op \in Ops, id \in AgentIds \cup {None}, role \in Roles \cup {None} :
          \E who \in Binds(bound[s], op, id, role) :
              /\ Complete(op, who)
              /\ calls' = [calls EXCEPT ![s] = who]
    /\ UNCHANGED <<registry, bound>>

\* The process ends, at any point.
Stop(s) ==
    /\ bound[s] # Down
    /\ bound' = [bound EXCEPT ![s] = Down]
    /\ calls' = [calls EXCEPT ![s] = None]
    /\ UNCHANGED registry

Next ==
    \/ \E a \in AgentIds :
          \/ \E role \in Roles : Register(a, role) \/ Rotate(a, role)
          \/ Revoke(a)
    \/ \E h \in Handlers : Admit(h)
    \/ \E s \in Servers : Start(s) \/ CallTool(s) \/ Stop(s)
    \/ \E x \in Handlers \cup Servers : Serve(x)

\* A handler ends what it has begun.
Fairness == \A h \in Handlers : WF_vars(Serve(h))

Spec     == Init /\ [][Next]_vars
FairSpec == Spec /\ Fairness

-----------------------------------------------------------------------------
(* Properties.                                                             *)

\* Types; every agent has a key of its own, issued for it in its present role.
TypeOK ==
    /\ agents \in [AgentIds -> Agent \cup {None}]
    /\ owner \in [Keys -> [id : AgentIds, role : Roles] \cup {None}]
    /\ bound \in [Servers -> Principal \cup {Down, Unbound}]
    /\ calls \in [Handlers \cup Servers -> Call \cup {None}]
    /\ \A a \in AgentIds : agents[a] # None
          => owner[agents[a].key] = [id |-> a, role |-> agents[a].role]

\* Whatever is done with a key is done as the agent and in the role it was
\* issued for, through the API or an MCP server, whatever the request claims and
\* whatever became of the key (resolve_identity, _bind).
ActsAsIssued ==
    \A x \in Handlers \cup Servers :
        calls[x] # None /\ calls[x].key \in Keys
            => owner[calls[x].key] = [id |-> calls[x].id, role |-> calls[x].role]

\* A call under way, or a server, whose key is still good acts in the role the
\* registry has now: an identity goes stale only together with its key.
StaleOnlyWithKey ==
    \A p \in {calls[x] : x \in Handlers \cup Servers} \cup {bound[s] : s \in Servers} :
        p \notin {None, Down, Unbound} /\ p.key \in Keys /\ Live(p.key)
            => agents[p.id] # None /\ agents[p.id].key = p.key /\ agents[p.id].role = p.role

\* A key that was revoked or rotated away never works again, though its agent
\* may be registered anew.
DeadKeysStayDead == [][\A k \in Keys : owner[k] # None /\ ~Live(k) => ~Live(k)']_vars

\* Once a key is dead, the API's last requests under it end and no other
\* follows (resolve_key is asked again for every request).
RevocationTakesEffect ==
    \A k \in Keys : owner[k] # None /\ ~Live(k)
        ~> [](\A h \in Handlers : calls[h] # None => calls[h].key # k)
=============================================================================
