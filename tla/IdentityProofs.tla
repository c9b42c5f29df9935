--------------------------- MODULE IdentityProofs ---------------------------
(***************************************************************************)
(* Proofs about Identity, for any agents, keys, handlers and servers: the  *)
(* one fact behind them is that a principal, once resolved, is the agent   *)
(* and the role its key was issued for.                                    *)
(***************************************************************************)
EXTENDS Identity, TLAPS

\* A server's principal is whom its key was issued for.
BoundAsIssued ==
    \A s \in Servers : bound[s] \notin {Down, Unbound}
        => owner[bound[s].key] = [id |-> bound[s].id, role |-> bound[s].role]

IInv == TypeOK /\ ActsAsIssued /\ BoundAsIssued

\* The principal of a live key is whom it was issued for (resolve_key).
LEMMA ResolvedAsIssued ==
    ASSUME IInv, NEW k \in Keys, Resolves(k)
    PROVE  /\ Resolved(k) \in Principal
           /\ owner[k] = [id |-> Resolved(k).id, role |-> Resolved(k).role]
           /\ Resolved(k).key = k
<1> DEFINE a == CHOOSE x \in AgentIds : agents[x] # None /\ agents[x].key = k
<1>1. a \in AgentIds /\ agents[a] # None /\ agents[a].key = k
  BY DEF Resolves, Live
<1>2. agents[a] \in Agent
  BY <1>1 DEF IInv, TypeOK
<1>3. Resolved(k) = [key |-> k, id |-> a, role |-> agents[a].role]
  BY DEF Resolved
<1>4. owner[k] = [id |-> a, role |-> agents[a].role]
  BY <1>1 DEF IInv, TypeOK
<1> QED
  BY <1>1, <1>2, <1>3, <1>4 DEF Principal, Agent

LEMMA InitIInv == Init => IInv
BY DEF Init, IInv, TypeOK, ActsAsIssued, BoundAsIssued

\* A key is issued only to be the one key of one agent.
LEMMA IssueKeepsIInv ==
    ASSUME IInv, NEW a \in AgentIds, NEW role \in Roles, Issue(a, role)
    PROVE  IInv'
<1> DEFINE k == CHOOSE x \in Fresh : TRUE
<1>1. k \in Keys /\ owner[k] = None
  BY DEF Issue, Fresh
<1>2. /\ owner' = [owner EXCEPT ![k] = [id |-> a, role |-> role]]
      /\ agents' = [agents EXCEPT ![a] = [role |-> role, key |-> k, revoked |-> FALSE]]
      /\ bound' = bound /\ calls' = calls
  BY DEF Issue
<1> HIDE DEF k
<1>3. \A j \in Keys : owner[j] # None => owner'[j] = owner[j]
  BY <1>1, <1>2 DEF IInv, TypeOK
<1>4. \A i \in AgentIds, r \in Roles : [id |-> i, role |-> r] # None
  BY IdentityAssumption
<1>5. TypeOK'
  <2>1. agents' \in [AgentIds -> Agent \cup {None}]
    BY <1>1, <1>2 DEF IInv, TypeOK, Agent
  <2>2. owner' \in [Keys -> [id : AgentIds, role : Roles] \cup {None}]
    BY <1>1, <1>2 DEF IInv, TypeOK
  <2>3. ASSUME NEW b \in AgentIds, agents'[b] # None
        PROVE  owner'[agents'[b].key] = [id |-> b, role |-> agents'[b].role]
    <3>1. CASE b = a
      BY <3>1, <1>1, <1>2 DEF IInv, TypeOK
    <3>2. CASE b # a
      <4>1. agents'[b] = agents[b] /\ agents[b] \in Agent
        BY <3>2, <2>3, <1>2 DEF IInv, TypeOK
      <4>2. agents[b].key \in Keys /\ agents[b].role \in Roles
        BY <4>1 DEF Agent
      <4>3. owner[agents[b].key] = [id |-> b, role |-> agents[b].role]
        BY <4>1, <2>3 DEF IInv, TypeOK
      <4> QED
        BY <4>1, <4>2, <4>3, <1>3, <1>4
    <3> QED
      BY <3>1, <3>2
  <2> QED
    BY <2>1, <2>2, <2>3, <1>2 DEF IInv, TypeOK
<1>6. ActsAsIssued'
  <2> SUFFICES ASSUME NEW x \in Handlers \cup Servers, calls[x] # None, calls[x].key \in Keys
               PROVE  owner'[calls[x].key] = [id |-> calls[x].id, role |-> calls[x].role]
    BY <1>2 DEF ActsAsIssued
  <2>1. owner[calls[x].key] = [id |-> calls[x].id, role |-> calls[x].role]
    BY DEF IInv, ActsAsIssued
  <2>2. calls[x].id \in AgentIds \cup {None} /\ calls[x].role \in Roles \cup {None}
    BY DEF IInv, TypeOK, Call
  <2>3. [id |-> calls[x].id, role |-> calls[x].role]
          \in [id : AgentIds \cup {None}, role : Roles \cup {None}]
    BY <2>2
  <2>4. owner[calls[x].key] # None
    BY <2>1, <2>3, IdentityAssumption
  <2> QED
    BY <2>1, <2>4, <1>3
<1>7. BoundAsIssued'
  <2> SUFFICES ASSUME NEW s \in Servers, bound[s] \notin {Down, Unbound}
               PROVE  owner'[bound[s].key] = [id |-> bound[s].id, role |-> bound[s].role]
    BY <1>2 DEF BoundAsIssued
  <2>1. bound[s].key \in Keys /\ bound[s].id \in AgentIds /\ bound[s].role \in Roles
    BY DEF IInv, TypeOK, Principal
  <2> QED
    BY <2>1, <1>3, <1>4 DEF IInv, BoundAsIssued
<1> QED
  BY <1>5, <1>6, <1>7 DEF IInv

LEMMA RevokeKeepsIInv ==
    ASSUME IInv, NEW a \in AgentIds, Revoke(a)
    PROVE  IInv'
<1>1. agents[a] \in Agent
  BY DEF Revoke, IInv, TypeOK
<1>2. /\ agents' \in [AgentIds -> Agent \cup {None}]
      /\ \A b \in AgentIds : agents'[b] # None
            => agents[b] # None /\ agents'[b].key = agents[b].key
                                /\ agents'[b].role = agents[b].role
  BY <1>1 DEF Revoke, IInv, TypeOK, Agent
<1> QED
  BY <1>2 DEF Revoke, IInv, TypeOK, ActsAsIssued, BoundAsIssued

\* Neither an endpoint nor a tool acts as anyone but the key's agent.
LEMMA AdmitKeepsIInv ==
    ASSUME IInv, NEW h \in Handlers, Admit(h)
    PROVE  IInv'
<1>1. PICK k \in Keys \cup {AdminKey, None}, op \in Ops,
           id \in AgentIds \cup {None}, role \in Roles \cup {None} :
        /\ Authenticates(k)
        /\ op = "report" => role = None
        /\ \E who \in ActsAs(k, id, role) :
              /\ Complete(op, who)
              /\ calls' = [calls EXCEPT ![h] = [key |-> k, id |-> who.id, role |-> who.role]]
  BY DEF Admit
<1>2. PICK who \in ActsAs(k, id, role) :
        calls' = [calls EXCEPT ![h] = [key |-> k, id |-> who.id, role |-> who.role]]
  BY <1>1
<1>3. UNCHANGED <<agents, owner, bound>>
  BY DEF Admit, registry
<1>4. /\ [key |-> k, id |-> who.id, role |-> who.role] \in Call
      /\ k \in Keys => owner[k] = [id |-> who.id, role |-> who.role]
  <2>1. CASE k \in Keys
    <3>1. Resolves(k)
      BY <2>1, <1>1, IdentityAssumption DEF Authenticates
    <3>2. who.id = Resolved(k).id /\ who.role = Resolved(k).role
      BY <2>1, <1>2 DEF ActsAs
    <3> QED
      BY <2>1, <3>1, <3>2, ResolvedAsIssued DEF Principal, Call
  <2>2. CASE k \notin Keys
    <3>1. who = [id |-> id, role |-> role]
      BY <2>2, <1>2 DEF ActsAs
    <3> QED
      BY <2>2, <3>1 DEF Call
  <2> QED
    BY <2>1, <2>2
<1>5. calls' \in [Handlers \cup Servers -> Call \cup {None}]
  BY <1>2, <1>4 DEF IInv, TypeOK
<1>6. ActsAsIssued'
  BY <1>2, <1>3, <1>4 DEF IInv, TypeOK, ActsAsIssued
<1> QED
  BY <1>3, <1>5, <1>6 DEF IInv, TypeOK, BoundAsIssued

LEMMA StartKeepsIInv ==
    ASSUME IInv, NEW s \in Servers, Start(s)
    PROVE  IInv'
<1>1. PICK p \in {Resolved(k) : k \in {x \in Keys : Resolves(x)}} \cup {Unbound} :
        bound' = [bound EXCEPT ![s] = p]
  BY DEF Start
<1>2. UNCHANGED <<agents, owner, calls>>
  BY DEF Start, registry
<1>3. p # Unbound => p \in Principal /\ owner[p.key] = [id |-> p.id, role |-> p.role]
  BY <1>1, ResolvedAsIssued
<1>4. bound' \in [Servers -> Principal \cup {Down, Unbound}]
  BY <1>1, <1>3 DEF IInv, TypeOK
<1>5. BoundAsIssued'
  BY <1>1, <1>2, <1>3 DEF IInv, TypeOK, BoundAsIssued
<1> QED
  BY <1>2, <1>4, <1>5 DEF IInv, TypeOK, ActsAsIssued

LEMMA CallToolKeepsIInv ==
    ASSUME IInv, NEW s \in Servers, CallTool(s)
    PROVE  IInv'
<1>1. PICK op \in Ops, id \in AgentIds \cup {None}, role \in Roles \cup {None} :
        \E who \in Binds(bound[s], op, id, role) :
            Complete(op, who) /\ calls' = [calls EXCEPT ![s] = who]
  BY DEF CallTool
<1>2. PICK who \in Binds(bound[s], op, id, role) : calls' = [calls EXCEPT ![s] = who]
  BY <1>1
<1>3. bound[s] # Down /\ UNCHANGED <<agents, owner, bound>>
  BY DEF CallTool, registry
<1>4. who \in Call /\ (who.key \in Keys => owner[who.key] = [id |-> who.id, role |-> who.role])
  <2>1. CASE bound[s] = Unbound
    <3>1. who.key = None /\ who \in Call
      BY <2>1, <1>2, IdentityAssumption DEF Binds, Call
    <3> QED
      BY <3>1, IdentityAssumption
  <2>2. CASE bound[s] # Unbound
    <3>1. who = bound[s] /\ who \in Principal
      BY <2>2, <1>2, <1>3 DEF Binds, IInv, TypeOK
    <3> QED
      BY <3>1, <2>2, <1>3 DEF IInv, BoundAsIssued, Principal, Call
  <2> QED
    BY <2>1, <2>2
<1>5. calls' \in [Handlers \cup Servers -> Call \cup {None}]
  BY <1>2, <1>4 DEF IInv, TypeOK
<1>6. ActsAsIssued'
  BY <1>2, <1>3, <1>4 DEF IInv, TypeOK, ActsAsIssued
<1> QED
  BY <1>3, <1>5, <1>6 DEF IInv, TypeOK, BoundAsIssued

LEMMA NextIInv == IInv /\ [Next]_vars => IInv'
<1> SUFFICES ASSUME IInv, [Next]_vars PROVE IInv'
  OBVIOUS
<1>1. CASE \E a \in AgentIds, role \in Roles : Register(a, role) \/ Rotate(a, role)
  BY <1>1, IssueKeepsIInv DEF Register, Rotate
<1>2. CASE \E a \in AgentIds : Revoke(a)
  BY <1>2, RevokeKeepsIInv
<1>3. CASE \E h \in Handlers : Admit(h)
  BY <1>3, AdmitKeepsIInv
<1>4. CASE \E s \in Servers : Start(s)
  BY <1>4, StartKeepsIInv
<1>5. CASE \E s \in Servers : CallTool(s)
  BY <1>5, CallToolKeepsIInv
<1>6. CASE \E s \in Servers : Stop(s)
  BY <1>6 DEF Stop, registry, IInv, TypeOK, ActsAsIssued, BoundAsIssued
<1>7. CASE \E x \in Handlers \cup Servers : Serve(x)
  BY <1>7 DEF Serve, registry, IInv, TypeOK, ActsAsIssued, BoundAsIssued
<1>8. CASE UNCHANGED vars
  BY <1>8 DEF vars, registry, IInv, TypeOK, ActsAsIssued, BoundAsIssued
<1> QED
  BY <1>1, <1>2, <1>3, <1>4, <1>5, <1>6, <1>7, <1>8 DEF Next

LEMMA InvariantHolds == Spec => []IInv
<1> QED BY InitIInv, NextIInv, PTL DEF Spec

\* The variables keep their types, and the registry's rows agree with the keys
\* register_agent handed out.
THEOREM TypeCorrect == Spec => []TypeOK
<1>1. IInv => TypeOK
  BY DEF IInv
<1> QED BY <1>1, InvariantHolds, PTL

\* Whatever is done with a key is done as its agent (resolve_identity, _bind).
THEOREM KeysBindIdentity == Spec => []ActsAsIssued
<1>1. IInv => ActsAsIssued
  BY DEF IInv
<1> QED BY <1>1, InvariantHolds, PTL

\* A principal resolved earlier agrees with the registry while its key is good.
THEOREM PrincipalsAgree == Spec => []StaleOnlyWithKey
<1>1. ASSUME IInv PROVE StaleOnlyWithKey
  <2> SUFFICES ASSUME NEW p \in {calls[x] : x \in Handlers \cup Servers} \cup {bound[s] : s \in Servers},
                      p \notin {None, Down, Unbound}, p.key \in Keys, Live(p.key)
               PROVE  agents[p.id] # None /\ agents[p.id].key = p.key /\ agents[p.id].role = p.role
    BY DEF StaleOnlyWithKey
  <2>1. owner[p.key] = [id |-> p.id, role |-> p.role]
    BY <1>1 DEF IInv, ActsAsIssued, BoundAsIssued
  <2>2. PICK b \in AgentIds : agents[b] # None /\ agents[b].key = p.key
    BY DEF Live
  <2>3. owner[p.key] = [id |-> b, role |-> agents[b].role]
    BY <1>1, <2>2 DEF IInv, TypeOK
  <2>4. b = p.id /\ agents[b].role = p.role
    BY <2>1, <2>3
  <2> QED
    BY <2>2, <2>4
<1> QED BY <1>1, InvariantHolds, PTL

\* register_agent never brings a revoked or replaced key back.
THEOREM KeysDieOnce == Spec => DeadKeysStayDead
<1>1. ASSUME [Next]_vars, NEW k \in Keys, owner[k] # None, Live(k)', IInv
      PROVE  Live(k)
  <2>1. CASE \E a \in AgentIds, role \in Roles : Issue(a, role)
    <3>1. PICK a \in AgentIds, role \in Roles : Issue(a, role)
      BY <2>1
    <3>2. PICK j \in Fresh :
            agents' = [agents EXCEPT ![a] = [role |-> role, key |-> j, revoked |-> FALSE]]
      BY <3>1 DEF Issue
    <3>3. PICK b \in AgentIds : agents'[b] # None /\ agents'[b].key = k /\ ~agents'[b].revoked
      BY <1>1 DEF Live
    <3>4. j # k
      BY <1>1, <3>2 DEF Fresh
    <3>5. b # a
      BY <3>2, <3>3, <3>4, <1>1 DEF IInv, TypeOK
    <3> QED
      BY <3>2, <3>3, <3>5, <1>1 DEF IInv, TypeOK, Live
  <2>2. CASE \E a \in AgentIds : Revoke(a)
    <3>1. PICK a \in AgentIds : Revoke(a)
      BY <2>2
    <3>2. PICK b \in AgentIds : agents'[b] # None /\ agents'[b].key = k /\ ~agents'[b].revoked
      BY <1>1 DEF Live
    <3>3. agents[a] \in Agent /\ agents' = [agents EXCEPT ![a] = [agents[a] EXCEPT !.revoked = TRUE]]
      BY <3>1, <1>1 DEF Revoke, IInv, TypeOK
    <3>4. b # a
      BY <3>2, <3>3, <1>1 DEF IInv, TypeOK, Agent
    <3> QED
      BY <3>2, <3>3, <3>4, <1>1 DEF IInv, TypeOK, Live
  <2>3. CASE agents' = agents
    BY <2>3, <1>1 DEF Live
  <2> QED
    BY <1>1, <2>1, <2>2, <2>3
    DEF Next, vars, registry, Register, Rotate, Admit, Start, CallTool, Stop, Serve
<1>2. IInv /\ [Next]_vars => [\A k \in Keys : owner[k] # None /\ ~Live(k) => ~Live(k)']_vars
  BY <1>1 DEF vars
<1> QED BY <1>2, InvariantHolds, PTL DEF Spec, DeadKeysStayDead
=============================================================================
