------------------------------- MODULE Reuse -------------------------------
(***************************************************************************)
(* The governed store under concurrent API requests: memories are stored,  *)
(* put in front of agents (prepare_context, with the injection ledger) and *)
(* reported on (apply_reuse, one transaction per report).  A request runs  *)
(* in a handler thread and takes several steps; each step is a statement   *)
(* of Postgres at READ COMMITTED, so a transaction's writes stay in txn    *)
(* until it commits, and a failure at any step rolls them back.            *)
(***************************************************************************)
EXTENDS Judge, FiniteSets, Sequences

CONSTANTS
    Memories, Agents, Handlers,
    Author,        \* the author of each memory
    RoleOf,        \* the role of each agent
    Null,          \* SQL's null: no row, no lock holder, no request
    MaxContext,    \* MemorySelectionPolicy.max_context_memories
    MaxCalls       \* bound of the model: requests served in all

ASSUME ReuseAssumption ==
    /\ Null \notin Row /\ Null \notin Handlers /\ Null \notin Tier
    /\ Author \in [Memories -> Agents]
    /\ MaxContext \in Nat /\ MaxCalls \in Nat

VARIABLES
    experiences,       \* table: the governance columns of each memory
    tier_transitions,  \* table: the audit trail of each memory, oldest first
    injections,        \* table: which memory was put in front of which agent
    reported,          \* the injections whose reported_at is set
    reuse_events,      \* table: every report, with whether it counted
    lock,              \* the handler whose transaction holds FOR UPDATE on a row;
                       \* for KEY SHARE see KeyShare
    pc, req, txn,      \* per handler: next step, request, uncommitted writes
    calls              \* requests served so far (bound of the model)

tables   == <<experiences, tier_transitions, injections, reported, reuse_events>>
handlers == <<pc, req, txn>>
vars     == <<tables, lock, handlers, calls>>

InjectionRow  == [mem : Memories, to : Agents, nr : Nat]
Event      == [mem : Memories, by : Agents, nr : Nat, ok : BOOLEAN, counted : BOOLEAN]
Transition == [from : Tier \cup {Null}, to : Tier]

\* picked: the memories of the context whose rows are still to be inserted.
ContextRequest == [agent : Agents, picked : Seq(Memories)]
ReuseRequest   == [mem : Memories, agent : Agents, ok : BOOLEAN]

\* The uncommitted writes of a report: whether it counts, the injection it
\* spends (at most one), the new row and the audit rows (none when uncounted);
\* and of a context: the memories it has inserted an injection of.
Txn == [counted : BOOLEAN, spends : SUBSET InjectionRow,
        row : Row \cup {Null}, moves : Seq(Transition), injects : SUBSET Memories]

NoWrites == [counted |-> FALSE, spends |-> {}, row |-> Null, moves |-> <<>>,
             injects |-> {}]

InTransaction == {"countable", "update", "commit"}

Stored(m) == experiences[m] # Null

Init ==
    /\ experiences = [m \in Memories |-> Null]
    /\ tier_transitions = [m \in Memories |-> <<>>]
    /\ injections = {} /\ reported = {} /\ reuse_events = {}
    /\ lock = [m \in Memories |-> Null]
    /\ pc = [h \in Handlers |-> "idle"]
    /\ req = [h \in Handlers |-> Null]
    /\ txn = [h \in Handlers |-> NoWrites]
    /\ calls = 0

-----------------------------------------------------------------------------
(* insert_enriched_experience: the row and its first audit row, at once.   *)

Store(m) ==
    /\ ~Stored(m)
    /\ \E r \in EntryRows :
          /\ experiences' = [experiences EXCEPT ![m] = r]
          /\ tier_transitions' =
                 [tier_transitions EXCEPT ![m] = <<[from |-> Null, to |-> r.tier]>>]
    /\ UNCHANGED <<injections, reported, reuse_events, lock, handlers, calls>>

-----------------------------------------------------------------------------
(* Requests.                                                               *)

Accept(h, step, request) ==
    /\ pc[h] = "idle" /\ calls < MaxCalls
    /\ pc' = [pc EXCEPT ![h] = step]
    /\ req' = [req EXCEPT ![h] = request]
    /\ calls' = calls + 1

\* The handler returns its connection and its answer.
Return(h) ==
    /\ pc' = [pc EXCEPT ![h] = "idle"]
    /\ req' = [req EXCEPT ![h] = Null]
    /\ txn' = [txn EXCEPT ![h] = NoWrites]

Unlock(h) == lock' = [m \in Memories |-> IF lock[m] = h THEN Null ELSE lock[m]]

\* The least number that no row of the same memory and agent has: BIGSERIAL
\* keys, kept apart per memory and agent.
FirstFree(k, taken) == k \notin taken /\ \A j \in 1..(k - 1) : j \in taken

-----------------------------------------------------------------------------
(* prepare_context: a search in one transaction, the ledger in another.    *)

\* The search's visibility rule and the context builder's confidence floor.
Retrievable(m, a) ==
    /\ Stored(m)
    /\ VisibleTo(experiences[m].tier, Author[m], RoleOf[Author[m]], a, RoleOf[a])
    /\ experiences[m].conf >= MinConfidence

\* Relevance, ranking and redundancy decide which retrievable memories are
\* picked and in which order; with none picked the call returns and writes
\* nothing.
PrepareContext(h, a) ==
    /\ \E n \in 1..MaxContext :
       \E picked \in [1..n -> {m \in Memories : Retrievable(m, a)}] :
          /\ \A i, j \in 1..n : picked[i] = picked[j] => i = j
          /\ Accept(h, "inject", [agent |-> a, picked |-> picked])
    /\ UNCHANGED <<tables, lock, txn>>

InsertExclusively(h) ==   \* slip: each insert locks its memory as a report does
    /\ pc[h] = "inject" /\ req[h].picked # <<>>
    /\ LET m == Head(req[h].picked)
       IN  /\ lock[m] = Null
           /\ lock' = [lock EXCEPT ![m] = h]
           /\ txn' = [txn EXCEPT ![h].injects = @ \cup {m}]
    /\ req' = [req EXCEPT ![h].picked = Tail(@)]
    /\ UNCHANGED <<tables, pc, calls>>

\* record_injections, one INSERT of its executemany: the foreign key takes KEY
\* SHARE on the memory, which waits for a FOR UPDATE holder and is kept, with
\* those of the rows before, until the commit.
InsertInjection(h) ==
    /\ pc[h] = "inject" /\ req[h].picked # <<>>
    /\ LET m == Head(req[h].picked)
       IN  /\ lock[m] = Null
           /\ txn' = [txn EXCEPT ![h].injects = @ \cup {m}]
    /\ req' = [req EXCEPT ![h].picked = Tail(@)]
    /\ UNCHANGED <<tables, lock, pc, calls>>

\* The handlers that hold KEY SHARE on a memory: it is no lock against each
\* other, only against FOR UPDATE.
KeyShare(m) == {h \in Handlers : m \in txn[h].injects}

\* The end of record_injections: the rows become visible, the locks go.
CommitInjections(h) ==
    /\ pc[h] = "inject" /\ req[h].picked = <<>>
    /\ LET a == req[h].agent
           new == txn[h].injects
           Numbers(m) == {i.nr : i \in {x \in injections : x.mem = m /\ x.to = a}}
       IN  \E nr \in [new -> 1..MaxCalls] :
              /\ \A m \in new : FirstFree(nr[m], Numbers(m))
              /\ injections' = injections \cup
                     {[mem |-> m, to |-> a, nr |-> nr[m]] : m \in new}
    /\ Unlock(h)
    /\ Return(h)
    /\ UNCHANGED <<experiences, tier_transitions, reported, reuse_events, calls>>

-----------------------------------------------------------------------------
(* record_reuse: apply_reuse's transaction.                                *)

\* Any agent may report on any memory id, with or without an injection.
ReceiveReport(h, m, a, ok) ==
    /\ Accept(h, "select", [mem |-> m, agent |-> a, ok |-> ok])
    /\ UNCHANGED <<tables, lock, txn>>

SelectWithoutLock(h) ==   \* slip: SELECT without FOR UPDATE
    /\ pc[h] = "select"
    /\ IF Stored(req[h].mem)
       THEN pc' = [pc EXCEPT ![h] = "countable"] /\ UNCHANGED <<req, txn>>
       ELSE Return(h)
    /\ UNCHANGED <<tables, lock, calls>>

\* SELECT ... FOR UPDATE: waits for another's FOR UPDATE or KEY SHARE on the
\* row; a missing row is a 404.
SelectForUpdate(h) ==
    /\ pc[h] = "select"
    /\ LET m == req[h].mem IN
       \/ /\ Stored(m) /\ lock[m] = Null /\ KeyShare(m) = {}
          /\ lock' = [lock EXCEPT ![m] = h]
          /\ pc' = [pc EXCEPT ![h] = "countable"]
          /\ UNCHANGED <<req, txn>>
       \/ /\ ~Stored(m)
          /\ Return(h)
          /\ UNCHANGED lock
    /\ UNCHANGED <<tables, calls>>

AuthorAlreadyReported(m) ==
    \E e \in reuse_events : /\ e.mem = m /\ e.by = Author[m]
                            /\ e.counted /\ ~e.ok

\* Unreported injections of m to a, without those locked by a transaction
\* (SKIP LOCKED).
OpenInjections(m, a) ==
    {i \in injections : /\ i.mem = m /\ i.to = a /\ i \notin reported
                        /\ \A h \in Handlers : i \notin txn[h].spends}

Oldest(rows) == {i \in rows : \A j \in rows : i.nr <= j.nr}

Decided(h, counted, spends) ==
    /\ txn' = [txn EXCEPT ![h] = [@ EXCEPT !.counted = counted, !.spends = spends]]
    /\ pc' = [pc EXCEPT ![h] = IF counted THEN "update" ELSE "commit"]

ReuseIsCountableByAuthor(h) ==   \* slip: the author is a reporter like any other
    /\ pc[h] = "countable"
    /\ LET open == OpenInjections(req[h].mem, req[h].agent) IN
       \/ open = {} /\ Decided(h, FALSE, {})
       \/ \E i \in Oldest(open) : Decided(h, TRUE, {i})
    /\ UNCHANGED <<tables, lock, req, calls>>

ReuseIsCountableUnasked(h) ==   \* slip: a report needs no injection
    /\ pc[h] = "countable"
    /\ Decided(h, req[h].agent # Author[req[h].mem], {})
    /\ UNCHANGED <<tables, lock, req, calls>>

\* _reuse_is_countable, with the injection it spends.
ReuseIsCountable(h) ==
    /\ pc[h] = "countable"
    /\ LET m == req[h].mem
           a == req[h].agent
           open == OpenInjections(m, a)
       IN  \/ /\ a = Author[m]
              /\ Decided(h, ~req[h].ok /\ ~AuthorAlreadyReported(m), {})
           \/ /\ a # Author[m] /\ open = {}
              /\ Decided(h, FALSE, {})
           \/ /\ a # Author[m]
              /\ \E i \in Oldest(open) : Decided(h, TRUE, {i})
    /\ UNCHANGED <<tables, lock, req, calls>>

UpdateRowTakingBack(h) ==   \* slip: a failure takes a success back
    /\ pc[h] = "update"
    /\ LET r == experiences[req[h].mem]
       IN  txn' = [txn EXCEPT ![h].row =
              [r EXCEPT !.n = @ + 1, !.s = IF req[h].ok THEN @ + 1 ELSE @ - 1]]
    /\ pc' = [pc EXCEPT ![h] = "commit"]
    /\ UNCHANGED <<tables, lock, req, calls>>

UpdateRowUnaudited(h) ==   \* slip: a tier change leaves no audit row
    /\ pc[h] = "update"
    /\ txn' = [txn EXCEPT ![h].row = AfterReport(experiences[req[h].mem], req[h].ok)]
    /\ pc' = [pc EXCEPT ![h] = "commit"]
    /\ UNCHANGED <<tables, lock, req, calls>>

UpdateRowJudgedFirst(h) ==   \* slip: the Judge sees the counters before the report
    /\ pc[h] = "update"
    /\ LET r == experiences[req[h].mem]
           n == r.n + 1
           s == IF req[h].ok THEN r.s + 1 ELSE r.s
       IN  txn' = [txn EXCEPT ![h].row =
              [r EXCEPT !.n = n, !.s = s, !.tier = Decide(@, r.n, r.s),
                        !.conf = Posterior(s, n, r.prior)]]
    /\ pc' = [pc EXCEPT ![h] = "commit"]
    /\ UNCHANGED <<tables, lock, req, calls>>

\* UPDATE ... RETURNING, the confidence, the Judge, and its tier and audit row.
UpdateRow(h) ==
    /\ pc[h] = "update"
    /\ LET r == experiences[req[h].mem]
           q == AfterReport(r, req[h].ok)
       IN  txn' = [txn EXCEPT ![h] = [@ EXCEPT
              !.row = q,
              !.moves = IF q.tier = r.tier THEN <<>>
                                           ELSE <<[from |-> r.tier, to |-> q.tier]>>]]
    /\ pc' = [pc EXCEPT ![h] = "commit"]
    /\ UNCHANGED <<tables, lock, req, calls>>

\* The report is logged whether it counts or not.
Commit(h) ==
    /\ pc[h] = "commit"
    /\ LET m == req[h].mem
           a == req[h].agent
           w == txn[h]
           Numbers == {e.nr : e \in {x \in reuse_events : x.mem = m /\ x.by = a}}
       IN  /\ \E nr \in 1..MaxCalls :
                 /\ FirstFree(nr, Numbers)
                 /\ reuse_events' = reuse_events \cup
                        {[mem |-> m, by |-> a, nr |-> nr, ok |-> req[h].ok,
                          counted |-> w.counted]}
           /\ reported' = reported \cup w.spends
           /\ experiences' = IF w.counted THEN [experiences EXCEPT ![m] = w.row]
                                          ELSE experiences
           /\ tier_transitions' = [tier_transitions EXCEPT ![m] = @ \o w.moves]
    /\ Unlock(h)
    /\ Return(h)
    /\ UNCHANGED <<injections, calls>>

-----------------------------------------------------------------------------

\* A database error, a lost connection or the death of the server: the
\* transaction rolls back and the client gets an error or no answer.
Abort(h) ==
    /\ pc[h] # "idle"
    /\ Unlock(h)
    /\ Return(h)
    /\ UNCHANGED <<tables, calls>>

\* An idle server waits.
Quiet == (\A h \in Handlers : pc[h] = "idle") /\ UNCHANGED vars

Step(h) ==
    \/ \E a \in Agents : PrepareContext(h, a)
    \/ InsertInjection(h)
    \/ CommitInjections(h)
    \/ \E m \in Memories, a \in Agents, ok \in BOOLEAN : ReceiveReport(h, m, a, ok)
    \/ SelectForUpdate(h)
    \/ ReuseIsCountable(h)
    \/ UpdateRow(h)
    \/ Commit(h)
    \/ Abort(h)

Next ==
    \/ \E m \in Memories : Store(m)
    \/ \E h \in Handlers : Step(h)
    \/ Quiet

\* A handler that can go on does; Postgres queues the waiters of a row lock,
\* so a handler that can have the lock again and again gets it.  No failure is
\* fair, and so a deadlock that Postgres would have to end would stay.
Fairness ==
    \A h \in Handlers :
        /\ SF_vars(InsertInjection(h)) /\ SF_vars(SelectForUpdate(h))
        /\ WF_vars(CommitInjections(h))
        /\ WF_vars(ReuseIsCountable(h)) /\ WF_vars(UpdateRow(h)) /\ WF_vars(Commit(h))

Spec     == Init /\ [][Next]_vars
FairSpec == Spec /\ Fairness

-----------------------------------------------------------------------------
(* Properties.                                                             *)

TypeOK ==
    /\ experiences \in [Memories -> Row \cup {Null}]
    /\ tier_transitions \in [Memories -> Seq(Transition)]
    /\ injections \subseteq InjectionRow
    /\ reported \subseteq injections
    /\ reuse_events \subseteq Event
    /\ lock \in [Memories -> Handlers \cup {Null}]
    /\ pc \in [Handlers -> {"idle", "inject", "select"} \cup InTransaction]
    /\ req \in [Handlers -> ContextRequest \cup ReuseRequest \cup {Null}]
    /\ txn \in [Handlers -> Txn]
    /\ calls \in Nat

Counted(m)       == {e \in reuse_events : e.mem = m /\ e.counted}
CountedOk(m)     == {e \in Counted(m) : e.ok}
CountedBy(m, a)  == {e \in Counted(m) : e.by = a}
SpentOn(m, a)    == {i \in reported : i.mem = m /\ i.to = a}

\* The counters of a memory are exactly the counted reports logged for it: no
\* report is lost or counted twice when several are handled at once, nor
\* when one is rolled back (apply_reuse: "concurrent reports serialise").
CountersMatchLog ==
    \A m \in Memories : Stored(m) =>
        /\ experiences[m].n = Cardinality(Counted(m))
        /\ experiences[m].s = Cardinality(CountedOk(m))

\* Every counted report of a peer spent an injection of its own, and every
\* spent injection paid for one counted report (migration 003: "one
\* injection, at most one counted report").
CreditSpendsInjection ==
    \A m \in Memories : \A a \in Agents \ {Author[m]} :
        Cardinality(CountedBy(m, a)) = Cardinality(SpentOn(m, a))

\* Of an author's reports on its own memory, none of success counts and at
\* most one of failure does (_reuse_is_countable).
AuthorCountsOnceAgainst ==
    \A m \in Memories :
        /\ Cardinality(CountedBy(m, Author[m])) <= 1
        /\ \A e \in CountedBy(m, Author[m]) : ~e.ok

\* A memory the whole fleet can read was vouched for by an agent other than
\* its author, to whom it had been given (README: "SHARED: >= 1 counted
\* successful reuse by another agent").
FleetVisibleIsVouched ==
    \A m \in Memories : Stored(m) /\ FleetVisible(experiences[m].tier) =>
        \E e \in Counted(m) :
            /\ e.ok /\ e.by # Author[m]
            /\ \E i \in reported : i.mem = m /\ i.to = e.by

\* The audit trail of a stored memory starts at its entry, each row goes on
\* from the tier the one before left, and the last is the memory's tier.
AuditTrailIsComplete ==
    \A m \in Memories : Stored(m) =>
        LET trail == tier_transitions[m]
        IN  /\ Len(trail) > 0 /\ trail[1].from = Null
            /\ \A k \in 2..Len(trail) : trail[k].from = trail[k - 1].to
            /\ trail[Len(trail)].to = experiences[m].tier

\* A stored row changes only in a step that logs a counted report on that
\* memory, and it logs exactly one (what LadderSpec and CountersMatchLog, which
\* TLC checks, come to; proved in ReuseProofs).
GovernanceMovesOnCredit ==
    [][\A m \in Memories : Stored(m) /\ experiences'[m] # experiences[m] =>
          Cardinality(Counted(m)') = Cardinality(Counted(m)) + 1]_vars

\* Reports behave as if each was applied at one instant: see Ladder.
Promised == INSTANCE Ladder WITH board <- experiences, NoRow <- Null
LadderSpec == Promised!Spec

\* Every request is answered, also those that wait for the row of another: a
\* context inserts its rows one by one and holds a lock for each while it waits
\* for reports, and reports wait for contexts (record_injections, apply_reuse).
EveryCallReturns == \A h \in Handlers : pc[h] # "idle" ~> pc[h] = "idle"
=============================================================================
