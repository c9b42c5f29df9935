---------------------------- MODULE ReuseProofs ----------------------------
(***************************************************************************)
(* The governed store keeps its books, under any number of concurrent      *)
(* requests, agents, memories and failures: each handler knows what it has *)
(* read, the counters are the log, the credit is the injections, the audit *)
(* trail leads to the tier; and so it implements the ladder.               *)
(***************************************************************************)
EXTENDS Reuse, JudgeProofs, FiniteSetTheorems

(***************************************************************************)
(* The inductive invariant: what each handler knows at each step, which    *)
(* holds because nothing else touches a memory whose row it has locked.    *)
(***************************************************************************)

\* The audit rows of a judgment: one when the tier changes.
Moves(r, q) == IF q.tier = r.tier THEN <<>> ELSE <<[from |-> r.tier, to |-> q.tier]>>

\* Why the report of a handler counts.
Entitled(h) ==
    \/ /\ req[h].agent = Author[req[h].mem] /\ ~req[h].ok
       /\ txn[h].spends = {} /\ ~AuthorAlreadyReported(req[h].mem)
    \/ /\ req[h].agent # Author[req[h].mem]
       /\ \E i \in injections \ reported :
             i.mem = req[h].mem /\ i.to = req[h].agent /\ txn[h].spends = {i}

Asked(h) ==
    /\ pc[h] = "inject" => req[h] \in ContextRequest
    /\ pc[h] \in {"select"} \cup InTransaction => req[h] \in ReuseRequest

Holding(h) ==
    pc[h] \in InTransaction => Stored(req[h].mem) /\ lock[req[h].mem] = h

Writing(h) ==
    /\ pc[h] \notin {"inject", "update", "commit"} => txn[h] = NoWrites
    /\ pc[h] = "update" => txn[h].counted /\ txn[h].moves = <<>>
    /\ pc[h] \in {"update", "commit"} /\ txn[h].counted => Entitled(h)
    /\ pc[h] = "commit" /\ txn[h].counted =>
           LET r == experiences[req[h].mem]
           IN  /\ txn[h].row = AfterReport(r, req[h].ok)
               /\ txn[h].moves = Moves(r, txn[h].row)
    /\ pc[h] = "commit" /\ ~txn[h].counted => txn[h].spends = {} /\ txn[h].moves = <<>>

Control == \A h \in Handlers : Asked(h) /\ Holding(h) /\ Writing(h)

-----------------------------------------------------------------------------
(* Helpers.                                                                *)

\* A judged row is a row, with one more report.
LEMMA JudgedTyped ==
    ASSUME NEW r \in Row, NEW ok \in BOOLEAN
    PROVE  /\ AfterReport(r, ok) \in Row
           /\ AfterReport(r, ok).n = r.n + 1
           /\ AfterReport(r, ok).s = IF ok THEN r.s + 1 ELSE r.s
           /\ AfterReport(r, ok).tier = Decide(r.tier, AfterReport(r, ok).n, AfterReport(r, ok).s)
<1> DEFINE n == r.n + 1
           s == IF ok THEN r.s + 1 ELSE r.s
           t == Decide(r.tier, n, s)
           c == ConfidenceAfter(r.tier, n, s, r.prior)
<1>1. n \in Nat /\ s \in Nat /\ r.tier \in Tier /\ r.prior \in Nat
    BY DEF Row
<1>2. AfterReport(r, ok) = [r EXCEPT !.n = n, !.s = s, !.tier = t, !.conf = c]
    BY Zenon DEF AfterReport
<1>3. s = (IF ok THEN r.s + 1 ELSE r.s) /\ n = r.n + 1 /\ t = Decide(r.tier, n, s)
    OBVIOUS
<1>4. t \in Tier /\ c \in Int
    <2> HIDE DEF n, s
    <2> QED BY <1>1, DecideTyped, ConfidenceAfterTyped
<1> HIDE DEF n, s, t, c
<1> DEFINE q == [r EXCEPT !.n = n, !.s = s, !.tier = t, !.conf = c]
<1>5. q \in Row /\ q.n = n /\ q.s = s /\ q.tier = t
    BY <1>1, <1>4 DEF Row
<1> QED BY <1>2, <1>3, <1>5

\* A handler that returns leaves every other handler as it was.
LEMMA ReturnTyped ==
    ASSUME TypeOK, NEW h \in Handlers, Return(h)
    PROVE  /\ pc' \in [Handlers -> {"idle", "inject", "select"} \cup InTransaction]
           /\ req' \in [Handlers -> ContextRequest \cup ReuseRequest \cup {Null}]
           /\ txn' \in [Handlers -> Txn]
           /\ pc'[h] = "idle" /\ txn'[h] = NoWrites
           /\ \A g \in Handlers \ {h} :
                  pc'[g] = pc[g] /\ req'[g] = req[g] /\ txn'[g] = txn[g]
<1>1. NoWrites \in Txn
    BY DEF NoWrites, Txn
<1> QED BY <1>1 DEF TypeOK, Return

\* What _reuse_is_countable decides keeps the shape of the uncommitted writes.
LEMMA DecidedTyped ==
    ASSUME NEW w \in Txn, NEW c \in BOOLEAN, NEW spends \in SUBSET InjectionRow
    PROVE  [w EXCEPT !.counted = c, !.spends = spends] \in Txn
BY DEF Txn

LEMMA JudgmentTyped ==
    ASSUME NEW w \in Txn, NEW q \in Row, NEW moves \in Seq(Transition)
    PROVE  [w EXCEPT !.row = q, !.moves = moves] \in Txn
BY DEF Txn

\* The rows record_injections leaves.
LEMMA InjectionsTyped ==
    ASSUME NEW picked, NEW nr, NEW a,
           \A m \in picked : [mem |-> m, to |-> a, nr |-> nr[m]] \in InjectionRow
    PROVE  {[mem |-> m, to |-> a, nr |-> nr[m]] : m \in picked} \subseteq InjectionRow
OBVIOUS

\* The oldest open injections are open, and open ones are unreported
\* injections of the memory to the reporter.
LEMMA OldestOpen ==
    ASSUME NEW m, NEW a
    PROVE  \A i \in Oldest(OpenInjections(m, a)) :
               /\ i \in injections \ reported /\ i.mem = m /\ i.to = a
               /\ \A h \in Handlers : i \notin txn[h].spends
<1>1. \A rows : Oldest(rows) \subseteq rows
    BY DEF Oldest
<1>2. \A i \in OpenInjections(m, a) :
          /\ i \in injections \ reported /\ i.mem = m /\ i.to = a
          /\ \A h \in Handlers : i \notin txn[h].spends
    BY DEF OpenInjections
<1> QED BY <1>1, <1>2

-----------------------------------------------------------------------------
(* Types.                                                                  *)

LEMMA StoreTyped ==
    ASSUME TypeOK, NEW m \in Memories, Store(m)
    PROVE  TypeOK'
<1>1. PICK r \in EntryRows :
          /\ experiences' = [experiences EXCEPT ![m] = r]
          /\ tier_transitions' =
                 [tier_transitions EXCEPT ![m] = <<[from |-> Null, to |-> r.tier]>>]
    BY DEF Store
<1>2. r \in Row /\ r.tier \in Tier
    BY EntryRowsTyped DEF Row
<1>3. <<[from |-> Null, to |-> r.tier]>> \in Seq(Transition)
    BY <1>2 DEF Transition
<1> QED BY <1>1, <1>2, <1>3 DEF TypeOK, Store, handlers

LEMMA AcceptTyped ==
    ASSUME TypeOK, NEW h \in Handlers,
           NEW step \in {"inject", "select"},
           NEW request \in ContextRequest \cup ReuseRequest,
           Accept(h, step, request), UNCHANGED <<tables, lock, txn>>
    PROVE  TypeOK'
BY DEF Accept, TypeOK, tables

LEMMA InsertInjectionTyped ==
    ASSUME TypeOK, Control, NEW h \in Handlers, InsertInjection(h)
    PROVE  /\ TypeOK'
           /\ req'[h] \in ContextRequest
           /\ \A g \in Handlers \ {h} : req'[g] = req[g] /\ txn'[g] = txn[g]
<1>1. /\ req[h] \in ContextRequest /\ req[h].picked # <<>>
      /\ txn' = [txn EXCEPT ![h].injects = @ \cup {Head(req[h].picked)}]
      /\ req' = [req EXCEPT ![h].picked = Tail(@)]
      /\ UNCHANGED <<tables, lock, pc, calls>>
    BY DEF InsertInjection, Control, Asked
<1>2. Head(req[h].picked) \in Memories /\ Tail(req[h].picked) \in Seq(Memories)
    BY <1>1 DEF ContextRequest
<1>3. /\ txn[h] \in Txn /\ txn \in [Handlers -> Txn]
      /\ req \in [Handlers -> ContextRequest \cup ReuseRequest \cup {Null}]
    BY DEF TypeOK
<1>4. [txn[h] EXCEPT !.injects = @ \cup {Head(req[h].picked)}] \in Txn
    BY <1>2, <1>3 DEF Txn
<1>5. [req[h] EXCEPT !.picked = Tail(@)] \in ContextRequest
    BY <1>1, <1>2 DEF ContextRequest
<1>6. /\ txn' \in [Handlers -> Txn]
      /\ req' \in [Handlers -> ContextRequest \cup ReuseRequest \cup {Null}]
      /\ req'[h] \in ContextRequest
      /\ \A g \in Handlers \ {h} : req'[g] = req[g] /\ txn'[g] = txn[g]
    BY <1>1, <1>3, <1>4, <1>5
<1> QED BY <1>1, <1>6 DEF TypeOK, tables

LEMMA CommitInjectionsTyped ==
    ASSUME TypeOK, Control, NEW h \in Handlers, CommitInjections(h)
    PROVE  TypeOK'
<1> DEFINE new == txn[h].injects
<1>1. req[h].agent \in Agents /\ new \subseteq Memories
    BY DEF CommitInjections, Control, Asked, ContextRequest, TypeOK, Txn
<1>2. PICK nr \in [new -> 1..MaxCalls] :
          injections' = injections \cup
              {[mem |-> m, to |-> req[h].agent, nr |-> nr[m]] : m \in new}
    BY DEF CommitInjections
<1> HIDE DEF new
<1> DEFINE added == {[mem |-> m, to |-> req[h].agent, nr |-> nr[m]] : m \in new}
<1>3. added \subseteq InjectionRow
    <2>1. \A m \in new : m \in Memories /\ nr[m] \in Nat
        BY <1>1, <1>2, ReuseAssumption
    <2>2. \A m \in new : [mem |-> m, to |-> req[h].agent, nr |-> nr[m]] \in InjectionRow
        BY <1>1, <2>1 DEF InjectionRow
    <2> QED BY <2>2, InjectionsTyped
<1>4. /\ Return(h) /\ Unlock(h)
      /\ UNCHANGED <<experiences, tier_transitions, reported, reuse_events, calls>>
    BY DEF CommitInjections
<1>5. injections' \subseteq InjectionRow /\ reported' \subseteq injections'
    <2>1. injections \subseteq InjectionRow /\ reported \subseteq injections
        BY DEF TypeOK
    <2>2. injections' = injections \cup added /\ reported' = reported
        BY <1>2, <1>4
    <2> HIDE DEF added
    <2> QED BY <1>3, <2>1, <2>2
<1>6. /\ pc' \in [Handlers -> {"idle", "inject", "select"} \cup InTransaction]
      /\ req' \in [Handlers -> ContextRequest \cup ReuseRequest \cup {Null}]
      /\ txn' \in [Handlers -> Txn]
    BY <1>4, ReturnTyped
<1>7. lock' \in [Memories -> Handlers \cup {Null}]
    BY <1>4 DEF Unlock, TypeOK
<1> QED BY <1>4, <1>5, <1>6, <1>7 DEF TypeOK

LEMMA SelectForUpdateTyped ==
    ASSUME TypeOK, Control, NEW h \in Handlers, SelectForUpdate(h)
    PROVE  TypeOK'
<1>1. req[h].mem \in Memories
    BY DEF SelectForUpdate, Control, Asked, ReuseRequest
<1>2. CASE Return(h) /\ UNCHANGED lock
    BY <1>2, ReturnTyped DEF SelectForUpdate, TypeOK, tables
<1>3. CASE /\ lock' = [lock EXCEPT ![req[h].mem] = h]
           /\ pc' = [pc EXCEPT ![h] = "countable"]
           /\ UNCHANGED <<req, txn>>
    BY <1>1, <1>3 DEF SelectForUpdate, TypeOK, tables, InTransaction
<1> QED BY <1>2, <1>3 DEF SelectForUpdate

LEMMA ReuseIsCountableTyped ==
    ASSUME TypeOK, Control, NEW h \in Handlers, ReuseIsCountable(h)
    PROVE  TypeOK'
<1>1. PICK counted \in BOOLEAN, spends \in SUBSET InjectionRow : Decided(h, counted, spends)
    <2>1. \A i \in Oldest(OpenInjections(req[h].mem, req[h].agent)) : {i} \in SUBSET InjectionRow
        BY OldestOpen DEF TypeOK
    <2>2. {} \in SUBSET InjectionRow
        OBVIOUS
    <2> QED BY <2>1, <2>2, Zenon DEF ReuseIsCountable
<1>2. txn'\in [Handlers -> Txn]
    <2>1. txn[h] \in Txn
        BY DEF TypeOK
    <2>2. [txn[h] EXCEPT !.counted = counted, !.spends = spends] \in Txn
        BY <2>1, DecidedTyped
    <2> QED BY <1>1, <2>2 DEF Decided, TypeOK
<1>3. pc' \in [Handlers -> {"idle", "inject", "select"} \cup InTransaction]
    BY <1>1 DEF Decided, TypeOK, InTransaction
<1> QED BY <1>2, <1>3 DEF ReuseIsCountable, TypeOK, tables

LEMMA UpdateRowTyped ==
    ASSUME TypeOK, Control, NEW h \in Handlers, UpdateRow(h)
    PROVE  /\ TypeOK'
           /\ txn' = [txn EXCEPT ![h] = [@ EXCEPT
                  !.row = AfterReport(experiences[req[h].mem], req[h].ok),
                  !.moves = Moves(experiences[req[h].mem],
                                  AfterReport(experiences[req[h].mem], req[h].ok))]]
<1> DEFINE r == experiences[req[h].mem]
           q == AfterReport(r, req[h].ok)
<1>1. req[h] \in ReuseRequest /\ Stored(req[h].mem)
    BY DEF UpdateRow, Control, Asked, Holding, InTransaction
<1>2. r \in Row /\ req[h].ok \in BOOLEAN
    BY <1>1 DEF TypeOK, Stored, ReuseRequest
<1>3. txn' = [txn EXCEPT ![h] = [@ EXCEPT !.row = q, !.moves = Moves(r, q)]]
    BY Zenon DEF UpdateRow, Moves
<1> HIDE DEF r
<1>4. q \in Row /\ q.tier \in Tier /\ r.tier \in Tier
    BY <1>2, JudgedTyped DEF Row
<1> HIDE DEF q
<1>5. Moves(r, q) \in Seq(Transition)
    <2>1. CASE q.tier = r.tier
        BY <2>1 DEF Moves
    <2>2. CASE q.tier # r.tier
        <3>1. [from |-> r.tier, to |-> q.tier] \in Transition
            BY <1>4 DEF Transition
        <3> QED BY <2>2, <3>1 DEF Moves
    <2> QED BY <2>1, <2>2
<1>6. txn' \in [Handlers -> Txn]
    <2>1. txn[h] \in Txn
        BY DEF TypeOK
    <2>2. [txn[h] EXCEPT !.row = q, !.moves = Moves(r, q)] \in Txn
        BY <1>4, <1>5, <2>1, JudgmentTyped
    <2> QED BY <1>3, <2>2 DEF TypeOK
<1>7. TypeOK'
    BY <1>6 DEF UpdateRow, TypeOK, tables, InTransaction
<1> QED BY <1>3, <1>7, Zenon DEF q, r

\* What a commit writes.
LEMMA CommitWrites ==
    ASSUME TypeOK, Control, NEW h \in Handlers, Commit(h)
    PROVE  /\ req[h] \in ReuseRequest /\ Stored(req[h].mem) /\ txn[h] \in Txn
           /\ \E nr \in Nat :
                 LET e == [mem |-> req[h].mem, by |-> req[h].agent, nr |-> nr,
                           ok |-> req[h].ok, counted |-> txn[h].counted]
                 IN  /\ e \in Event /\ e \notin reuse_events
                     /\ reuse_events' = reuse_events \cup {e}
<1>1. req[h] \in ReuseRequest /\ Stored(req[h].mem) /\ txn[h] \in Txn
    BY DEF Commit, Control, Asked, Holding, InTransaction, TypeOK
<1>2. PICK nr \in 1..MaxCalls :
          /\ nr \notin {x.nr : x \in {e \in reuse_events :
                                        e.mem = req[h].mem /\ e.by = req[h].agent}}
          /\ reuse_events' = reuse_events \cup
                 {[mem |-> req[h].mem, by |-> req[h].agent, nr |-> nr,
                   ok |-> req[h].ok, counted |-> txn[h].counted]}
    BY DEF Commit, FirstFree
<1>3. nr \in Nat
    BY <1>2, ReuseAssumption
<1> DEFINE e == [mem |-> req[h].mem, by |-> req[h].agent, nr |-> nr,
                 ok |-> req[h].ok, counted |-> txn[h].counted]
<1>4. e \in Event
    BY <1>1, <1>3 DEF Event, ReuseRequest, Txn
<1>5. e \notin reuse_events
    BY <1>2
<1> QED BY <1>1, <1>2, <1>3, <1>4, <1>5

LEMMA CommitTyped ==
    ASSUME TypeOK, Control, NEW h \in Handlers, Commit(h)
    PROVE  TypeOK'
<1> DEFINE m == req[h].mem
           w == txn[h]
<1>1. m \in Memories /\ w \in Txn /\ experiences[m] \in Row /\ req[h].ok \in BOOLEAN
    BY CommitWrites DEF ReuseRequest, Stored, TypeOK
<1>2. reuse_events' \subseteq Event
    BY CommitWrites DEF TypeOK
<1>3. experiences' \in [Memories -> Row \cup {Null}]
    BY <1>1 DEF Commit, TypeOK, Txn
<1>4. tier_transitions' \in [Memories -> Seq(Transition)]
    <2>1. tier_transitions[m] \o w.moves \in Seq(Transition)
        BY <1>1 DEF TypeOK, Txn
    <2> QED BY <2>1 DEF Commit, TypeOK
<1>5. reported' \subseteq injections'
    <2>1. w.spends \subseteq injections
        BY <1>1 DEF Commit, Control, Writing, Entitled
    <2> QED BY <2>1 DEF Commit, TypeOK
<1>6. lock' \in [Memories -> Handlers \cup {Null}]
    BY DEF Commit, Unlock, TypeOK
<1> QED BY <1>2, <1>3, <1>4, <1>5, <1>6, ReturnTyped DEF Commit, TypeOK

LEMMA AbortTyped ==
    ASSUME TypeOK, NEW h \in Handlers, Abort(h)
    PROVE  TypeOK'
<1>1. lock' \in [Memories -> Handlers \cup {Null}]
    BY DEF Abort, Unlock, TypeOK
<1> QED BY <1>1, ReturnTyped DEF Abort, TypeOK, tables

-----------------------------------------------------------------------------
(* What each handler knows stays true.                                     *)

\* A handler is not disturbed by what happens to other memories, nor by new
\* injections of its own.
LEMMA Undisturbed ==
    ASSUME Control, NEW g \in Handlers,
           pc'[g] = pc[g], req'[g] = req[g], txn'[g] = txn[g],
           injections \subseteq injections',
           pc[g] \in InTransaction =>
               /\ experiences'[req[g].mem] = experiences[req[g].mem]
               /\ lock'[req[g].mem] = lock[req[g].mem]
               /\ \A e \in reuse_events' : e \in reuse_events \/ e.mem # req[g].mem
               /\ \A i \in reported' : i \in reported \/ i.mem # req[g].mem
    PROVE  Asked(g)' /\ Holding(g)' /\ Writing(g)'
<1>1. Asked(g) /\ Holding(g) /\ Writing(g)
    BY DEF Control
<1>2. Asked(g)' /\ Holding(g)'
    BY <1>1 DEF Asked, Holding, Stored, InTransaction
<1>3. ASSUME pc[g] \in {"update", "commit"}, Entitled(g)
      PROVE  Entitled(g)'
    <2>1. pc[g] \in InTransaction
        BY <1>3 DEF InTransaction
    <2>2. AuthorAlreadyReported(req[g].mem)' => AuthorAlreadyReported(req[g].mem)
        BY <2>1 DEF AuthorAlreadyReported
    <2> QED BY <1>3, <2>1, <2>2 DEF Entitled
<1>4. Writing(g)'
    BY <1>1, <1>3 DEF Writing, InTransaction
<1> QED BY <1>2, <1>4

\* A handler that has returned knows nothing.
LEMMA Returned ==
    ASSUME NEW h \in Handlers, pc'[h] = "idle", txn'[h] = NoWrites
    PROVE  Asked(h)' /\ Holding(h)' /\ Writing(h)'
BY DEF Asked, Holding, Writing, InTransaction, NoWrites

\* Two handlers in a transaction are on different memories.
LEMMA OnePerMemory ==
    ASSUME Control, NEW g \in Handlers, NEW h \in Handlers \ {g},
           pc[g] \in InTransaction, pc[h] \in InTransaction
    PROVE  req[g].mem # req[h].mem
BY DEF Control, Holding

LEMMA StoreControl ==
    ASSUME TypeOK, Control, NEW m \in Memories, Store(m)
    PROVE  Control'
<1> SUFFICES ASSUME NEW g \in Handlers
             PROVE  Asked(g)' /\ Holding(g)' /\ Writing(g)'
    BY DEF Control
<1>1. pc[g] \in InTransaction => req[g].mem # m
    BY DEF Control, Holding, Store
<1>2. \A k \in Memories \ {m} : experiences'[k] = experiences[k]
    BY DEF Store, TypeOK
<1>3. pc[g] \in InTransaction => req[g].mem \in Memories
    BY DEF Control, Asked, ReuseRequest
<1> QED BY <1>1, <1>2, <1>3, Undisturbed DEF Store, handlers

LEMMA AcceptControl ==
    ASSUME TypeOK, Control, NEW h \in Handlers, NEW step, NEW request,
           \/ step = "inject" /\ request \in ContextRequest
           \/ step = "select" /\ request \in ReuseRequest,
           Accept(h, step, request), UNCHANGED <<tables, lock, txn>>
    PROVE  Control'
<1> SUFFICES ASSUME NEW g \in Handlers
             PROVE  Asked(g)' /\ Holding(g)' /\ Writing(g)'
    BY DEF Control
<1>1. CASE g # h
    <2>1. pc'[g] = pc[g] /\ req'[g] = req[g]
        BY <1>1 DEF Accept, TypeOK
    <2> QED BY <2>1, Undisturbed DEF tables
<1>2. CASE g = h
    <2>1. pc'[h] = step /\ req'[h] = request /\ txn'[h] = NoWrites
        BY DEF Accept, TypeOK, Control, Writing
    <2> QED BY <1>2, <2>1 DEF Asked, Holding, Writing, InTransaction, NoWrites
<1> QED BY <1>1, <1>2

LEMMA ReturnControl ==   \* of a step that writes no table but injections
    ASSUME TypeOK, Control, NEW h \in Handlers, Return(h),
           injections \subseteq injections',
           UNCHANGED <<experiences, reported, reuse_events>>,
           \A m \in Memories : lock'[m] = lock[m] \/ lock[m] = h
    PROVE  Control'
<1> SUFFICES ASSUME NEW g \in Handlers
             PROVE  Asked(g)' /\ Holding(g)' /\ Writing(g)'
    BY DEF Control
<1>1. CASE g # h
    <2>1. pc'[g] = pc[g] /\ req'[g] = req[g] /\ txn'[g] = txn[g]
        BY <1>1, ReturnTyped
    <2>2. pc[g] \in InTransaction => req[g].mem \in Memories /\ lock[req[g].mem] = g
        BY DEF Control, Asked, Holding, ReuseRequest
    <2> QED BY <1>1, <2>1, <2>2, Undisturbed
<1>2. CASE g = h
    BY <1>2, ReturnTyped, Returned
<1> QED BY <1>1, <1>2

LEMMA InsertInjectionControl ==
    ASSUME TypeOK, Control, NEW h \in Handlers, InsertInjection(h)
    PROVE  Control'
<1>1. UNCHANGED <<tables, lock, pc>> /\ pc[h] = "inject"
    BY DEF InsertInjection
<1> SUFFICES ASSUME NEW g \in Handlers
             PROVE  Asked(g)' /\ Holding(g)' /\ Writing(g)'
    BY DEF Control
<1>2. CASE g # h
    BY <1>1, <1>2, InsertInjectionTyped, Undisturbed DEF tables
<1>3. CASE g = h
    BY <1>1, <1>3, InsertInjectionTyped DEF Asked, Holding, Writing, InTransaction
<1> QED BY <1>2, <1>3

LEMMA SelectForUpdateControl ==
    ASSUME TypeOK, Control, NEW h \in Handlers, SelectForUpdate(h)
    PROVE  Control'
<1>1. req[h] \in ReuseRequest /\ txn[h] = NoWrites
    BY DEF SelectForUpdate, Control, Asked, Writing, InTransaction
<1>2. CASE Return(h) /\ UNCHANGED lock
    BY <1>2, ReturnControl DEF SelectForUpdate, tables
<1>3. CASE /\ Stored(req[h].mem) /\ lock[req[h].mem] = Null
           /\ lock' = [lock EXCEPT ![req[h].mem] = h]
           /\ pc' = [pc EXCEPT ![h] = "countable"]
           /\ UNCHANGED <<req, txn>>
    <2> SUFFICES ASSUME NEW g \in Handlers
                 PROVE  Asked(g)' /\ Holding(g)' /\ Writing(g)'
        BY DEF Control
    <2>0. UNCHANGED <<experiences, injections, reported, reuse_events>>
        BY DEF SelectForUpdate, tables
    <2>1. CASE g # h
        <3>1. pc'[g] = pc[g]
            BY <1>3, <2>1 DEF TypeOK
        <3>2. pc[g] \in InTransaction => req[g].mem \in Memories /\ lock[req[g].mem] = g
            BY DEF Control, Asked, Holding, ReuseRequest
        <3>3. pc[g] \in InTransaction => lock'[req[g].mem] = lock[req[g].mem]
            BY <1>3, <3>2, ReuseAssumption DEF TypeOK
        <3> QED BY <1>3, <2>0, <3>1, <3>3, Undisturbed
    <2>2. CASE g = h
        <3>1. pc'[h] = "countable" /\ req'[h] = req[h] /\ txn'[h] = NoWrites
            BY <1>1, <1>3 DEF TypeOK
        <3>2. Stored(req[h].mem)' /\ lock'[req[h].mem] = h
            BY <1>1, <1>3, <2>0 DEF TypeOK, Stored, ReuseRequest
        <3> QED BY <1>1, <2>2, <3>1, <3>2 DEF Asked, Holding, Writing, InTransaction, NoWrites
    <2> QED BY <2>1, <2>2
<1> QED BY <1>2, <1>3 DEF SelectForUpdate

\* While h writes only its own pc and txn, the others are not disturbed.
LEMMA OnlyOwn ==
    ASSUME TypeOK, Control, NEW h \in Handlers,
           \A g \in Handlers \ {h} : pc'[g] = pc[g] /\ txn'[g] = txn[g],
           UNCHANGED <<tables, lock, req>>,
           Asked(h)' /\ Holding(h)' /\ Writing(h)'
    PROVE  Control'
<1> SUFFICES ASSUME NEW g \in Handlers \ {h}
             PROVE  Asked(g)' /\ Holding(g)' /\ Writing(g)'
    BY DEF Control
<1> QED BY Undisturbed DEF tables

LEMMA ReuseIsCountableControl ==
    ASSUME TypeOK, Control, NEW h \in Handlers, ReuseIsCountable(h)
    PROVE  Control'
<1>1. /\ pc[h] = "countable" /\ req[h] \in ReuseRequest /\ txn[h] = NoWrites
      /\ Stored(req[h].mem) /\ lock[req[h].mem] = h
    BY DEF ReuseIsCountable, Control, Asked, Holding, Writing, InTransaction
<1>2. UNCHANGED <<tables, lock, req>>
    BY DEF ReuseIsCountable
<1>3. PICK counted \in BOOLEAN, spends \in SUBSET InjectionRow :
          /\ Decided(h, counted, spends)
          /\ ~counted => spends = {}
          /\ counted => \/ /\ req[h].agent = Author[req[h].mem] /\ ~req[h].ok
                           /\ spends = {} /\ ~AuthorAlreadyReported(req[h].mem)
                        \/ /\ req[h].agent # Author[req[h].mem]
                           /\ \E i \in injections \ reported :
                                 i.mem = req[h].mem /\ i.to = req[h].agent /\ spends = {i}
    <2> DEFINE m == req[h].mem
               a == req[h].agent
               counts == ~req[h].ok /\ ~AuthorAlreadyReported(m)
    <2>1. CASE a = Author[m] /\ Decided(h, counts, {})
        <3>1. CASE counts
            <4>1. Decided(h, TRUE, {})
                BY <2>1, <3>1, Zenon
            <4> QED BY <2>1, <3>1, <4>1
        <3>2. CASE ~counts
            <4>1. Decided(h, FALSE, {})
                BY <2>1, <3>2, Zenon
            <4> QED BY <4>1
        <3> QED BY <3>1, <3>2
    <2>2. CASE Decided(h, FALSE, {})
        BY <2>2
    <2>3. CASE a # Author[m] /\ \E i \in Oldest(OpenInjections(m, a)) : Decided(h, TRUE, {i})
        <3>1. PICK i \in Oldest(OpenInjections(m, a)) : Decided(h, TRUE, {i})
            BY <2>3
        <3>2. i \in injections \ reported /\ i.mem = m /\ i.to = a
            BY OldestOpen
        <3>3. {i} \in SUBSET InjectionRow
            BY <3>2 DEF TypeOK
        <3> QED BY <2>3, <3>1, <3>2, <3>3
    <2> QED BY <2>1, <2>2, <2>3, Zenon DEF ReuseIsCountable
<1>4. txn[h].row = Null /\ txn[h].moves = <<>>
    BY <1>1 DEF NoWrites
<1>5. /\ txn'[h].counted = counted /\ txn'[h].spends = spends /\ txn'[h].moves = <<>>
      /\ txn'[h].row = Null
    <2>1. txn[h] \in Txn
        BY DEF TypeOK
    <2> QED BY <1>3, <1>4, <2>1 DEF Decided, TypeOK, Txn
<1>6. /\ pc'[h] = IF counted THEN "update" ELSE "commit"
      /\ \A g \in Handlers \ {h} : pc'[g] = pc[g] /\ txn'[g] = txn[g]
    BY <1>3 DEF Decided, TypeOK
<1>7. Asked(h)' /\ Holding(h)'
    BY <1>1, <1>2, <1>6 DEF Asked, Holding, Stored, tables, InTransaction
<1>8. counted => Entitled(h)'
    BY <1>2, <1>3, <1>5 DEF Entitled, tables, AuthorAlreadyReported
<1>9. Writing(h)'
    BY <1>3, <1>5, <1>6, <1>8 DEF Writing
<1> QED BY <1>2, <1>6, <1>7, <1>9, OnlyOwn

LEMMA UpdateRowControl ==
    ASSUME TypeOK, Control, NEW h \in Handlers, UpdateRow(h)
    PROVE  Control'
<1> DEFINE r == experiences[req[h].mem]
           q == AfterReport(r, req[h].ok)
<1>1. /\ pc[h] = "update" /\ Asked(h) /\ Holding(h) /\ txn[h] \in Txn
      /\ txn[h].counted /\ Entitled(h)
    BY DEF UpdateRow, Control, Writing, TypeOK
<1>2. /\ UNCHANGED <<tables, lock, req>>
      /\ pc'[h] = "commit"
      /\ \A g \in Handlers \ {h} : pc'[g] = pc[g] /\ txn'[g] = txn[g]
    BY DEF UpdateRow, TypeOK
<1>3. txn'[h] = [txn[h] EXCEPT !.row = q, !.moves = Moves(r, q)]
    BY UpdateRowTyped DEF TypeOK
<1> HIDE DEF q
<1>4. /\ txn'[h].counted /\ txn'[h].spends = txn[h].spends
      /\ txn'[h].row = q /\ txn'[h].moves = Moves(r, q)
    BY <1>1, <1>3 DEF Txn
<1>5. Entitled(h)'
    BY <1>1, <1>2, <1>4 DEF Entitled, AuthorAlreadyReported, tables
<1>6. experiences'[req'[h].mem] = r /\ req'[h].ok = req[h].ok
    BY <1>2 DEF tables
<1>7. Writing(h)'
    BY <1>2, <1>4, <1>5, <1>6 DEF Writing, q
<1>8. Asked(h)' /\ Holding(h)'
    BY <1>1, <1>2 DEF Asked, Holding, Stored, tables, InTransaction
<1> QED BY <1>2, <1>7, <1>8, OnlyOwn

LEMMA CommitControl ==
    ASSUME TypeOK, Control, NEW h \in Handlers, Commit(h)
    PROVE  Control'
<1> DEFINE m == req[h].mem
<1>1. m \in Memories /\ pc[h] \in InTransaction /\ lock[m] = h
    BY CommitWrites DEF ReuseRequest, Commit, InTransaction, Control, Holding
<1>2. \A e \in reuse_events' : e \in reuse_events \/ e.mem = m
    <2>1. PICK nr \in Nat :
              reuse_events' = reuse_events \cup
                  {[mem |-> m, by |-> req[h].agent, nr |-> nr, ok |-> req[h].ok,
                    counted |-> txn[h].counted]}
        BY CommitWrites
    <2> QED BY <2>1
<1>3. \A i \in reported' : i \in reported \/ i.mem = m
    BY DEF Commit, Control, Writing, Entitled
<1>4. \A k \in Memories \ {m} : experiences'[k] = experiences[k]
    BY DEF Commit, TypeOK
<1>5. \A k \in Memories : lock[k] # h => lock'[k] = lock[k]
    BY DEF Commit, Unlock
<1>6. Return(h) /\ injections' = injections
    BY DEF Commit
<1> SUFFICES ASSUME NEW g \in Handlers
             PROVE  Asked(g)' /\ Holding(g)' /\ Writing(g)'
    BY DEF Control
<1>7. CASE g # h
    <2>1. pc'[g] = pc[g] /\ req'[g] = req[g] /\ txn'[g] = txn[g]
        BY <1>6, <1>7, ReturnTyped
    <2>2. pc[g] \in InTransaction =>
              req[g].mem \in Memories /\ lock[req[g].mem] = g /\ req[g].mem # m
        BY <1>1, <1>7 DEF Control, Asked, Holding, ReuseRequest
    <2> QED BY <1>2, <1>3, <1>4, <1>5, <1>6, <1>7, <2>1, <2>2, Undisturbed
<1>8. CASE g = h
    BY <1>6, <1>8, ReturnTyped, Returned
<1> QED BY <1>7, <1>8

-----------------------------------------------------------------------------
(* The invariant.                                                          *)

LEMMA InitControl ==
    ASSUME Init
    PROVE  TypeOK /\ Control
<1>1. NoWrites \in Txn
    BY DEF NoWrites, Txn
<1>2. TypeOK
    BY <1>1, ReuseAssumption DEF Init, TypeOK
<1>3. Control
    BY DEF Init, Control, Asked, Holding, Writing, InTransaction, NoWrites
<1> QED BY <1>2, <1>3

LEMMA StepControl ==
    ASSUME TypeOK, Control, NEW h \in Handlers, Step(h)
    PROVE  TypeOK' /\ Control'
<1>1. ASSUME NEW a \in Agents, PrepareContext(h, a)
      PROVE  TypeOK' /\ Control'
    <2>1. PICK n \in 1..MaxContext : \E picked \in [1..n -> Memories] :
              Accept(h, "inject", [agent |-> a, picked |-> picked])
        BY <1>1 DEF PrepareContext
    <2>2. PICK picked \in [1..n -> Memories] :
              Accept(h, "inject", [agent |-> a, picked |-> picked])
        BY <2>1
    <2>3. picked \in Seq(Memories)
        BY ReuseAssumption
    <2>4. [agent |-> a, picked |-> picked] \in ContextRequest
        BY <2>3 DEF ContextRequest
    <2> QED BY <1>1, <2>2, <2>4, AcceptTyped, AcceptControl DEF PrepareContext
<1>2. CASE InsertInjection(h)
    BY <1>2, InsertInjectionTyped, InsertInjectionControl
<1>3. CASE CommitInjections(h)
    BY <1>3, CommitInjectionsTyped, ReturnControl DEF CommitInjections, Unlock
<1>4. ASSUME NEW m \in Memories, NEW a \in Agents, NEW ok \in BOOLEAN,
             ReceiveReport(h, m, a, ok)
      PROVE  TypeOK' /\ Control'
    <2>1. [mem |-> m, agent |-> a, ok |-> ok] \in ReuseRequest
        BY DEF ReuseRequest
    <2> QED BY <1>4, <2>1, AcceptTyped, AcceptControl DEF ReceiveReport
<1>5. CASE SelectForUpdate(h)
    BY <1>5, SelectForUpdateTyped, SelectForUpdateControl
<1>6. CASE ReuseIsCountable(h)
    BY <1>6, ReuseIsCountableTyped, ReuseIsCountableControl
<1>7. CASE UpdateRow(h)
    BY <1>7, UpdateRowTyped, UpdateRowControl
<1>8. CASE Commit(h)
    BY <1>8, CommitTyped, CommitControl
<1>9. CASE Abort(h)
    BY <1>9, AbortTyped, ReturnControl DEF Abort, tables, Unlock
<1> QED BY <1>1, <1>2, <1>3, <1>4, <1>5, <1>6, <1>7, <1>8, <1>9 DEF Step

\* A step that changes nothing.
LEMMA StutterControl ==
    ASSUME TypeOK, Control, UNCHANGED vars
    PROVE  TypeOK' /\ Control'
<1>1. UNCHANGED <<experiences, tier_transitions, injections, reported, reuse_events,
                  lock, pc, req, txn, calls>>
    BY DEF vars, tables, handlers
<1>2. TypeOK'
    BY <1>1 DEF TypeOK
<1>3. Control'
    BY <1>1 DEF Control, Asked, Holding, Writing, Entitled, Stored, AuthorAlreadyReported
<1> QED BY <1>2, <1>3

\* Every table, lock and handler keeps its shape, and a handler between SELECT
\* ... FOR UPDATE and COMMIT still holds its row, is still entitled to its
\* credit, and is about to write the judgment of the row as it is
\* (apply_reuse, under any interleaving, failure and number of callers).
THEOREM TypeCorrect == Spec => [](TypeOK /\ Control)
<1>1. Init => TypeOK /\ Control
    BY InitControl
<1>2. TypeOK /\ Control /\ [Next]_vars => (TypeOK /\ Control)'
    <2> SUFFICES ASSUME TypeOK, Control, [Next]_vars
                 PROVE  TypeOK' /\ Control'
        OBVIOUS
    <2>1. ASSUME NEW m \in Memories, Store(m)
          PROVE  TypeOK' /\ Control'
        BY <2>1, StoreTyped, StoreControl
    <2>2. ASSUME NEW h \in Handlers, Step(h)
          PROVE  TypeOK' /\ Control'
        BY <2>2, StepControl
    <2>3. CASE UNCHANGED vars
        BY <2>3, StutterControl
    <2> QED BY <2>1, <2>2, <2>3 DEF Next, Quiet
<1> QED BY <1>1, <1>2, PTL DEF Spec

-----------------------------------------------------------------------------
(* What a step does to the tables, whoever takes it.                       *)

\* A report is logged without counting.
LogsUncounted(e) ==
    /\ ~e.counted /\ Stored(e.mem)
    /\ e \notin reuse_events /\ reuse_events' = reuse_events \cup {e}
    /\ UNCHANGED <<experiences, tier_transitions, reported>>

\* A report is logged and counts: against the author once, or for an injection.
LogsCounted(e) ==
    LET r == experiences[e.mem]
        q == AfterReport(r, e.ok)
    IN  /\ e.counted /\ Stored(e.mem)
        /\ e \notin reuse_events /\ reuse_events' = reuse_events \cup {e}
        /\ experiences' = [experiences EXCEPT ![e.mem] = q]
        /\ tier_transitions' = [tier_transitions EXCEPT ![e.mem] = @ \o Moves(r, q)]
        /\ \/ /\ e.by = Author[e.mem] /\ ~e.ok /\ ~AuthorAlreadyReported(e.mem)
              /\ UNCHANGED reported
           \/ /\ e.by # Author[e.mem]
              /\ \E i \in injections \ reported :
                    i.mem = e.mem /\ i.to = e.by /\ reported' = reported \cup {i}

\* A commit logs one report, with all its effects or none.
LEMMA CommitLogs ==
    ASSUME TypeOK, Control, NEW h \in Handlers, Commit(h)
    PROVE  \E e \in Event : LogsUncounted(e) \/ LogsCounted(e)
<1>1. PICK nr \in Nat :
          LET e == [mem |-> req[h].mem, by |-> req[h].agent, nr |-> nr,
                    ok |-> req[h].ok, counted |-> txn[h].counted]
          IN  /\ e \in Event /\ e \notin reuse_events
              /\ reuse_events' = reuse_events \cup {e}
    BY CommitWrites
<1> DEFINE e == [mem |-> req[h].mem, by |-> req[h].agent, nr |-> nr,
                 ok |-> req[h].ok, counted |-> txn[h].counted]
<1>2. /\ e.mem = req[h].mem /\ e.by = req[h].agent /\ e.ok = req[h].ok
      /\ e.counted = txn[h].counted
    OBVIOUS
<1>3. e \in Event /\ e \notin reuse_events /\ reuse_events' = reuse_events \cup {e}
    BY <1>1
<1> HIDE DEF e
<1>4. Stored(e.mem) /\ Writing(h) /\ pc[h] = "commit"
    BY <1>2, CommitWrites DEF Control, Commit
<1>5. /\ reported' = reported \cup txn[h].spends
      /\ experiences' = IF txn[h].counted THEN [experiences EXCEPT ![e.mem] = txn[h].row]
                                          ELSE experiences
      /\ tier_transitions' = [tier_transitions EXCEPT ![e.mem] = @ \o txn[h].moves]
    BY <1>2, Zenon DEF Commit
<1>6. CASE ~e.counted
    <2>1. txn[h].spends = {} /\ txn[h].moves = <<>> /\ ~txn[h].counted
        BY <1>2, <1>4, <1>6 DEF Writing
    <2>2. \A k \in Memories : tier_transitions[k] \o <<>> = tier_transitions[k]
        BY DEF TypeOK
    <2>3. tier_transitions' = tier_transitions
        BY <1>3, <1>5, <2>1, <2>2 DEF TypeOK, Event
    <2>4. LogsUncounted(e)
        BY <1>3, <1>4, <1>5, <1>6, <2>1, <2>3 DEF LogsUncounted
    <2> QED BY <1>3, <2>4
<1>7. CASE e.counted
    <2>1. /\ Entitled(h) /\ txn[h].counted
          /\ txn[h].row = AfterReport(experiences[e.mem], e.ok)
          /\ txn[h].moves = Moves(experiences[e.mem], txn[h].row)
        BY <1>2, <1>4, <1>7 DEF Writing
    <2>2. /\ experiences' = [experiences EXCEPT ![e.mem] = AfterReport(experiences[e.mem], e.ok)]
          /\ tier_transitions' = [tier_transitions EXCEPT
                 ![e.mem] = @ \o Moves(experiences[e.mem], AfterReport(experiences[e.mem], e.ok))]
        BY <1>5, <2>1, Zenon
    <2>3. \/ /\ e.by = Author[e.mem] /\ ~e.ok /\ ~AuthorAlreadyReported(e.mem)
             /\ UNCHANGED reported
          \/ /\ e.by # Author[e.mem]
             /\ \E i \in injections \ reported :
                   i.mem = e.mem /\ i.to = e.by /\ reported' = reported \cup {i}
        BY <1>2, <1>5, <2>1 DEF Entitled
    <2>4. LogsCounted(e)
        BY <1>3, <1>4, <1>7, <2>2, <2>3, Zenon DEF LogsCounted
    <2> QED BY <1>3, <2>4
<1> QED BY <1>6, <1>7

\* The tables change when a memory is stored or a report is logged, only then.
LEMMA TableSteps ==
    ASSUME TypeOK, Control, [Next]_vars
    PROVE  \/ UNCHANGED <<experiences, tier_transitions, reported, reuse_events>>
           \/ \E m \in Memories : Store(m)
           \/ \E e \in Event : LogsUncounted(e) \/ LogsCounted(e)
<1>1. ASSUME NEW h \in Handlers, Step(h)
      PROVE  \/ UNCHANGED <<experiences, tier_transitions, reported, reuse_events>>
             \/ \E e \in Event : LogsUncounted(e) \/ LogsCounted(e)
    <2>1. CASE Commit(h)
        BY <2>1, CommitLogs
    <2>2. CASE ~Commit(h)
        BY <1>1, <2>2 DEF Step, PrepareContext, InsertInjection, CommitInjections, ReceiveReport,
                          SelectForUpdate, ReuseIsCountable, UpdateRow, Abort, tables
    <2> QED BY <2>1, <2>2
<1> QED BY <1>1 DEF Next, Quiet, vars, tables

-----------------------------------------------------------------------------
(* The books.                                                              *)

Finite     == IsFiniteSet(reuse_events) /\ IsFiniteSet(reported)
ForeignKey == \A e \in reuse_events : Stored(e.mem)

Ledger ==
    /\ Finite /\ ForeignKey
    /\ CountersMatchLog /\ CreditSpendsInjection /\ AuthorCountsOnceAgainst

\* The parts of the log the books count are finite.
LEMMA PartsFinite ==
    ASSUME Finite
    PROVE  /\ \A m : IsFiniteSet(Counted(m)) /\ IsFiniteSet(CountedOk(m))
           /\ \A m, a : IsFiniteSet(CountedBy(m, a)) /\ IsFiniteSet(SpentOn(m, a))
<1>1. /\ \A m : Counted(m) \subseteq reuse_events /\ CountedOk(m) \subseteq reuse_events
      /\ \A m, a : CountedBy(m, a) \subseteq reuse_events /\ SpentOn(m, a) \subseteq reported
    BY DEF Counted, CountedOk, CountedBy, SpentOn
<1> QED BY <1>1, FS_Subset DEF Finite

\* While no row is stored and no report logged, the books stay as they are.
LEMMA LedgerUnchanged ==
    ASSUME Ledger, UNCHANGED <<experiences, reported, reuse_events>>
    PROVE  Ledger'
BY DEF Ledger, Finite, ForeignKey, CountersMatchLog, CreditSpendsInjection,
       AuthorCountsOnceAgainst, Counted, CountedOk, CountedBy, SpentOn, Stored

\* A new memory has no reports.
LEMMA LedgerStore ==
    ASSUME TypeOK, Ledger, NEW m \in Memories, Store(m)
    PROVE  Ledger'
<1>1. PICK r \in EntryRows : experiences' = [experiences EXCEPT ![m] = r]
    BY DEF Store
<1>2. r \in Row /\ r.n = 0 /\ r.s = 0 /\ r # Null
    BY EntryRowsTyped, ReuseAssumption
<1>3. reuse_events' = reuse_events /\ reported' = reported /\ ~Stored(m)
    BY DEF Store
<1>4. /\ experiences'[m] = r
      /\ \A k \in Memories \ {m} : experiences'[k] = experiences[k]
    BY <1>1 DEF TypeOK
<1>5. Finite' /\ CreditSpendsInjection' /\ AuthorCountsOnceAgainst'
    BY <1>3 DEF Ledger, Finite, CreditSpendsInjection, AuthorCountsOnceAgainst,
                Counted, CountedBy, SpentOn
<1>6. \A e \in reuse_events : e.mem \in Memories
    BY DEF TypeOK, Event
<1>7. ForeignKey'
    BY <1>2, <1>3, <1>4, <1>6 DEF Ledger, ForeignKey, Stored
<1>8. CountersMatchLog'
    <2> SUFFICES ASSUME NEW k \in Memories, Stored(k)'
                 PROVE  /\ experiences'[k].n = Cardinality(Counted(k)')
                        /\ experiences'[k].s = Cardinality(CountedOk(k)')
        BY DEF CountersMatchLog
    <2>1. Counted(k)' = Counted(k) /\ CountedOk(k)' = CountedOk(k)
        BY <1>3 DEF Counted, CountedOk
    <2>2. CASE k # m
        BY <1>4, <2>1, <2>2 DEF Ledger, CountersMatchLog, Stored
    <2>3. CASE k = m
        <3>1. Counted(k) = {} /\ CountedOk(k) = {}
            BY <1>3, <2>3 DEF Counted, CountedOk, Ledger, ForeignKey
        <3> QED BY <1>2, <1>4, <2>1, <2>3, <3>1, FS_EmptySet
    <2> QED BY <2>2, <2>3
<1> QED BY <1>5, <1>7, <1>8 DEF Ledger

\* A report that does not count is in no book.
LEMMA LedgerUncounted ==
    ASSUME TypeOK, Ledger, NEW e \in Event, LogsUncounted(e)
    PROVE  Ledger'
<1>1. /\ ~e.counted /\ Stored(e.mem) /\ reuse_events' = reuse_events \cup {e}
      /\ experiences' = experiences /\ reported' = reported
    BY DEF LogsUncounted
<1>2. /\ \A m : Counted(m)' = Counted(m) /\ CountedOk(m)' = CountedOk(m)
      /\ \A m, a : CountedBy(m, a)' = CountedBy(m, a) /\ SpentOn(m, a)' = SpentOn(m, a)
    BY <1>1 DEF Counted, CountedOk, CountedBy, SpentOn
<1>3. Finite' /\ ForeignKey'
    BY <1>1, FS_AddElement DEF Ledger, Finite, ForeignKey, Stored
<1>4. CountersMatchLog' /\ CreditSpendsInjection' /\ AuthorCountsOnceAgainst'
    BY <1>1, <1>2 DEF Ledger, CountersMatchLog, CreditSpendsInjection,
                      AuthorCountsOnceAgainst, Stored
<1> QED BY <1>3, <1>4 DEF Ledger

\* The counters and the foreign key after a report that counts.
LEMMA CountersCounted ==
    ASSUME TypeOK, Ledger, NEW e \in Event, LogsCounted(e)
    PROVE  ForeignKey' /\ CountersMatchLog'
<1> DEFINE m == e.mem
           r == experiences[m]
           q == AfterReport(r, e.ok)
<1>1. /\ e.counted /\ Stored(m) /\ e \notin reuse_events
      /\ reuse_events' = reuse_events \cup {e}
      /\ experiences' = [experiences EXCEPT ![m] = q]
    BY DEF LogsCounted
<1>2. m \in Memories /\ e.ok \in BOOLEAN /\ r \in Row
    BY <1>1 DEF Event, TypeOK, Stored
<1>3. q \in Row /\ q.n = r.n + 1 /\ q.s = IF e.ok THEN r.s + 1 ELSE r.s
    BY <1>2, JudgedTyped
<1> HIDE DEF q
<1>4. /\ experiences'[m] = q /\ q # Null
      /\ \A k \in Memories \ {m} : experiences'[k] = experiences[k]
    BY <1>1, <1>2, <1>3, ReuseAssumption DEF TypeOK
<1>5. ForeignKey'
    <2>1. \A x \in reuse_events : x.mem \in Memories
        BY DEF TypeOK, Event
    <2> QED BY <1>1, <1>2, <1>4, <2>1 DEF Ledger, ForeignKey, Stored
<1>6. CountersMatchLog'
    <2> SUFFICES ASSUME NEW k \in Memories, Stored(k)'
                 PROVE  /\ experiences'[k].n = Cardinality(Counted(k)')
                        /\ experiences'[k].s = Cardinality(CountedOk(k)')
        BY DEF CountersMatchLog
    <2>1. CASE k # m
        <3>1. Counted(k)' = Counted(k) /\ CountedOk(k)' = CountedOk(k)
            BY <1>1, <2>1 DEF Counted, CountedOk
        <3> QED BY <1>4, <2>1, <3>1 DEF Ledger, CountersMatchLog, Stored
    <2>2. CASE k = m
        <3>1. /\ Counted(m)' = Counted(m) \cup {e} /\ e \notin Counted(m)
              /\ CountedOk(m)' = IF e.ok THEN CountedOk(m) \cup {e} ELSE CountedOk(m)
              /\ e \notin CountedOk(m)
            BY <1>1 DEF Counted, CountedOk
        <3>2. r.n = Cardinality(Counted(m)) /\ r.s = Cardinality(CountedOk(m))
            BY <1>1, <1>2 DEF Ledger, CountersMatchLog
        <3>3. IsFiniteSet(Counted(m)) /\ IsFiniteSet(CountedOk(m))
            BY PartsFinite DEF Ledger
        <3>4. /\ Cardinality(Counted(m) \cup {e}) = Cardinality(Counted(m)) + 1
              /\ Cardinality(CountedOk(m) \cup {e}) = Cardinality(CountedOk(m)) + 1
            BY <3>1, <3>3, FS_AddElement
        <3>5. Cardinality(Counted(m)') = r.n + 1
            BY <3>1, <3>2, <3>4
        <3>6. Cardinality(CountedOk(m)') = IF e.ok THEN r.s + 1 ELSE r.s
            BY <3>1, <3>2, <3>4
        <3> QED BY <1>3, <1>4, <2>2, <3>5, <3>6
    <2> QED BY <2>1, <2>2
<1> QED BY <1>5, <1>6

\* A report that counts is one more in every book it belongs to.
LEMMA LedgerCounted ==
    ASSUME TypeOK, Ledger, NEW e \in Event, LogsCounted(e)
    PROVE  Ledger'
<1> DEFINE m == e.mem
<1>1. /\ e.counted /\ e \notin reuse_events /\ m \in Memories
      /\ reuse_events' = reuse_events \cup {e}
    BY DEF LogsCounted, Event
<1>2. ForeignKey' /\ CountersMatchLog'
    BY CountersCounted
<1>3. CASE e.by = Author[m] /\ ~e.ok /\ ~AuthorAlreadyReported(m) /\ reported' = reported
    <2>1. Finite'
        BY <1>1, <1>3, FS_AddElement DEF Ledger, Finite
    <2>2. CreditSpendsInjection'
        <3>1. \A k \in Memories : \A a \in Agents \ {Author[k]} :
                  CountedBy(k, a)' = CountedBy(k, a) /\ SpentOn(k, a)' = SpentOn(k, a)
            BY <1>1, <1>3 DEF Counted, CountedBy, SpentOn
        <3> QED BY <3>1 DEF Ledger, CreditSpendsInjection
    <2>3. ASSUME NEW k \in Memories
          PROVE  /\ Cardinality(CountedBy(k, Author[k])') <= 1
                 /\ \A x \in CountedBy(k, Author[k])' : ~x.ok
        <3>1. CASE k = m
            <4>1. CountedBy(k, Author[k]) = {}
                BY <1>3, <3>1 DEF AuthorAlreadyReported, Ledger, AuthorCountsOnceAgainst,
                                  CountedBy, Counted
            <4>2. CountedBy(k, Author[k])' = {e}
                BY <1>1, <1>3, <3>1, <4>1 DEF CountedBy, Counted
            <4>3. Cardinality(CountedBy(k, Author[k])') = 1
                BY <4>2, FS_Singleton
            <4> QED BY <1>3, <4>2, <4>3
        <3>2. CASE k # m
            <4>1. CountedBy(k, Author[k])' = CountedBy(k, Author[k])
                BY <1>1, <3>2 DEF CountedBy, Counted
            <4> QED BY <4>1 DEF Ledger, AuthorCountsOnceAgainst
        <3> QED BY <3>1, <3>2
    <2>4. AuthorCountsOnceAgainst'
        BY <2>3 DEF AuthorCountsOnceAgainst
    <2> QED BY <1>2, <2>1, <2>2, <2>4 DEF Ledger
<1>4. ASSUME e.by # Author[m],
             NEW i \in injections \ reported,
             i.mem = m, i.to = e.by, reported' = reported \cup {i}
      PROVE  Ledger'
    <2>1. Finite'
        BY <1>1, <1>4, FS_AddElement DEF Ledger, Finite
    <2>2. AuthorCountsOnceAgainst'
        <3>1. \A k \in Memories : CountedBy(k, Author[k])' = CountedBy(k, Author[k])
            BY <1>1, <1>4 DEF CountedBy, Counted
        <3> QED BY <3>1 DEF Ledger, AuthorCountsOnceAgainst
    <2>3. ASSUME NEW k \in Memories, NEW a \in Agents \ {Author[k]}
          PROVE  Cardinality(CountedBy(k, a)') = Cardinality(SpentOn(k, a)')
        <3>1. CASE k = m /\ a = e.by
            <4>1. /\ CountedBy(k, a)' = CountedBy(k, a) \cup {e} /\ e \notin CountedBy(k, a)
                  /\ SpentOn(k, a)' = SpentOn(k, a) \cup {i} /\ i \notin SpentOn(k, a)
                BY <1>1, <1>4, <3>1 DEF CountedBy, Counted, SpentOn
            <4>2. IsFiniteSet(CountedBy(k, a)) /\ IsFiniteSet(SpentOn(k, a))
                BY PartsFinite DEF Ledger
            <4>3. /\ Cardinality(CountedBy(k, a) \cup {e}) = Cardinality(CountedBy(k, a)) + 1
                  /\ Cardinality(SpentOn(k, a) \cup {i}) = Cardinality(SpentOn(k, a)) + 1
                BY <4>1, <4>2, FS_AddElement
            <4> QED BY <4>1, <4>3 DEF Ledger, CreditSpendsInjection
        <3>2. CASE ~(k = m /\ a = e.by)
            <4>1. CountedBy(k, a)' = CountedBy(k, a) /\ SpentOn(k, a)' = SpentOn(k, a)
                BY <1>1, <1>4, <3>2 DEF CountedBy, Counted, SpentOn
            <4> QED BY <4>1 DEF Ledger, CreditSpendsInjection
        <3> QED BY <3>1, <3>2
    <2>4. CreditSpendsInjection'
        BY <2>3 DEF CreditSpendsInjection
    <2> QED BY <1>2, <2>1, <2>2, <2>4 DEF Ledger
<1> QED BY <1>3, <1>4 DEF LogsCounted

-----------------------------------------------------------------------------
(* The theorems.                                                           *)

LEMMA LedgerStep == TypeOK /\ Control /\ Ledger /\ [Next]_vars => Ledger'
BY TableSteps, LedgerUnchanged, LedgerStore, LedgerUncounted, LedgerCounted

LEMMA LedgerInit == Init => Ledger
<1> SUFFICES ASSUME Init PROVE Ledger
    OBVIOUS
<1>1. /\ \A m : Counted(m) = {} /\ CountedOk(m) = {}
      /\ \A m, a : CountedBy(m, a) = {} /\ SpentOn(m, a) = {}
    BY DEF Init, Counted, CountedOk, CountedBy, SpentOn
<1>2. Finite /\ ForeignKey /\ CountersMatchLog
    BY <1>1, FS_EmptySet DEF Init, Finite, ForeignKey, CountersMatchLog, Stored
<1>3. CreditSpendsInjection /\ AuthorCountsOnceAgainst
    BY <1>1, FS_EmptySet DEF CreditSpendsInjection, AuthorCountsOnceAgainst
<1> QED BY <1>2, <1>3 DEF Ledger

\* The books always agree.
THEOREM LedgerHolds == Spec => []Ledger
BY LedgerInit, LedgerStep, TypeCorrect, PTL DEF Spec

\* However reports on a memory overlap, abort or repeat, its counters are the
\* counted reports of the log: apply_reuse loses none and counts none twice.
THEOREM CountersCorrect == Spec => []CountersMatchLog
<1>1. Ledger => CountersMatchLog
    BY DEF Ledger
<1> QED BY <1>1, LedgerHolds, PTL

\* A peer's reports count exactly as often as injections were spent on them,
\* so no report earns credit without one and none is spent twice
\* (_reuse_is_countable).
THEOREM CreditIsPaid == Spec => []CreditSpendsInjection
<1>1. Ledger => CreditSpendsInjection
    BY DEF Ledger
<1> QED BY <1>1, LedgerHolds, PTL

\* No author ever earns credit on its own memory, and it counts against it at
\* most once (_reuse_is_countable, under concurrent reports of the author).
THEOREM AuthorCounts == Spec => []AuthorCountsOnceAgainst
<1>1. Ledger => AuthorCountsOnceAgainst
    BY DEF Ledger
<1> QED BY <1>1, LedgerHolds, PTL

-----------------------------------------------------------------------------
(* What the books say of the tiers.                                        *)

\* A fleet-visible memory has the successes SHARED asks for on its counters.
Earned ==
    \A m \in Memories : Stored(m) /\ FleetVisible(experiences[m].tier)
                            => experiences[m].s >= SharedMinSuccesses

LEMMA EarnedStep == TypeOK /\ Control /\ Earned /\ [Next]_vars => Earned'
<1> SUFFICES ASSUME TypeOK, Control, Earned, [Next]_vars
             PROVE  Earned'
    OBVIOUS
<1>1. CASE UNCHANGED experiences
    BY <1>1 DEF Earned, Stored
<1>2. ASSUME NEW m \in Memories, Store(m)
      PROVE  Earned'
    <2>1. PICK r \in EntryRows : experiences' = [experiences EXCEPT ![m] = r]
        BY <1>2 DEF Store
    <2>2. ~FleetVisible(r.tier)
        BY EntryRowsTyped DEF FleetVisible, Rank
    <2> QED BY <2>1, <2>2 DEF Earned, Stored, TypeOK
<1>3. ASSUME NEW e \in Event, LogsCounted(e)
      PROVE  Earned'
    <2> DEFINE m == e.mem
               r == experiences[m]
               q == AfterReport(r, e.ok)
    <2>1. /\ m \in Memories /\ e.ok \in BOOLEAN /\ r \in Row /\ Stored(m)
          /\ experiences' = [experiences EXCEPT ![m] = q]
        BY <1>3 DEF LogsCounted, Event, TypeOK, Stored
    <2>2. /\ q \in Row /\ q.s >= r.s
          /\ q.tier = Decide(r.tier, q.n, q.s) /\ r.tier \in Tier
        BY <2>1, JudgedTyped DEF Row
    <2> HIDE DEF q
    <2>3. FleetVisible(q.tier) => FleetVisible(r.tier) \/ q.s >= SharedMinSuccesses
        BY <2>2, DecideNeedsSuccess DEF Row
    <2>4. FleetVisible(r.tier) => r.s >= SharedMinSuccesses
        BY <2>1 DEF Earned
    <2>5. FleetVisible(q.tier) => q.s >= SharedMinSuccesses
        BY <2>1, <2>2, <2>3, <2>4, ThresholdsAssumption DEF Row
    <2> QED BY <2>1, <2>5 DEF Earned, Stored, TypeOK
<1> QED BY <1>1, <1>2, <1>3, TableSteps DEF LogsUncounted

\* A memory the whole fleet can read was vouched for by a peer to whom it had
\* been given: no path of approvals, races or self-reports leads around it.
THEOREM FleetVisibleVouched == Spec => []FleetVisibleIsVouched
<1>1. Init => Earned
    BY DEF Init, Earned, Stored
<1>2. ASSUME Ledger, Earned, TypeOK
      PROVE  FleetVisibleIsVouched
    <2> SUFFICES ASSUME NEW m \in Memories, Stored(m), FleetVisible(experiences[m].tier)
                 PROVE  \E e \in Counted(m) :
                            /\ e.ok /\ e.by # Author[m]
                            /\ \E i \in reported : i.mem = m /\ i.to = e.by
        BY DEF FleetVisibleIsVouched
    <2>1. experiences[m].s >= 1
        <3>1. SharedMinSuccesses \in Nat /\ SharedMinSuccesses >= 1
            BY ThresholdsAssumption
        <3>2. experiences[m].s \in Nat
            BY <1>2 DEF TypeOK, Stored, Row
        <3>3. experiences[m].s >= SharedMinSuccesses
            BY <1>2 DEF Earned
        <3> QED BY <3>1, <3>2, <3>3
    <2>2. Cardinality(CountedOk(m)) >= 1
        BY <1>2, <2>1 DEF Ledger, CountersMatchLog
    <2>3. PICK e : e \in CountedOk(m)
        BY <2>2, FS_EmptySet
    <2>4. e \in Counted(m) /\ e.ok /\ e.by \in Agents /\ e \in CountedBy(m, e.by)
        BY <1>2, <2>3 DEF CountedOk, Counted, CountedBy, TypeOK, Event
    <2>5. e.by # Author[m]
        BY <1>2, <2>4 DEF Ledger, AuthorCountsOnceAgainst
    <2>6. Cardinality(CountedBy(m, e.by)) = Cardinality(SpentOn(m, e.by))
        BY <1>2, <2>4, <2>5 DEF Ledger, CreditSpendsInjection
    <2>7. SpentOn(m, e.by) # {}
        <3>1. CountedBy(m, e.by) # {} /\ IsFiniteSet(CountedBy(m, e.by))
            BY <1>2, <2>4, PartsFinite DEF Ledger
        <3> QED BY <2>6, <3>1, FS_EmptySet
    <2> QED BY <2>4, <2>5, <2>7 DEF SpentOn
<1> QED BY <1>1, <1>2, EarnedStep, TypeCorrect, LedgerHolds, PTL DEF Spec

\* The governance of a stored memory moves only with a counted report, and
\* with exactly one: no other request, failure or interleaving touches it.
THEOREM GovernanceMoves == Spec => GovernanceMovesOnCredit
<1>1. ASSUME TypeOK, TypeOK', Control, Ledger, Ledger', [Next]_vars
      PROVE  [\A m \in Memories : Stored(m) /\ experiences'[m] # experiences[m] =>
                 Cardinality(Counted(m)') = Cardinality(Counted(m)) + 1]_vars
    <2> SUFFICES ASSUME NEW m \in Memories, Stored(m), experiences'[m] # experiences[m]
                 PROVE  Cardinality(Counted(m)') = Cardinality(Counted(m)) + 1
        OBVIOUS
    <2>1. PICK e \in Event : LogsCounted(e)
        <3>1. ~UNCHANGED experiences
            OBVIOUS
        <3>2. ASSUME NEW k \in Memories, Store(k)
              PROVE  FALSE
            BY <3>2 DEF Store, TypeOK
        <3> QED BY <1>1, <3>1, <3>2, TableSteps DEF LogsUncounted
    <2>2. /\ e.mem \in Memories /\ e.ok \in BOOLEAN /\ experiences[e.mem] \in Row
          /\ experiences' = [experiences EXCEPT ![e.mem] = AfterReport(experiences[e.mem], e.ok)]
        BY <1>1, <2>1 DEF LogsCounted, Event, TypeOK, Stored
    <2>3. e.mem = m
        BY <1>1, <2>2 DEF TypeOK
    <2>4. /\ AfterReport(experiences[m], e.ok) \in Row
          /\ AfterReport(experiences[m], e.ok).n = experiences[m].n + 1
        BY <2>2, <2>3, JudgedTyped
    <2>5. experiences'[m] = AfterReport(experiences[m], e.ok)
        BY <1>1, <2>2, <2>3 DEF TypeOK
    <2>6. experiences'[m].n = experiences[m].n + 1 /\ experiences'[m] # Null
        BY <2>4, <2>5, ReuseAssumption
    <2>7. experiences[m].n = Cardinality(Counted(m))
        BY <1>1 DEF Ledger, CountersMatchLog
    <2>8. experiences'[m].n = Cardinality(Counted(m)')
        BY <1>1, <2>6 DEF Ledger, CountersMatchLog, Stored
    <2> QED BY <2>6, <2>7, <2>8
<1> QED BY <1>1, TypeCorrect, LedgerHolds, PTL DEF Spec, GovernanceMovesOnCredit

-----------------------------------------------------------------------------
(* The audit trail.                                                        *)

LEMMA TrailStep == TypeOK /\ Control /\ AuditTrailIsComplete /\ [Next]_vars
                       => AuditTrailIsComplete'
<1> SUFFICES ASSUME TypeOK, Control, AuditTrailIsComplete, [Next]_vars
             PROVE  AuditTrailIsComplete'
    OBVIOUS
<1>1. CASE UNCHANGED <<experiences, tier_transitions>>
    BY <1>1 DEF AuditTrailIsComplete, Stored
<1>2. ASSUME NEW m \in Memories, Store(m)
      PROVE  AuditTrailIsComplete'
    <2>1. PICK r \in EntryRows :
              /\ experiences' = [experiences EXCEPT ![m] = r]
              /\ tier_transitions' =
                     [tier_transitions EXCEPT ![m] = <<[from |-> Null, to |-> r.tier]>>]
        BY <1>2 DEF Store
    <2> SUFFICES ASSUME NEW k \in Memories, Stored(k)'
                 PROVE  LET trail == tier_transitions'[k]
                        IN  /\ Len(trail) > 0 /\ trail[1].from = Null
                            /\ \A j \in 2..Len(trail) : trail[j].from = trail[j - 1].to
                            /\ trail[Len(trail)].to = experiences'[k].tier
        BY DEF AuditTrailIsComplete
    <2>2. CASE k = m
        BY <2>1, <2>2 DEF TypeOK
    <2>3. CASE k # m
        BY <2>1, <2>3 DEF TypeOK, AuditTrailIsComplete, Stored
    <2> QED BY <2>2, <2>3
<1>3. ASSUME NEW e \in Event, LogsCounted(e)
      PROVE  AuditTrailIsComplete'
    <2> DEFINE m == e.mem
               r == experiences[m]
               q == AfterReport(r, e.ok)
               old == tier_transitions[m]
    <2>1. /\ m \in Memories /\ Stored(m)
          /\ experiences' = [experiences EXCEPT ![m] = q]
          /\ tier_transitions' = [tier_transitions EXCEPT ![m] = old \o Moves(r, q)]
        BY <1>3 DEF LogsCounted, Event
    <2> HIDE DEF q
    <2>2. /\ old \in Seq(Transition) /\ Len(old) > 0 /\ old[1].from = Null
          /\ \A j \in 2..Len(old) : old[j].from = old[j - 1].to
          /\ old[Len(old)].to = r.tier
        BY <2>1 DEF TypeOK, AuditTrailIsComplete
    <2> SUFFICES ASSUME NEW k \in Memories, Stored(k)'
                 PROVE  LET trail == tier_transitions'[k]
                        IN  /\ Len(trail) > 0 /\ trail[1].from = Null
                            /\ \A j \in 2..Len(trail) : trail[j].from = trail[j - 1].to
                            /\ trail[Len(trail)].to = experiences'[k].tier
        BY DEF AuditTrailIsComplete
    <2>3. CASE k = m /\ q.tier = r.tier
        <3>1. tier_transitions'[k] = old
            BY <2>1, <2>2, <2>3 DEF Moves, TypeOK
        <3>2. experiences'[k].tier = r.tier
            BY <2>1, <2>3 DEF TypeOK
        <3> QED BY <2>2, <3>1, <3>2
    <2>4. CASE k = m /\ q.tier # r.tier
        <3> DEFINE last == [from |-> r.tier, to |-> q.tier]
        <3>1. tier_transitions'[k] = Append(old, last)
            BY <2>1, <2>2, <2>4 DEF Moves, TypeOK
        <3>2. experiences'[k].tier = q.tier
            BY <2>1, <2>4 DEF TypeOK
        <3>3. last.from = r.tier /\ last.to = q.tier
            OBVIOUS
        <3> HIDE DEF last
        <3>4. /\ Len(Append(old, last)) = Len(old) + 1
              /\ Append(old, last)[Len(old) + 1] = last
              /\ \A j \in 1..Len(old) : Append(old, last)[j] = old[j]
            BY <2>2
        <3> QED BY <2>2, <3>1, <3>2, <3>3, <3>4
    <2>5. CASE k # m
        BY <2>1, <2>5 DEF TypeOK, AuditTrailIsComplete, Stored
    <2> QED BY <2>3, <2>4, <2>5
<1> QED BY <1>1, <1>2, <1>3, TableSteps DEF LogsUncounted

\* The audit trail of every stored memory is an unbroken chain of tiers from
\* its entry to where it is now.
THEOREM AuditTrailComplete == Spec => []AuditTrailIsComplete
<1>1. Init => AuditTrailIsComplete
    BY DEF Init, AuditTrailIsComplete, Stored
<1> QED BY <1>1, TrailStep, TypeCorrect, PTL DEF Spec

-----------------------------------------------------------------------------
(* The store implements the ladder: whatever the interleaving of            *)
(* transactions, ledgers and failures, the rows of the memories move as if  *)
(* each counted report was applied at one instant.                          *)

\* Both modules read the Judge, and it is the same Judge.
LEMMA SameJudge ==
    /\ Promised!EntryRows = EntryRows
    /\ \A r, ok : Promised!AfterReport(r, ok) = AfterReport(r, ok)
<1>1. Promised!EntryRows = EntryRows
    BY DEF EntryRows, Promised!EntryRows, DefaultEntries, Promised!DefaultEntries,
           Entry, Promised!Entry, InitialTier, Promised!InitialTier,
           InitialConfidence, Promised!InitialConfidence, DefaultPrior, Promised!DefaultPrior
<1>2. \A n, s : Promised!Failing(n, s) = Failing(n, s)
    BY DEF Failing, Promised!Failing
<1>3. \A n, s, a, b : Promised!Proven(n, s, a, b) = Proven(n, s, a, b)
    BY DEF Proven, Promised!Proven
<1>4. \A t, n, s : Promised!Decide(t, n, s) = Decide(t, n, s)
    BY <1>2, <1>3 DEF Decide, Promised!Decide
<1>5. \A s, n, p : Promised!Posterior(s, n, p) = Posterior(s, n, p)
    BY DEF Posterior, Promised!Posterior, Nearest, Promised!Nearest, One, Promised!One,
           PriorWeight, Promised!PriorWeight
<1>6. \A t, n, s, p : Promised!ConfidenceAfter(t, n, s, p) = ConfidenceAfter(t, n, s, p)
    BY <1>4, <1>5 DEF ConfidenceAfter, Promised!ConfidenceAfter, DefaultPrior,
                      Promised!DefaultPrior
<1>7. \A r, ok : Promised!AfterReport(r, ok) = AfterReport(r, ok)
    BY <1>4, <1>6 DEF AfterReport, Promised!AfterReport
<1> QED BY <1>1, <1>7

\* A counted commit is the ladder's Report of that memory.
LEMMA CountedIsReport ==
    ASSUME NEW e \in Event, LogsCounted(e)
    PROVE  Promised!Report(e.mem, e.ok)
BY SameJudge, Zenon DEF LogsCounted, Promised!Report, Promised!Stored, Stored

LEMMA RefinesStep ==
    ASSUME TypeOK, Control, [Next]_vars
    PROVE  [Promised!Next]_experiences
<1>1. ASSUME NEW m \in Memories, Store(m)
      PROVE  Promised!Next
    <2>1. Promised!Enter(m)
        BY <1>1, SameJudge DEF Store, Promised!Enter, Stored, Promised!Stored
    <2> QED BY <2>1 DEF Promised!Next
<1>2. ASSUME NEW e \in Event, LogsCounted(e)
      PROVE  Promised!Next
    <2>1. e.mem \in Memories /\ e.ok \in BOOLEAN
        BY DEF Event
    <2>2. Promised!Report(e.mem, e.ok)
        BY <1>2, CountedIsReport
    <2> QED BY <2>1, <2>2 DEF Promised!Next
<1> QED BY <1>1, <1>2, TableSteps DEF LogsUncounted

\* Storing is the ladder's Enter, a counted commit its Report, and everything
\* else leaves the rows alone (service.py and db.py implement judge.py's
\* promise).
THEOREM ImplementsLadder == Spec => LadderSpec
<1>1. Init => Promised!Init
    BY DEF Init, Promised!Init
<1> QED BY <1>1, RefinesStep, TypeCorrect, PTL DEF Spec, LadderSpec, Promised!Spec
=============================================================================
