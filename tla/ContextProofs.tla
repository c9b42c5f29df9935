--------------------------- MODULE ContextProofs ---------------------------
(***************************************************************************)
(* For every store, query, policy and reader: a request for context shows  *)
(* its reader only what that reader may read, repeats nothing, leaves out  *)
(* nothing without a reason, and is empty only where nothing matched.      *)
(***************************************************************************)
EXTENDS Context, FiniteSetTheorems, TLAPS

-----------------------------------------------------------------------------
(* The two statements of the visibility rule.                              *)

\* VISIBILITY_SQL and is_visible_to agree on every memory and reader, those
\* without an id or a role included.
THEOREM VisibilityAgrees ==
    ASSUME NEW m \in Memories, rows \in [Memories -> RowChoices]
    PROVE  VisibleRow(m) <=> MayRead(m)
<1>1. Author[m] # Nobody /\ AuthorRole[m] # NoRole
  BY ContextAssumption
<1> QED
  BY <1>1 DEF VisibleRow, MayRead, VisibleTo, FleetVisible

-----------------------------------------------------------------------------
(* Types.                                                                  *)

\* A listing of a set of memories, or of positions, is a sequence.
LEMMA OrdersType ==
    ASSUME NEW S, IsFiniteSet(S), NEW q \in Orders(S)
    PROVE  /\ q \in Seq(S)
           /\ Len(q) = Cardinality(S)
           /\ DOMAIN q = 1..Len(q)
           /\ \A i \in DOMAIN q : q[i] \in S
<1>1. Cardinality(S) \in Nat
  BY FS_CardinalityType
<1>2. q \in [1..Cardinality(S) -> S]
  BY DEF Orders
<1> QED
  BY <1>1, <1>2

\* LIMIT keeps a prefix.
LEMMA AtMostType ==
    ASSUME NEW S, NEW q \in Seq(S), NEW n \in Nat
    PROVE  /\ AtMost(n, q) \in Seq(S)
           /\ Len(AtMost(n, q)) <= Len(q)
           /\ \A i \in DOMAIN AtMost(n, q) : i \in DOMAIN q /\ AtMost(n, q)[i] = q[i]
BY DEF AtMost

\* Whatever the mode of the search, it matches visible memories only.
LEMMA HitsAreVisible ==
    ASSUME NEW S \in Hits
    PROVE  S \subseteq Memories /\ IsFiniteSet(S) /\ \A m \in S : VisibleRow(m)
<1>1. S \subseteq Filtered
  BY DEF Hits, ExactHits
<1>2. Filtered \subseteq Memories /\ \A m \in Filtered : VisibleRow(m)
  BY DEF Filtered
<1> QED
  BY <1>1, <1>2, ContextAssumption, FS_Subset

\* What a list may hold.
AllVisible(q) == \A i \in DOMAIN q : VisibleRow(q[i])

\* What the lists of a request are to each other: all come from the search, the
\* context is the front of what was kept, and nothing kept repeats another.
Chosen ==
    /\ AllVisible(cand) /\ AllVisible(todo) /\ AllVisible(kept)
    /\ Len(ids) <= Len(kept) /\ \A i \in DOMAIN ids : ids[i] = kept[i]
    /\ \A i, j \in DOMAIN kept : i < j => ~Redundant(kept[j], kept[i])

Inv == TypeOK /\ Chosen

LEMMA InitHolds == Init => Inv
<1> SUFFICES ASSUME Init PROVE Inv
  OBVIOUS
<1>1. TypeOK
  BY ContextAssumption DEF Init, TypeOK
<1>2. Chosen
  BY DEF Init, Chosen, AllVisible
<1> QED
  BY <1>1, <1>2 DEF Inv

LEMMA SearchHolds ==
    ASSUME Inv, Search
    PROVE  Inv'
<1> USE DEF Inv, TypeOK, Chosen, given
<1>0. PICK S \in Hits : \E q \in Orders(S) : cand' = AtMost(req.policy.limit, q)
  BY DEF Search
<1>1. PICK q \in Orders(S) : cand' = AtMost(req.policy.limit, q)
  BY <1>0
<1>2. S \subseteq Memories /\ IsFiniteSet(S) /\ \A m \in S : VisibleRow(m)
  BY HitsAreVisible
<1>3. /\ q \in Seq(S)
      /\ \A i \in DOMAIN q : q[i] \in S
  BY <1>2, OrdersType
<1>4. req.policy.limit \in Nat
  BY ContextAssumption DEF Requests
<1>5. /\ cand' \in Seq(S)
      /\ \A i \in DOMAIN cand' : i \in DOMAIN q /\ cand'[i] = q[i]
  BY <1>1, <1>3, <1>4, AtMostType
<1>6. cand' \in Seq(Memories)
  BY <1>2, <1>5
<1>7. AllVisible(cand)'
  BY <1>2, <1>3, <1>5 DEF AllVisible, VisibleRow, Search
<1>8. TypeOK'
  BY <1>6 DEF Search
<1> QED
  BY <1>7, <1>8 DEF Search, AllVisible, VisibleRow, Redundant

\* A listing of some of the positions of a list.
LEMMA PositionsType ==
    ASSUME NEW q \in Seq(Memories), NEW P \in SUBSET DOMAIN q, NEW p \in Orders(P)
    PROVE  /\ DOMAIN p = 1..Len(p) /\ Len(p) \in Nat
           /\ \A i \in DOMAIN p : p[i] \in DOMAIN q /\ q[p[i]] \in Memories
<1>1. IsFiniteSet(P)
  <2>1. IsFiniteSet(1..Len(q)) /\ P \subseteq 1..Len(q)
    BY FS_Interval
  <2> QED
    BY <2>1, FS_Subset
<1>2. p \in Seq(P) /\ DOMAIN p = 1..Len(p) /\ \A i \in DOMAIN p : p[i] \in P
  BY <1>1, OrdersType
<1> QED
  BY <1>2

LEMMA RankHolds ==
    ASSUME Inv, RankCandidates
    PROVE  Inv'
<1> USE DEF Inv, TypeOK, Chosen, given
<1> DEFINE P == {i \in DOMAIN cand : Usable(cand[i])}
<1>1. PICK p \in Orders(P) : todo' = [i \in DOMAIN p |-> cand[p[i]]]
  BY DEF RankCandidates
<1>2. cand \in Seq(Memories) /\ P \subseteq DOMAIN cand
  OBVIOUS
<1> HIDE DEF P
<1>3. /\ DOMAIN p = 1..Len(p) /\ Len(p) \in Nat
      /\ \A i \in DOMAIN p : p[i] \in DOMAIN cand /\ cand[p[i]] \in Memories
  BY <1>2, PositionsType
<1>5. todo' \in Seq(Memories)
  BY <1>1, <1>3
<1>6. AllVisible(todo)'
  BY <1>1, <1>3 DEF AllVisible, VisibleRow, RankCandidates
<1>7. TypeOK'
  BY <1>5 DEF RankCandidates
<1> QED
  BY <1>6, <1>7 DEF RankCandidates, AllVisible, VisibleRow, Redundant

LEMMA FilterHolds ==
    ASSUME Inv, FilterRedundant
    PROVE  Inv'
<1> USE DEF Inv, TypeOK, Chosen, given
<1>1. Head(todo) \in Memories /\ VisibleRow(Head(todo))
  BY DEF FilterRedundant, AllVisible
<1>2. /\ todo' \in Seq(Memories)
      /\ \A i \in DOMAIN todo' : i + 1 \in DOMAIN todo /\ todo'[i] = todo[i + 1]
  BY DEF FilterRedundant
<1>3. CASE IsRedundant(Head(todo))
  <2>1. kept' = kept
    BY <1>3 DEF FilterRedundant
  <2>2. TypeOK'
    BY <1>2, <2>1 DEF FilterRedundant
  <2>3. AllVisible(kept)' /\ AllVisible(todo)' /\ AllVisible(cand)'
    BY <1>2, <2>1 DEF FilterRedundant, AllVisible, VisibleRow
  <2> QED
    BY <2>1, <2>2, <2>3 DEF FilterRedundant, Redundant
<1>4. CASE ~IsRedundant(Head(todo))
  <2>1. kept' = Append(kept, Head(todo))
    BY <1>4 DEF FilterRedundant
  <2>2. /\ kept' \in Seq(Memories) /\ Len(kept') = Len(kept) + 1
        /\ \A i \in DOMAIN kept : kept'[i] = kept[i]
        /\ kept'[Len(kept')] = Head(todo)
    BY <1>1, <2>1
  <2>3. \A i, j \in DOMAIN kept' : i < j => ~Redundant(kept'[j], kept'[i])
    <3> TAKE i, j \in DOMAIN kept'
    <3> HAVE i < j
    <3>1. i \in DOMAIN kept
      BY <2>2
    <3>2. CASE j = Len(kept')
      BY <1>4, <2>2, <3>1, <3>2 DEF IsRedundant
    <3>3. CASE j # Len(kept')
      <4>1. j \in DOMAIN kept
        BY <2>2, <3>3
      <4> QED
        BY <2>2, <3>1, <4>1
    <3> QED
      BY <3>2, <3>3
  <2>4. AllVisible(kept)' /\ AllVisible(todo)' /\ AllVisible(cand)'
    <3>1. \A i \in DOMAIN kept' : i \in DOMAIN kept \/ i = Len(kept')
      BY <2>2
    <3>2. ASSUME NEW i \in DOMAIN kept' PROVE VisibleRow(kept'[i])
      <4>1. CASE i \in DOMAIN kept
        BY <2>2, <4>1 DEF AllVisible
      <4>2. CASE i = Len(kept')
        BY <1>1, <2>2, <4>2
      <4> QED
        BY <3>1, <4>1, <4>2
    <3>3. AllVisible(kept)'
      BY <3>2 DEF FilterRedundant, AllVisible, VisibleRow
    <3>4. AllVisible(todo)'
      BY <1>2 DEF FilterRedundant, AllVisible, VisibleRow
    <3>5. AllVisible(cand)'
      BY DEF FilterRedundant, AllVisible, VisibleRow
    <3> QED
      BY <3>3, <3>4, <3>5
  <2>5. TypeOK'
    BY <1>2, <2>2 DEF FilterRedundant
  <2>6. Len(ids) <= Len(kept') /\ \A i \in DOMAIN ids : ids[i] = kept'[i]
    <3>1. DOMAIN ids \subseteq DOMAIN kept
      OBVIOUS
    <3> QED
      BY <2>2, <3>1
  <2> QED
    BY <2>3, <2>4, <2>5, <2>6 DEF FilterRedundant, Redundant
<1> QED
  BY <1>3, <1>4

LEMMA AddHolds ==
    ASSUME Inv, AddBlock
    PROVE  Inv'
<1> USE DEF Inv, TypeOK, Chosen, given
<1>1. Upcoming \in Memories /\ Len(ids) + 1 \in DOMAIN kept
  BY DEF AddBlock, HasRoom, Upcoming
<1>2. /\ ids' \in Seq(Memories) /\ Len(ids') = Len(ids) + 1
      /\ \A i \in DOMAIN ids : ids'[i] = ids[i]
      /\ ids'[Len(ids')] = kept[Len(ids')]
  BY <1>1 DEF AddBlock, Upcoming
<1>3. Size[Upcoming] \in Nat /\ tokens' \in Nat
  <2>1. Size \in [Memories -> Nat]
    BY ContextAssumption
  <2> QED
    BY <1>1, <2>1 DEF AddBlock
<1>4. Len(ids') <= Len(kept) /\ \A i \in DOMAIN ids' : ids'[i] = kept[i]
  <2>1. \A i \in DOMAIN ids' : i \in DOMAIN ids \/ i = Len(ids')
    BY <1>2
  <2> QED
    BY <1>1, <1>2, <2>1
<1>5. TypeOK'
  BY <1>2, <1>3 DEF AddBlock
<1> QED
  BY <1>4, <1>5 DEF AddBlock, AllVisible, VisibleRow, Redundant

\* A selected memory's id is that of an agent who asked.
LEMMA InjectionsType ==
    ASSUME TypeOK
    PROVE  Injections \subseteq Memories \X Agents
<1>1. req.by \in Readers
  BY DEF TypeOK, Requests
<1>2. CASE req.by.id = Nobody
  BY <1>2 DEF Injections
<1>3. CASE req.by.id # Nobody
  <2>1. req.by.id \in Agents
    BY <1>1, <1>3 DEF Agents
  <2>2. \A i \in DOMAIN ids : ids[i] \in Memories
    BY DEF TypeOK
  <2> QED
    BY <1>3, <2>1, <2>2 DEF Injections
<1> QED
  BY <1>2, <1>3

LEMMA RecordHolds ==
    ASSUME Inv, Record
    PROVE  Inv'
<1> USE DEF Inv, TypeOK, Chosen, given
<1> DEFINE P == {i \in DOMAIN cand : \E k \in DOMAIN ids : ids[k] = cand[i]}
<1>1. PICK p \in Orders(P) : keys' = [i \in DOMAIN p |-> TaskKey[cand[p[i]]]]
  BY DEF Record
<1>2. cand \in Seq(Memories) /\ P \subseteq DOMAIN cand
  OBVIOUS
<1> HIDE DEF P
<1>3. /\ DOMAIN p = 1..Len(p) /\ Len(p) \in Nat
      /\ \A i \in DOMAIN p : cand[p[i]] \in Memories
  BY <1>2, PositionsType
<1> DEFINE K == {TaskKey[m] : m \in Memories}
<1>4. \A i \in DOMAIN p : TaskKey[cand[p[i]]] \in K
  BY <1>3
<1> HIDE DEF K
<1>5. keys' \in Seq(K)
  BY <1>1, <1>3, <1>4
<1>6. TypeOK'
  BY <1>5, InjectionsType DEF Record, K
<1> QED
  BY <1>6 DEF Record, AllVisible, VisibleRow, Redundant

\* Every step keeps the lists of a request as they should be.
LEMMA StepHolds == Inv /\ [Next]_vars => Inv'
<1> SUFFICES ASSUME Inv, [Next]_vars PROVE Inv'
  OBVIOUS
<1>1. CASE Search
  BY <1>1, SearchHolds
<1>2. CASE RankCandidates
  BY <1>2, RankHolds
<1>3. CASE FilterRedundant
  BY <1>3, FilterHolds
<1>4. CASE AddBlock
  BY <1>4, AddHolds
<1>5. CASE Record
  BY <1>5, RecordHolds
<1>6. CASE RecordFails
  <2>1. TypeOK'
    BY <1>6, InjectionsType DEF RecordFails, Inv, TypeOK, given, built
  <2> QED
    BY <1>6, <2>1 DEF RecordFails, Inv, Chosen, given, built, AllVisible, VisibleRow, Redundant
<1>7. CASE Filtering \/ Assembled \/ UNCHANGED vars
  <2>1. UNCHANGED <<given, req, built, ledger>> /\ pc' \in {pc, "assembling", "recording"}
    BY <1>7 DEF Filtering, Assembled, vars
  <2>2. TypeOK'
    BY <2>1 DEF Inv, TypeOK, given, built
  <2>3. Chosen'
    BY <2>1 DEF Inv, Chosen, given, built, AllVisible, VisibleRow, Redundant
  <2> QED
    BY <2>2, <2>3 DEF Inv
<1> QED
  BY <1>1, <1>2, <1>3, <1>4, <1>5, <1>6, <1>7 DEF Next

LEMMA InvHolds == Spec => []Inv
BY InitHolds, StepHolds, PTL DEF Spec

-----------------------------------------------------------------------------

\* The lists, the ledger and the answer keep their types.
THEOREM TypeCorrect == Spec => []TypeOK
<1>1. Inv => TypeOK
  BY DEF Inv
<1> QED
  BY <1>1, InvHolds, PTL

\* Nobody is shown a memory that is_visible_to keeps from them.
THEOREM OnlyReadable == Spec => []OnlyReadableShown
<1>1. Inv => OnlyReadableShown
  <2> SUFFICES ASSUME Inv, NEW m \in Shown PROVE MayRead(m)
    BY DEF OnlyReadableShown
  <2>1. \A i \in DOMAIN cand : cand[i] \in Memories /\ VisibleRow(cand[i])
    BY DEF Inv, TypeOK, Chosen, AllVisible
  <2>2. \A i \in DOMAIN ids : ids[i] \in Memories /\ VisibleRow(ids[i])
    <3>1. \A i \in DOMAIN ids : i \in DOMAIN kept /\ ids[i] = kept[i]
      BY DEF Inv, TypeOK, Chosen
    <3> QED
      BY <3>1 DEF Inv, TypeOK, Chosen, AllVisible
  <2>3. m \in Memories /\ VisibleRow(m)
    BY <2>1, <2>2 DEF Shown
  <2> QED
    BY <2>3, VisibilityAgrees DEF Inv, TypeOK
<1> QED
  BY <1>1, InvHolds, PTL

\* No memory of a context repeats one before it.
THEOREM NothingRepeated == Spec => []NoRepetition
<1>1. Inv => NoRepetition
  <2> SUFFICES ASSUME Inv, NEW i \in DOMAIN ids, NEW j \in DOMAIN ids, i < j
               PROVE  ~Redundant(ids[j], ids[i])
    BY DEF NoRepetition
  <2>1. i \in DOMAIN kept /\ j \in DOMAIN kept
    BY DEF Inv, TypeOK, Chosen
  <2> QED
    BY <2>1 DEF Inv, Chosen
<1> QED
  BY <1>1, InvHolds, PTL

-----------------------------------------------------------------------------
(* The ledger.                                                             *)

\* What is recorded is the credit of the property.
LEMMA InjectionsAreShown ==
    ASSUME req.kind # "search"
    PROVE  Injections = {<<m, req.by.id>> : m \in IF req.by.id = Nobody THEN {} ELSE Shown}
<1>1. Shown = {ids[i] : i \in DOMAIN ids}
  BY DEF Shown
<1>2. CASE req.by.id = Nobody
  BY <1>2 DEF Injections
<1>3. CASE req.by.id # Nobody
  BY <1>1, <1>3, Zenon DEF Injections
<1> QED
  BY <1>2, <1>3

\* A search ends where it begins, and never reaches the ledger.
Booked ==
    /\ req.kind = "search" => pc \in {"searching", "done"}
    /\ pc \notin {"done", "failed"} => ledger = {}
    /\ req.kind = "search" => ledger = {}
    /\ pc = "done" /\ req.kind # "search" => ledger = Injections
    /\ pc = "failed" => ledger \in {{}, Injections}

LEMMA BookedStep == Booked /\ [Next]_vars => Booked'
<1> SUFFICES ASSUME Booked, [Next]_vars PROVE Booked'
  OBVIOUS
<1>1. CASE Search
  BY <1>1 DEF Search, Booked, Injections
<1>2. CASE RankCandidates \/ FilterRedundant \/ Filtering \/ AddBlock \/ Assembled
  BY <1>2 DEF RankCandidates, FilterRedundant, Filtering, AddBlock, Assembled, Booked,
              given, built
<1>3. CASE Record
  <2>1. /\ pc = "recording" /\ pc' = "done" /\ ledger' = Injections
        /\ UNCHANGED <<req, ids>>
    BY <1>3 DEF Record
  <2>2. ledger' = Injections /\ Injections' = Injections
    BY <2>1 DEF Booked, Injections
  <2> QED
    BY <2>1, <2>2 DEF Booked
<1>4. CASE RecordFails
  <2>1. /\ pc = "recording" /\ pc' = "failed" /\ ledger' \in {ledger, Injections}
        /\ UNCHANGED <<req, ids>>
    BY <1>4 DEF RecordFails, built
  <2>2. ledger' \in {{}, Injections} /\ Injections' = Injections
    BY <2>1 DEF Booked, Injections
  <2> QED
    BY <2>1, <2>2 DEF Booked
<1>5. CASE UNCHANGED vars
  BY <1>5 DEF vars, built, Booked, Injections
<1> QED
  BY <1>1, <1>2, <1>3, <1>4, <1>5 DEF Next

\* An agent has credit for exactly what was put in front of it: none for a
\* search or for candidates, all or none when the recording failed.
THEOREM CreditIsContext == Spec => []LedgerIsContext
<1>1. Init => Booked
  BY DEF Init, Booked
<1>2. Booked => LedgerIsContext
  BY InjectionsAreShown DEF Booked, LedgerIsContext
<1> QED
  BY <1>1, <1>2, BookedStep, PTL DEF Spec

-----------------------------------------------------------------------------
(* What is left out, and what comes first.                                 *)

Listed(m, q)  == \E i \in DOMAIN q : q[i] = m
Distinct(q)   == \A i, j \in DOMAIN q : i # j => q[i] # q[j]
BestScored(q) == \A i, j \in DOMAIN q : i < j => Score(q[i]) >= Score(q[j])

\* The lists of the builder: what it has kept ranks no lower than what it has
\* still to compare, and all of it are usable candidates.
InOrder(c, t, k) ==
    /\ Distinct(c) /\ Distinct(t) /\ Distinct(k)
    /\ BestScored(t) /\ BestScored(k)
    /\ \A i \in DOMAIN k, j \in DOMAIN t : k[i] # t[j] /\ Score(k[i]) >= Score(t[j])
    /\ \A i \in DOMAIN t : Usable(t[i]) /\ Listed(t[i], c)
    /\ \A i \in DOMAIN k : Usable(k[i]) /\ Listed(k[i], c)

\* A usable candidate is still to be compared, kept, or said as well by one kept
\* that ranks no lower.
Settled(c, t, k) ==
    \A i \in DOMAIN c : Usable(c[i]) =>
        \/ Listed(c[i], t) \/ Listed(c[i], k)
        \/ \E n \in DOMAIN k : Redundant(c[i], k[n]) /\ Score(k[n]) >= Score(c[i])

\* How far a request has come.
Stage ==
    /\ pc \in {"searching", "ranking"} => todo = <<>> /\ kept = <<>>
    /\ pc \in {"searching", "ranking", "filtering"} => ids = <<>>
    /\ pc \in {"assembling", "recording"} => todo = <<>>
    /\ pc \in {"filtering", "assembling", "recording"} => Settled(cand, todo, kept)
    /\ pc = "recording" => ~HasRoom
    /\ Len(ids) <= req.policy.max

\* Without the index the search finds every match that is not crowded out; with
\* it, too, it finds something if there is something to find.
AllFound ==
    pc # "searching" =>
        /\ ~UsesIndex => \A m \in ExactHits : Listed(m, cand) \/ CrowdedOut(m)
        /\ req.policy.limit > 0 /\ cand = <<>> => ExactHits = {}

Selected == Inv /\ Booked /\ InOrder(cand, todo, kept) /\ Stage /\ AllFound

\* A listing of a set misses none of its elements.
LEMMA OrdersOnto ==
    ASSUME NEW S, IsFiniteSet(S), NEW q \in Orders(S), NEW x \in S
    PROVE  Listed(x, q)
<1> SUFFICES ASSUME \A i \in DOMAIN q : q[i] # x PROVE FALSE
  BY DEF Listed
<1> DEFINE n == Cardinality(S)
<1>1. n \in Nat /\ q \in [1..n -> S] /\ \A i, j \in DOMAIN q : i # j => q[i] # q[j]
  BY FS_CardinalityType DEF Orders
<1>2. IsFiniteSet(S \ {x}) /\ Cardinality(S \ {x}) = n - 1
  BY FS_RemoveElement
<1>3. IsFiniteSet(1..n) /\ Cardinality(1..n) = n
  BY <1>1, FS_Interval
<1>4. q \in [1..n -> S \ {x}]
  BY <1>1
<1> HIDE DEF n
<1>5. Cardinality(S \ {x}) < Cardinality(1..n)
  BY <1>1, <1>2, <1>3
<1>6. \E i, j \in 1..n : i # j /\ q[i] = q[j]
  <2> DEFINE I == 1..n
             T == S \ {x}
  <2>1. IsFiniteSet(I) /\ IsFiniteSet(T) /\ q \in [I -> T] /\ Cardinality(T) < Cardinality(I)
    BY <1>2, <1>3, <1>4, <1>5
  <2> HIDE DEF I, T
  <2>2. \E i, j \in I : i # j /\ q[i] = q[j]
    BY <2>1, FS_PigeonHole
  <2> QED
    BY <2>2 DEF I
<1> QED
  BY <1>1, <1>6

\* A score is a number.
LEMMA ScoreTyped ==
    ASSUME TypeOK, NEW m \in Memories
    PROVE  Score(m) \in Int
<1>1. match[m] \in [vec : Int, fts : Nat] /\ rows[m] \in [tier : Tier, conf : Nat]
  BY ContextAssumption DEF TypeOK
<1>2. match[m].vec \in Int /\ match[m].fts \in Int /\ rows[m].conf \in Int
  BY <1>1
<1>3. FtsWeight \in Int /\ TrustWeight \in Int
  BY ContextAssumption
<1>4. \A a, b \in Int : a * b \in Int /\ a + b \in Int
  OBVIOUS
<1> QED
  BY <1>2, <1>3, <1>4 DEF Score, Relevance

\* The store and the query do not change under a request.
LEMMA GivenStays ==
    ASSUME UNCHANGED given
    PROVE  /\ InOrder(cand, todo, kept)' <=> InOrder(cand', todo', kept')
           /\ Settled(cand, todo, kept)' <=> Settled(cand', todo', kept')
<1>1. InOrder(cand, todo, kept)' <=> InOrder(cand', todo', kept')
  BY DEF given, InOrder, Distinct, BestScored, Listed, Usable, Score, Relevance
<1>2. Settled(cand, todo, kept)' <=> Settled(cand', todo', kept')
  BY DEF given, Settled, Listed, Usable, Score, Relevance, Redundant
<1> QED
  BY <1>1, <1>2

\* While the candidates stay, so does what was found.
LEMMA FoundStays ==
    ASSUME AllFound, pc' # "searching" => pc # "searching", UNCHANGED <<given, req, cand>>
    PROVE  AllFound'
<1>1. (UsesIndex' <=> UsesIndex) /\ ExactHits' = ExactHits
  BY DEF given, UsesIndex, ExactHits, Filtered, VisibleRow
<1>2. \A m : (Listed(m, cand)' <=> Listed(m, cand)) /\ (CrowdedOut(m)' <=> CrowdedOut(m))
  BY DEF given, Listed, CrowdedOut, Relevance
<1> QED
  BY <1>1, <1>2 DEF AllFound

\* A relevance is a number.
LEMMA RelevanceTyped ==
    ASSUME TypeOK, NEW m \in Memories
    PROVE  Relevance(m) \in Int
<1>1. match[m] \in [vec : Int, fts : Nat] /\ FtsWeight \in Int
  BY ContextAssumption DEF TypeOK
<1>2. match[m].vec \in Int /\ match[m].fts \in Int
  BY <1>1
<1>3. \A a, b \in Int : a * b \in Int /\ a + b \in Int
  OBVIOUS
<1> QED
  BY <1>1, <1>2, <1>3 DEF Relevance

\* The exact search takes the best of what matches, up to its limit; the index
\* leaves none only where the exact search would.
LEMMA SearchFinds ==
    ASSUME Inv, Search
    PROVE  AllFound'
<1>1. PICK S \in Hits : \E q \in Orders(S) :
          BestFirst(q) /\ cand' = AtMost(req.policy.limit, q)
  BY DEF Search
<1>2. PICK q \in Orders(S) : BestFirst(q) /\ cand' = AtMost(req.policy.limit, q)
  BY <1>1
<1>3. S \subseteq Memories /\ IsFiniteSet(S)
  BY HitsAreVisible DEF Inv, TypeOK
<1>4. /\ q \in Seq(S) /\ Len(q) = Cardinality(S) /\ Distinct(q)
      /\ \A i \in DOMAIN q : q[i] \in Memories
  BY <1>3, OrdersType DEF Orders, Distinct
<1>5. req.policy.limit \in Nat
  BY ContextAssumption DEF Inv, TypeOK, Requests
<1>6. /\ Len(cand') = IF Len(q) < req.policy.limit THEN Len(q) ELSE req.policy.limit
      /\ DOMAIN cand' = 1..Len(cand') /\ DOMAIN q = 1..Len(q) /\ Len(q) \in Nat
      /\ \A i \in DOMAIN cand' : i \in DOMAIN q /\ cand'[i] = q[i]
  BY <1>2, <1>4, <1>5 DEF AtMost
<1>7. ASSUME ~UsesIndex, NEW m \in ExactHits, ~Listed(m, cand')
      PROVE  CrowdedOut(m)'
  <2>1. S = ExactHits
    BY <1>7 DEF Hits
  <2>2. PICK k \in DOMAIN q : q[k] = m
    BY <1>3, <1>7, <2>1, OrdersOnto DEF Listed
  <2>3. k \notin DOMAIN cand'
    BY <1>6, <1>7, <2>2 DEF Listed
  <2>4. Len(cand') = req.policy.limit /\ \A i \in DOMAIN cand' : i < k
    BY <1>5, <1>6, <2>3
  <2>5. \A i \in DOMAIN cand' : Relevance(q[i]) >= Relevance(m)
    <3> SUFFICES ASSUME NEW i \in DOMAIN cand' PROVE Relevance(q[i]) >= Relevance(q[k])
      BY <2>2
    <3>1. i \in DOMAIN q /\ i < k
      BY <1>6, <2>4
    <3>2. Relevance(q[i]) \in Int /\ Relevance(q[k]) \in Int
      BY <1>4, <3>1, RelevanceTyped DEF Inv
    <3> QED
      BY <1>2, <3>1, <3>2 DEF BestFirst
  <2>6. \A i \in DOMAIN cand' : cand'[i] # m
    BY <1>7 DEF Listed
  <2>7. UNCHANGED <<match, req>>
    BY DEF Search, given
  <2> QED
    BY <1>6, <2>4, <2>5, <2>6, <2>7 DEF CrowdedOut, Relevance
<1>8. ASSUME req.policy.limit > 0, cand' = <<>>
      PROVE  ExactHits = {}
  <2>1. Len(q) = 0
    BY <1>5, <1>6, <1>8
  <2>2. S = {}
    BY <1>3, <1>4, <2>1, FS_EmptySet
  <2>3. CASE UsesIndex
    BY <2>2, <2>3 DEF Hits
  <2>4. CASE ~UsesIndex
    BY <2>2, <2>4 DEF Hits
  <2> QED
    BY <2>3, <2>4
<1>9. (UsesIndex' <=> UsesIndex) /\ ExactHits' = ExactHits /\ UNCHANGED req
  BY DEF Search, given, UsesIndex, ExactHits, Filtered, VisibleRow
<1>10. \A m : Listed(m, cand)' <=> Listed(m, cand')
  BY DEF Listed
<1> QED
  BY <1>7, <1>8, <1>9, <1>10 DEF AllFound

\* The search leaves no memory twice, and none out unless it must.
LEMMA SearchSelects ==
    ASSUME Selected, Inv', Booked', Search
    PROVE  Selected'
<1>1. PICK S \in Hits : \E q \in Orders(S) : cand' = AtMost(req.policy.limit, q)
  BY DEF Search
<1>2. PICK q \in Orders(S) : cand' = AtMost(req.policy.limit, q)
  BY <1>1
<1>3. S \subseteq Memories /\ IsFiniteSet(S)
  BY HitsAreVisible DEF Selected, Inv, TypeOK
<1>4. q \in Seq(S) /\ Len(q) = Cardinality(S) /\ Distinct(q)
  BY <1>3, OrdersType DEF Orders, Distinct
<1>5. req.policy.limit \in Nat
  BY ContextAssumption DEF Selected, Inv, TypeOK, Requests
<1>6. /\ Len(cand') = IF Len(q) < req.policy.limit THEN Len(q) ELSE req.policy.limit
      /\ \A i \in DOMAIN cand' : i \in DOMAIN q /\ cand'[i] = q[i]
      /\ DOMAIN cand' = 1..Len(cand')
  BY <1>2, <1>4, <1>5 DEF AtMost
<1>7. pc = "searching" /\ todo = <<>> /\ kept = <<>> /\ ids = <<>>
  BY DEF Search, Selected, Stage
<1>8. InOrder(cand', todo', kept')
  BY <1>4, <1>6, <1>7 DEF Search, InOrder, Distinct, BestScored
<1>9. Stage'
  BY <1>7, ContextAssumption DEF Search, Selected, Stage
<1>10. AllFound'
  BY SearchFinds DEF Selected
<1> QED
  BY <1>8, <1>9, <1>10, GivenStays DEF Selected, Search

\* Ranking keeps every usable candidate, best score first.
LEMMA RankSelects ==
    ASSUME Selected, Inv', Booked', RankCandidates
    PROVE  Selected'
<1> DEFINE P == {i \in DOMAIN cand : Usable(cand[i])}
<1>1. PICK p \in Orders(P) :
          /\ \A i, j \in DOMAIN p : i < j =>
                \/ Score(cand[p[i]]) > Score(cand[p[j]])
                \/ Score(cand[p[i]]) = Score(cand[p[j]]) /\ p[i] < p[j]
          /\ todo' = [i \in DOMAIN p |-> cand[p[i]]]
  BY DEF RankCandidates
<1>2. cand \in Seq(Memories) /\ P \subseteq DOMAIN cand
  BY DEF Selected, Inv, TypeOK
<1>3. IsFiniteSet(P)
  <2>1. IsFiniteSet(1..Len(cand)) /\ P \subseteq 1..Len(cand)
    BY <1>2, FS_Interval
  <2> QED
    BY <2>1, FS_Subset
<1>4. \A k \in P : Listed(k, p)
  <2> HIDE DEF P
  <2> QED
    BY <1>3, OrdersOnto
<1>5. /\ DOMAIN p = 1..Len(p) /\ Len(p) \in Nat /\ Distinct(p)
      /\ \A i \in DOMAIN p : p[i] \in P
  <2>1. Distinct(p)
    BY DEF Orders, Distinct
  <2> HIDE DEF P
  <2> QED
    BY <1>3, <2>1, OrdersType
<1>6. DOMAIN todo' = DOMAIN p /\ \A i \in DOMAIN p : todo'[i] = cand[p[i]]
  BY <1>1
<1>7. pc = "ranking" /\ kept = <<>> /\ ids = <<>>
  BY DEF RankCandidates, Selected, Stage
<1>8. \A m \in Memories : Score(m) \in Int
  BY ScoreTyped DEF Selected, Inv
<1>9. InOrder(cand', todo', kept')
  <2>1. Distinct(todo')
    BY <1>5, <1>6 DEF Distinct, Selected, InOrder
  <2>2. BestScored(todo')
    <3> SUFFICES ASSUME NEW i \in DOMAIN p, NEW j \in DOMAIN p, i < j
                 PROVE  Score(cand[p[i]]) >= Score(cand[p[j]])
      BY <1>6 DEF BestScored
    <3>1. Score(cand[p[i]]) \in Int /\ Score(cand[p[j]]) \in Int
      BY <1>2, <1>5, <1>8
    <3> QED
      BY <1>1, <3>1
  <2>3. \A i \in DOMAIN todo' : Usable(todo'[i]) /\ Listed(todo'[i], cand)
    BY <1>5, <1>6 DEF Listed
  <2> QED
    BY <1>7, <2>1, <2>2, <2>3 DEF RankCandidates, Selected, InOrder, Distinct, BestScored
<1>10. Settled(cand', todo', kept')
  <2> SUFFICES ASSUME NEW i \in DOMAIN cand, Usable(cand[i]) PROVE Listed(cand[i], todo')
    BY DEF RankCandidates, Settled
  <2>1. PICK k \in DOMAIN p : p[k] = i
    BY <1>4 DEF Listed
  <2> QED
    BY <1>6, <2>1 DEF Listed
<1>11. Stage'
  BY <1>7, <1>10, GivenStays DEF RankCandidates, Selected, Stage
<1>12. AllFound'
  BY <1>7, FoundStays DEF RankCandidates, Selected
<1> QED
  BY <1>9, <1>11, <1>12, GivenStays DEF Selected, RankCandidates

\* A usable candidate is dropped only when one that was kept says the same.
LEMMA FilterSelects ==
    ASSUME Selected, Inv', Booked', FilterRedundant
    PROVE  Selected'
<1> DEFINE m == Head(todo)
<1>1. /\ todo \in Seq(Memories) /\ kept \in Seq(Memories) /\ todo # <<>>
      /\ pc = "filtering" /\ ids = <<>> /\ UNCHANGED <<given, req, pc, cand, ids>>
      /\ Settled(cand, todo, kept) /\ InOrder(cand, todo, kept)
  BY DEF FilterRedundant, Selected, Stage, Inv, TypeOK
<1>2. /\ 1 \in DOMAIN todo /\ todo[1] = m /\ Len(todo') = Len(todo) - 1
      /\ \A i \in DOMAIN todo' : i + 1 \in DOMAIN todo /\ todo'[i] = todo[i + 1]
      /\ \A i \in DOMAIN todo \ {1} : i - 1 \in DOMAIN todo' /\ todo'[i - 1] = todo[i]
  BY <1>1 DEF FilterRedundant
<1>3. /\ Usable(m) /\ Listed(m, cand)
      /\ \A i \in DOMAIN todo' : todo'[i] # m /\ Score(m) >= Score(todo'[i])
      /\ \A i \in DOMAIN kept : kept[i] # m /\ Score(kept[i]) >= Score(m)
  <2>1. Usable(m) /\ Listed(m, cand) /\ \A i \in DOMAIN kept : kept[i] # m /\ Score(kept[i]) >= Score(m)
    BY <1>1, <1>2 DEF InOrder
  <2>2. ASSUME NEW i \in DOMAIN todo' PROVE todo'[i] # m /\ Score(m) >= Score(todo'[i])
    <3>1. i + 1 \in DOMAIN todo /\ todo'[i] = todo[i + 1] /\ 1 < i + 1
      BY <1>1, <1>2 DEF FilterRedundant
    <3>2. Distinct(todo) /\ BestScored(todo)
      BY <1>1 DEF InOrder
    <3> HIDE DEF m
    <3>3. todo[1] # todo[i + 1] /\ Score(todo[1]) >= Score(todo[i + 1])
      <4>1. 1 \in DOMAIN todo /\ i + 1 \in DOMAIN todo /\ 1 # i + 1
        BY <1>2, <3>1
      <4> QED
        BY <3>1, <3>2, <4>1 DEF Distinct, BestScored
    <3> QED
      BY <1>2, <3>1, <3>3
  <2> QED
    BY <2>1, <2>2
<1>4. Distinct(todo') /\ BestScored(todo')
  <2> SUFFICES ASSUME NEW i \in DOMAIN todo', NEW j \in DOMAIN todo'
               PROVE  /\ i # j => todo'[i] # todo'[j]
                      /\ i < j => Score(todo'[i]) >= Score(todo'[j])
    BY DEF Distinct, BestScored
  <2>1. i \in Int /\ j \in Int
    BY <1>1 DEF FilterRedundant
  <2> QED
    BY <1>1, <1>2, <2>1 DEF InOrder, Distinct, BestScored
<1>5. \A i \in DOMAIN todo' : Usable(todo'[i]) /\ Listed(todo'[i], cand)
  BY <1>1, <1>2 DEF InOrder
<1>6. \A n : Listed(n, todo) => n = m \/ Listed(n, todo')
  BY <1>2 DEF Listed
<1> HIDE DEF m
<1>7. CASE IsRedundant(Head(todo))
  <2>1. kept' = kept
    BY <1>7 DEF FilterRedundant
  <2>2. InOrder(cand', todo', kept')
    BY <1>1, <1>2, <1>4, <1>5, <2>1 DEF InOrder
  <2>3. Settled(cand', todo', kept')
    BY <1>1, <1>3, <1>6, <1>7, <2>1 DEF Settled, IsRedundant, m
  <2> QED
    BY <1>1, <2>2, <2>3, FoundStays, GivenStays DEF Selected, Stage
<1>8. CASE ~IsRedundant(Head(todo))
  <2>1. kept' = Append(kept, m)
    BY <1>8 DEF FilterRedundant, m
  <2>2. /\ Len(kept') = Len(kept) + 1 /\ DOMAIN kept' = 1..Len(kept')
        /\ \A i \in DOMAIN kept : i \in DOMAIN kept' /\ kept'[i] = kept[i]
        /\ \A i \in DOMAIN kept' : i \in DOMAIN kept \/ i = Len(kept')
        /\ \A i \in DOMAIN kept : i < Len(kept')
        /\ kept'[Len(kept')] = m
    BY <1>1, <2>1
  <2>3. Distinct(kept') /\ BestScored(kept')
    <3> SUFFICES ASSUME NEW i \in DOMAIN kept', NEW j \in DOMAIN kept'
                 PROVE  /\ i # j => kept'[i] # kept'[j]
                        /\ i < j => Score(kept'[i]) >= Score(kept'[j])
      BY DEF Distinct, BestScored
    <3>1. i \in Int /\ j \in Int /\ Len(kept') \in Int
      BY <1>1, <2>1
    <3>2. CASE i \in DOMAIN kept /\ j \in DOMAIN kept
      BY <1>1, <2>2, <3>2 DEF InOrder, Distinct, BestScored
    <3>3. CASE i = Len(kept') \/ j = Len(kept')
      BY <1>3, <2>2, <3>1, <3>3
    <3> QED
      BY <2>2, <3>2, <3>3
  <2>4. InOrder(cand', todo', kept')
    <3>1. \A i \in DOMAIN kept', j \in DOMAIN todo' :
             kept'[i] # todo'[j] /\ Score(kept'[i]) >= Score(todo'[j])
      <4> SUFFICES ASSUME NEW i \in DOMAIN kept', NEW j \in DOMAIN todo'
                   PROVE  kept'[i] # todo'[j] /\ Score(kept'[i]) >= Score(todo'[j])
        OBVIOUS
      <4>1. CASE i \in DOMAIN kept
        BY <1>1, <1>2, <2>2, <4>1 DEF InOrder
      <4>2. CASE i = Len(kept')
        BY <1>3, <2>2, <4>2
      <4> QED
        BY <2>2, <4>1, <4>2
    <3>2. \A i \in DOMAIN kept' : Usable(kept'[i]) /\ Listed(kept'[i], cand)
      BY <1>1, <1>3, <2>2 DEF InOrder
    <3> QED
      BY <1>1, <1>4, <1>5, <2>3, <3>1, <3>2 DEF InOrder
  <2>5. Settled(cand', todo', kept')
    <3> SUFFICES ASSUME NEW i \in DOMAIN cand, Usable(cand[i])
                 PROVE  \/ Listed(cand[i], todo') \/ Listed(cand[i], kept')
                        \/ \E n \in DOMAIN kept' :
                              Redundant(cand[i], kept'[n]) /\ Score(kept'[n]) >= Score(cand[i])
      BY <1>1 DEF Settled
    <3>1. \A n : Listed(n, kept) => Listed(n, kept')
      BY <2>2 DEF Listed
    <3>2. Listed(m, kept')
      <4>1. Len(kept') \in DOMAIN kept'
        BY <1>1, <2>1, <2>2
      <4> QED
        BY <2>2, <4>1 DEF Listed
    <3> QED
      BY <1>1, <1>6, <2>2, <3>1, <3>2 DEF Settled
  <2> QED
    BY <1>1, <2>4, <2>5, FoundStays, GivenStays DEF Selected, Stage
<1> QED
  BY <1>7, <1>8

\* The other steps leave the lists alone.
LEMMA OthersSelect ==
    ASSUME Selected, Inv', Booked',
           Filtering \/ AddBlock \/ Assembled \/ Record \/ RecordFails \/ UNCHANGED vars
    PROVE  Selected'
<1>1. UNCHANGED <<given, req, cand, todo, kept>>
  BY DEF Filtering, AddBlock, Assembled, Record, RecordFails, vars, built
<1>2. /\ InOrder(cand, todo, kept)'
      /\ Settled(cand, todo, kept) => Settled(cand, todo, kept)'
  BY <1>1, GivenStays DEF Selected
<1>3. AllFound'
  <2>1. pc' # "searching" => pc # "searching"
    BY DEF Filtering, AddBlock, Assembled, Record, RecordFails, vars
  <2> QED
    BY <1>1, <2>1, FoundStays DEF Selected
<1>4. Stage'
  <2>1. CASE Filtering
    BY <1>1, <1>2, <2>1 DEF Filtering, built, Selected, Stage
  <2>2. CASE AddBlock
    <3>1. /\ pc = "assembling" /\ UNCHANGED pc
          /\ Len(ids') = Len(ids) + 1 /\ Len(ids) < req.policy.max
      BY <2>2 DEF AddBlock, HasRoom, Selected, Inv, TypeOK
    <3>2. Len(ids) \in Nat /\ req.policy.max \in Nat
      BY ContextAssumption DEF Selected, Inv, TypeOK, Requests
    <3>3. Len(ids') <= req.policy.max
      BY <3>1, <3>2
    <3> QED
      BY <1>1, <1>2, <3>1, <3>3 DEF Selected, Stage
  <2>3. CASE Assembled
    <3>1. ~HasRoom' /\ pc = "assembling" /\ pc' = "recording" /\ UNCHANGED ids
      BY <2>3 DEF Assembled, built, HasRoom, Upcoming
    <3> QED
      BY <1>1, <1>2, <3>1 DEF Selected, Stage
  <2>4. CASE Record \/ RecordFails
    <3>1. pc' \in {"done", "failed"} /\ UNCHANGED ids
      BY <2>4 DEF Record, RecordFails, built
    <3> QED
      BY <1>1, <1>2, <3>1 DEF Selected, Stage
  <2>5. CASE UNCHANGED vars
    <3>1. HasRoom' <=> HasRoom
      BY <2>5 DEF vars, built, HasRoom, Upcoming
    <3> QED
      BY <1>1, <1>2, <2>5, <3>1 DEF vars, built, Selected, Stage
  <2> QED
    BY <2>1, <2>2, <2>3, <2>4, <2>5
<1> QED
  BY <1>2, <1>3, <1>4 DEF Selected

LEMMA SelectedStep == Selected /\ [Next]_vars => Selected'
<1> SUFFICES ASSUME Selected, [Next]_vars PROVE Selected'
  OBVIOUS
<1>1. Inv' /\ Booked'
  BY StepHolds, BookedStep DEF Selected
<1> QED
  BY <1>1, SearchSelects, RankSelects, FilterSelects, OthersSelect DEF Next

LEMMA SelectedHolds == Spec => []Selected
<1>1. Init => Selected
  <2> SUFFICES ASSUME Init PROVE Selected
    OBVIOUS
  <2>1. req.policy.max \in Nat
    BY ContextAssumption DEF Init, Requests
  <2>2. Inv /\ Booked
    BY InitHolds DEF Init, Booked
  <2> QED
    BY <2>1, <2>2 DEF Init, Selected, InOrder, Distinct, BestScored, Stage, AllFound
<1> QED
  BY <1>1, SelectedStep, PTL DEF Spec

\* A usable candidate is left out only because another that ranks no lower says
\* the same, or had no room, or because the context is full.
THEOREM NothingOmittedInVain == Spec => []OmittedForAReason
<1>1. Selected => OmittedForAReason
  <2> SUFFICES ASSUME Selected, pc = "recording", NEW k \in DOMAIN cand, Usable(cand[k]),
                      ~Listed(cand[k], ids), Len(ids) # req.policy.max,
                      ~ \E i \in DOMAIN ids : /\ Redundant(cand[k], ids[i])
                                              /\ Score(ids[i]) >= Score(cand[k])
               PROVE  \E i \in DOMAIN cand : /\ cand[i] \notin Shown /\ Usable(cand[i])
                                             /\ Score(cand[i]) >= Score(cand[k])
                                             /\ tokens + Size[cand[i]] > req.policy.budget
    BY DEF OmittedForAReason, Listed
  <2>1. /\ cand \in Seq(Memories) /\ kept \in Seq(Memories) /\ ids \in Seq(Memories)
        /\ req.policy.max \in Nat /\ req.policy.budget \in Nat /\ tokens \in Nat
    BY ContextAssumption DEF Selected, Inv, TypeOK, Requests
  <2>2. /\ Len(ids) <= Len(kept) /\ Len(ids) <= req.policy.max /\ Len(ids) \in Nat
        /\ \A i \in DOMAIN ids : i \in DOMAIN kept /\ ids[i] = kept[i]
        /\ \A i \in DOMAIN kept : i \in DOMAIN ids \/ i >= Len(ids) + 1
    BY <2>1 DEF Selected, Inv, Chosen, Stage
  <2>3. PICK n \in DOMAIN kept : n >= Len(ids) + 1 /\ Score(kept[n]) >= Score(cand[k])
    <3>1. todo = <<>> /\ Settled(cand, todo, kept)
      BY DEF Selected, Stage
    <3>2. Score(cand[k]) \in Int
      BY <2>1, ScoreTyped DEF Selected, Inv
    <3>3. CASE Listed(cand[k], kept)
      <4>1. PICK n \in DOMAIN kept : kept[n] = cand[k]
        BY <3>3 DEF Listed
      <4>2. n \notin DOMAIN ids
        BY <2>2, <4>1 DEF Listed
      <4> QED
        BY <2>2, <3>2, <4>1, <4>2
    <3>4. CASE \E n \in DOMAIN kept : Redundant(cand[k], kept[n]) /\ Score(kept[n]) >= Score(cand[k])
      BY <2>2, <3>4
    <3> QED
      BY <3>1, <3>3, <3>4 DEF Settled, Listed
  <2> DEFINE u == Len(ids) + 1
  <2>4. /\ u \in DOMAIN kept /\ Upcoming = kept[u] /\ Upcoming \in Memories
        /\ Score(Upcoming) >= Score(cand[k])
    <3>1. u \in DOMAIN kept /\ Upcoming = kept[u] /\ kept[u] \in Memories
      BY <2>1, <2>2, <2>3 DEF Upcoming
    <3>2. Score(kept[u]) \in Int /\ Score(kept[n]) \in Int /\ Score(cand[k]) \in Int
      BY <2>1, <3>1, ScoreTyped DEF Selected, Inv
    <3>3. n = u \/ u < n
      BY <2>1, <2>2, <2>3
    <3>4. Score(kept[u]) >= Score(kept[n])
      BY <3>1, <3>2, <3>3 DEF Selected, InOrder, BestScored
    <3> QED
      BY <2>3, <3>1, <3>2, <3>4
  <2>5. tokens + Size[Upcoming] > req.policy.budget
    <3>1. ~(tokens + Size[Upcoming] <= req.policy.budget)
      BY <2>1, <2>2, <2>3 DEF Selected, Stage, HasRoom
    <3>2. Size[Upcoming] \in Nat
      BY <2>4, ContextAssumption
    <3> QED
      BY <2>1, <3>1, <3>2
  <2>6. Upcoming \notin Shown
    <3>1. Shown = {ids[i] : i \in DOMAIN ids}
      BY DEF Selected, Booked, Shown
    <3>2. \A i \in DOMAIN ids : i \in DOMAIN kept /\ i # u /\ ids[i] = kept[i]
      BY <2>1, <2>2
    <3> QED
      BY <2>4, <3>1, <3>2 DEF Selected, InOrder, Distinct
  <2>7. PICK i \in DOMAIN cand : cand[i] = Upcoming
    BY <2>4 DEF Selected, InOrder, Listed
  <2>8. Usable(Upcoming)
    BY <2>4 DEF Selected, InOrder
  <2> QED
    BY <2>4, <2>5, <2>6, <2>7, <2>8
<1> QED
  BY <1>1, SelectedHolds, PTL

\* What is in reach and has some relevance is a match of the exact search.
LEMMA InReachIsHit ==
    ASSUME TypeOK, NEW m \in Memories, InReach(m), Relevance(m) > 0
    PROVE  m \in ExactHits
<1>1. VisibleRow(m)
  BY VisibilityAgrees DEF InReach, TypeOK
<1>2. match[m].vec > 0 \/ match[m].fts > 0
  <2>1. match[m] \in [vec : Int, fts : Nat] /\ FtsWeight \in Nat
    BY ContextAssumption DEF TypeOK
  <2>2. match[m].vec \in Int /\ match[m].fts \in Nat
    BY <2>1
  <2>3. CASE match[m].fts = 0
    <3>1. FtsWeight * match[m].fts = 0
      BY <2>1, <2>3
    <3> QED
      BY <2>2, <3>1 DEF Relevance
  <2> QED
    BY <2>2, <2>3
<1> QED
  BY <1>1, <1>2 DEF ExactHits, Filtered, InReach

\* A search comes back empty only if nothing in the reader's reach has to do with
\* the query, whatever the index returns (hybrid_search_experiences).
THEOREM EmptyIsHonest == Spec => []EmptyOnlyIfNothingMatches
<1>1. Selected => EmptyOnlyIfNothingMatches
  <2> SUFFICES ASSUME Selected, pc # "searching", req.policy.limit > 0, cand = <<>>,
                      NEW m \in Memories, InReach(m), Relevance(m) > 0
               PROVE  FALSE
    BY DEF EmptyOnlyIfNothingMatches
  <2>1. m \in ExactHits
    BY InReachIsHit DEF Selected, Inv
  <2> QED
    BY <2>1 DEF Selected, AllFound
<1> QED
  BY <1>1, SelectedHolds, PTL

\* With the exact search, the best memory the reader may use comes first, unless
\* candidates as relevant as itself, usable or not, crowd it out
\* (hybrid_search_experiences, build_context).
THEOREM BestComesFirst == Spec => []BestUsableFirst
<1>1. Selected => BestUsableFirst
  <2> SUFFICES ASSUME Selected, pc = "recording", ~UsesIndex, req.policy.max > 0,
                      NEW m \in Memories, InReach(m), Usable(m), Relevance(m) > 0,
                      ~CrowdedOut(m)
               PROVE  ids # <<>> /\ Score(ids[1]) >= Score(m)
    BY Zenon DEF BestUsableFirst
  <2>1. /\ cand \in Seq(Memories) /\ kept \in Seq(Memories) /\ ids \in Seq(Memories)
        /\ req.policy.max \in Nat
    BY ContextAssumption DEF Selected, Inv, TypeOK, Requests
  <2>2. m \in ExactHits
    BY InReachIsHit DEF Selected, Inv
  <2>3. Listed(m, cand)
    BY <2>2 DEF Selected, AllFound
  <2>4. \E n \in DOMAIN kept : Score(kept[n]) >= Score(m)
    <3>1. Score(m) \in Int
      BY ScoreTyped DEF Selected, Inv
    <3>2. todo = <<>> /\ Settled(cand, todo, kept)
      BY DEF Selected, Stage
    <3> QED
      BY <2>3, <3>1, <3>2 DEF Settled, Listed
  <2>5. PICK n \in DOMAIN kept : Score(kept[n]) >= Score(m)
    BY <2>4
  <2>6. ids # <<>>
    BY <2>1, <2>5 DEF Selected, Stage, HasRoom
  <2>7. 1 \in DOMAIN kept /\ ids[1] = kept[1] /\ (n = 1 \/ 1 < n)
    BY <2>1, <2>5, <2>6 DEF Selected, Inv, Chosen
  <2>8. Score(kept[1]) \in Int /\ Score(kept[n]) \in Int /\ Score(m) \in Int
    BY <2>1, <2>7, ScoreTyped DEF Selected, Inv
  <2>9. Score(kept[1]) >= Score(kept[n])
    BY <2>7, <2>8 DEF Selected, InOrder, BestScored
  <2> QED
    BY <2>5, <2>6, <2>7, <2>8, <2>9
<1> QED
  BY <1>1, SelectedHolds, PTL
=============================================================================
