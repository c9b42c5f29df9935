---------------------------- MODULE FleetProofs ----------------------------
(***************************************************************************)
(* For any number of agents, memories, tasks and lost or late calls: what  *)
(* the agents report finds the injection it is for, what everybody can     *)
(* read has helped a peer, what falls below the floor stays there, stores  *)
(* and exceptions add up, and an author's prior is earned.                 *)
(***************************************************************************)
EXTENDS Fleet, JudgeProofs, FiniteSetTheorems, TLAPS

(***************************************************************************)
(* The inductive invariant.                                                *)
(***************************************************************************)

Ledger == [Memories \X Agents -> Nat]

Typed ==
    /\ setting \in Setting
    /\ payload \in [Memories -> Payload \cup {Null}]
    /\ credit \in Ledger /\ counted \in Ledger /\ seen \in Ledger
    /\ pc \in [Agents -> {"idle", "noting", "solving", "storing", "reporting", "done"}]
    /\ task \in [Agents -> Task]
    /\ late \subseteq Report /\ IsFiniteSet(late)
    /\ lost \in Nat

\* The number of a report given up is that of a call gone wrong before.
Numbered == \A r \in late : r.nr < lost

\* An agent at a task knows its family; one that reports has stored a memory.
AtWork(a) ==
    /\ pc[a] # "idle" => task[a].family \in Families
    /\ pc[a] = "reporting" =>
           LET own == task[a].own
           IN  own \in Memories /\ payload[own] # Null /\ payload[own].author = a

\* No memory of a's own: unlike in CreditMatchesUse, perhaps not yet written.
Foreign(m, a) == payload[m] = Null \/ payload[m].author # a

\* Reports of a on m, once for all, and each with its injection.
Covered(m, a) ==
    Foreign(m, a) => /\ counted[<<m, a>>] + Owed(m, a) <= seen[<<m, a>>]
                     /\ Owed(m, a) <= credit[<<m, a>>]

IInv ==
    /\ Typed /\ Numbered
    /\ \A a \in Agents : AtWork(a)
    /\ \A m \in Memories, a \in Agents : Covered(m, a)

-----------------------------------------------------------------------------
(* Helpers.                                                                *)

LEMMA OwedTyped ==
    ASSUME Typed, NEW m \in Memories, NEW a \in Agents
    PROVE  /\ IsFiniteSet(OnItsWay(m, a))
           /\ Cardinality(OnItsWay(m, a)) \in Nat
           /\ Owed(m, a) = Cardinality(OnItsWay(m, a)) + (IF Pending(m, a) THEN 1 ELSE 0)
           /\ Owed(m, a) \in Nat
<1>1. OnItsWay(m, a) \subseteq late /\ IsFiniteSet(late)
    BY DEF OnItsWay, Typed
<1>2. IsFiniteSet(OnItsWay(m, a)) /\ Cardinality(OnItsWay(m, a)) \in Nat
    BY <1>1, FS_Subset, FS_CardinalityType
<1> QED BY <1>2 DEF Owed

\* The same of the next state.
LEMMA OwedTypedNext ==
    ASSUME Typed', NEW m \in Memories, NEW a \in Agents
    PROVE  Owed(m, a)' \in Nat
<1>1. OnItsWay(m, a)' \subseteq late' /\ IsFiniteSet(late')
    BY DEF OnItsWay, Typed
<1>2. Cardinality(OnItsWay(m, a)') \in Nat
    BY <1>1, FS_Subset, FS_CardinalityType
<1> QED BY <1>2 DEF Owed

\* A step that touches neither the ledger nor the reports on their way, and
\* puts nothing in a prompt, keeps everything covered.
LEMMA QuietKeepsCovered ==
    ASSUME Typed, Typed',
           UNCHANGED <<credit, counted, seen, late>>,
           NEW m \in Memories, NEW a \in Agents, Covered(m, a),
           Foreign(m, a)' => Foreign(m, a),
           Pending(m, a)' => Pending(m, a)
    PROVE  Covered(m, a)'
<1>1. OnItsWay(m, a)' = OnItsWay(m, a)
    BY DEF OnItsWay
<1>2. Owed(m, a)' <= Owed(m, a)
    BY <1>1, OwedTyped, OwedTyped DEF Owed
<1>3. /\ Owed(m, a) \in Nat /\ Owed(m, a)' \in Nat
      /\ credit[<<m, a>>] \in Nat /\ counted[<<m, a>>] \in Nat /\ seen[<<m, a>>] \in Nat
    <2>1. Owed(m, a) \in Nat
        BY OwedTyped
    <2>2. Owed(m, a)' \in Nat
        BY <1>1, <2>1, OwedTyped DEF Owed
    <2> QED BY <2>1, <2>2 DEF Typed, Ledger
<1> QED BY <1>2, <1>3 DEF Covered

\* A report leaves the ledger as it was, or moves one injection from the
\* credit of its sender on that memory to what has counted.
LEMMA ApplyMovesOne ==
    ASSUME Typed, NEW m \in Memories, NEW a \in Agents, NEW ok, Apply(m, a, ok)
    PROVE  /\ credit' \in Ledger /\ counted' \in Ledger
           /\ \/ UNCHANGED <<credit, counted>>
              \/ /\ Foreign(m, a)
                 /\ credit'[<<m, a>>] = credit[<<m, a>>] - 1
                 /\ counted'[<<m, a>>] = counted[<<m, a>>] + 1
                 /\ \A x \in (Memories \X Agents) \ {<<m, a>>} :
                        credit'[x] = credit[x] /\ counted'[x] = counted[x]
<1>1. credit \in Ledger /\ counted \in Ledger
    BY DEF Typed
<1>2. CASE UNCHANGED <<credit, counted>>
    BY <1>1, <1>2
<1>3. CASE ~UNCHANGED <<credit, counted>>
    <2>1. /\ a # AuthorOf(m) /\ Countable(m, a, ok)
          /\ credit' = [credit EXCEPT ![<<m, a>>] = @ - 1]
          /\ counted' = [counted EXCEPT ![<<m, a>>] = @ + 1]
        BY <1>3 DEF Apply, tables
    <2>2. credit[<<m, a>>] \in Nat /\ credit[<<m, a>>] > 0 /\ counted[<<m, a>>] \in Nat
        BY <1>1, <2>1 DEF Countable, Ledger
    <2>3. Foreign(m, a)
        BY <2>1 DEF AuthorOf, Foreign
    <2> QED BY <1>1, <2>1, <2>2, <2>3 DEF Ledger
<1> QED BY <1>2, <1>3

\* A report that is applied keeps everything covered, if it is one of those
\* its sender owed.
LEMMA ApplyKeepsCovered ==
    ASSUME Typed, Typed', NEW m \in Memories, NEW a \in Agents, NEW ok,
           Apply(m, a, ok), UNCHANGED <<seen, payload>>,
           NEW n \in Memories, NEW b \in Agents, Covered(n, b),
           Owed(n, b)' <= Owed(n, b),
           n = m /\ b = a /\ Foreign(m, a) => Owed(n, b)' <= Owed(n, b) - 1
    PROVE  Covered(n, b)'
<1>1. Owed(n, b) \in Nat
    BY OwedTyped
<1>2. Owed(n, b)' \in Nat
    BY OwedTypedNext
<1>3. /\ credit[<<n, b>>] \in Nat /\ counted[<<n, b>>] \in Nat /\ seen[<<n, b>>] \in Nat
      /\ credit'[<<n, b>>] \in Nat /\ counted'[<<n, b>>] \in Nat
    BY DEF Typed, Ledger
<1>4. Foreign(n, b)' = Foreign(n, b)
    BY DEF Foreign
<1>5. CASE UNCHANGED <<credit, counted>>
    BY <1>1, <1>2, <1>3, <1>4, <1>5 DEF Covered
<1>6. CASE ~UNCHANGED <<credit, counted>>
    <2>1. /\ Foreign(m, a)
          /\ credit'[<<m, a>>] = credit[<<m, a>>] - 1
          /\ counted'[<<m, a>>] = counted[<<m, a>>] + 1
          /\ \A x \in (Memories \X Agents) \ {<<m, a>>} :
                 credit'[x] = credit[x] /\ counted'[x] = counted[x]
        BY <1>6, ApplyMovesOne
    <2>2. CASE n = m /\ b = a
        BY <1>1, <1>2, <1>3, <1>4, <2>1, <2>2 DEF Covered
    <2>3. CASE ~(n = m /\ b = a)
        <3>1. credit'[<<n, b>>] = credit[<<n, b>>] /\ counted'[<<n, b>>] = counted[<<n, b>>]
            BY <2>1, <2>3
        <3> QED BY <1>1, <1>2, <1>3, <1>4, <3>1 DEF Covered
    <2> QED BY <2>2, <2>3
<1> QED BY <1>5, <1>6

\* A report that is given up may add itself to those on their way.
LEMMA MayArriveAddsOne ==
    ASSUME Typed, NEW m \in Memories, NEW a \in Agents, NEW ok, MayArrive(m, a, ok),
           NEW n \in Memories, NEW b \in Agents
    PROVE  /\ n = m /\ b = a => Cardinality(OnItsWay(n, b)') <= Cardinality(OnItsWay(n, b)) + 1
           /\ ~(n = m /\ b = a) => OnItsWay(n, b)' = OnItsWay(n, b)
           /\ Cardinality(OnItsWay(n, b)') \in Nat
<1> DEFINE r == [mem |-> m, by |-> a, ok |-> ok, nr |-> lost]
<1>1. late' \in {late, late \cup {r}}
    BY DEF MayArrive
<1>2. r.mem = m /\ r.by = a
    OBVIOUS
<1> HIDE DEF r
<1>3. IsFiniteSet(OnItsWay(n, b)) /\ Cardinality(OnItsWay(n, b)) \in Nat
    BY OwedTyped
<1>4. CASE ~(n = m /\ b = a)
    <2>1. OnItsWay(n, b)' = OnItsWay(n, b)
        BY <1>1, <1>2, <1>4 DEF OnItsWay
    <2> QED BY <1>3, <1>4, <2>1
<1>5. CASE n = m /\ b = a
    <2>1. OnItsWay(n, b)' = OnItsWay(n, b) \/ OnItsWay(n, b)' = OnItsWay(n, b) \cup {r}
        <3>1. CASE late' = late
            BY <3>1 DEF OnItsWay
        <3>2. CASE late' = late \cup {r}
            <4>1. OnItsWay(n, b)' = OnItsWay(n, b) \cup {r}
                BY <3>2, <1>2, <1>5 DEF OnItsWay
            <4> QED BY <4>1
        <3> QED BY <1>1, <3>1, <3>2
    <2>2. Cardinality(OnItsWay(n, b) \cup {r}) \in
              {Cardinality(OnItsWay(n, b)), Cardinality(OnItsWay(n, b)) + 1}
        BY <1>3, FS_AddElement
    <2>3. Cardinality(OnItsWay(n, b)') \in
              {Cardinality(OnItsWay(n, b)), Cardinality(OnItsWay(n, b)) + 1}
        <3>1. CASE OnItsWay(n, b)' = OnItsWay(n, b)
            BY <3>1, Zenon
        <3>2. CASE OnItsWay(n, b)' = OnItsWay(n, b) \cup {r}
            BY <2>2, <3>2, Zenon
        <3> QED BY <2>1, <3>1, <3>2
    <2> QED BY <1>3, <1>5, <2>3
<1> QED BY <1>4, <1>5

\* One that comes in is no longer on its way.
LEMMA ArrivalTakesOne ==
    ASSUME Typed, NEW r \in late, late' = late \ {r},
           NEW n \in Memories, NEW b \in Agents
    PROVE  /\ n = r.mem /\ b = r.by => Cardinality(OnItsWay(n, b)') = Cardinality(OnItsWay(n, b)) - 1
           /\ ~(n = r.mem /\ b = r.by) => OnItsWay(n, b)' = OnItsWay(n, b)
<1>1. IsFiniteSet(OnItsWay(n, b)) /\ Cardinality(OnItsWay(n, b)) \in Nat
    BY OwedTyped
<1>2. CASE n = r.mem /\ b = r.by
    <2>1. OnItsWay(n, b)' = OnItsWay(n, b) \ {r} /\ r \in OnItsWay(n, b)
        BY <1>2 DEF OnItsWay
    <2>2. Cardinality(OnItsWay(n, b) \ {r}) = Cardinality(OnItsWay(n, b)) - 1
        BY <1>1, <2>1, FS_RemoveElement
    <2> QED BY <1>2, <2>1, <2>2
<1>3. CASE ~(n = r.mem /\ b = r.by)
    BY <1>3 DEF OnItsWay
<1> QED BY <1>2, <1>3

-----------------------------------------------------------------------------
(* The steps.                                                              *)

\* What a step of one agent leaves to the others.
OnlyBy(a) ==
    \A b \in Agents \ {a} : pc'[b] = pc[b] /\ task'[b] = task[b]

\* What is written stays as it is.
Kept == \A m \in Memories : payload[m] # Null => payload'[m] = payload[m]

LEMMA OthersKept ==
    ASSUME IInv, NEW a \in Agents, OnlyBy(a), Kept, NEW b \in Agents \ {a}
    PROVE  /\ AtWork(b)'
           /\ \A m \in Memories : Pending(m, b)' = Pending(m, b)
<1>1. AtWork(b) /\ pc'[b] = pc[b] /\ task'[b] = task[b]
    BY DEF IInv, OnlyBy
<1> QED BY <1>1 DEF AtWork, Pending, Kept

\* A step of one agent at its task, with the ledger and the reports on their way
\* as they were.
LEMMA QuietStep ==
    ASSUME IInv, NEW a \in Agents, OnlyBy(a), Kept, Typed', Numbered', AtWork(a)',
           UNCHANGED <<credit, counted, seen, late>>,
           \A m \in Memories : Pending(m, a)' => Pending(m, a)
    PROVE  IInv'
<1>1. ASSUME NEW b \in Agents PROVE AtWork(b)'
    BY OthersKept
<1>2. ASSUME NEW m \in Memories, NEW b \in Agents PROVE Covered(m, b)'
    <2>1. Pending(m, b)' => Pending(m, b)
        <3>1. CASE b = a
            BY <3>1
        <3>2. CASE b # a
            BY <3>2, OthersKept
        <3> QED BY <3>1, <3>2
    <2>2. Foreign(m, b)' => Foreign(m, b)
        BY DEF Foreign, Kept
    <2> QED BY <2>1, <2>2, QuietKeepsCovered DEF IInv
<1> QED BY <1>1, <1>2 DEF IInv

LEMMA BeginKeeps ==
    ASSUME IInv, NEW a \in Agents, NEW f \in setting.families, Begin(a, f)
    PROVE  IInv'
<1>1. PICK picked \in Picks(a) :
          /\ task' = [task EXCEPT ![a] = NewTask(f, picked)]
          /\ Step(a, IF picked = {} THEN "solving" ELSE "noting")
    BY DEF Begin
<1>2. f \in Families /\ picked \subseteq Memories
    BY DEF IInv, Typed, Setting, Picks
<1> DEFINE t == NewTask(f, picked)
<1>3. t \in Task /\ t.family = f /\ t.got = picked
    BY <1>2 DEF Task, NewTask
<1> HIDE DEF t
<1>4. /\ task' \in [Agents -> Task] /\ task'[a] = t
      /\ pc' \in [Agents -> {"idle", "noting", "solving", "storing", "reporting", "done"}]
      /\ pc[a] = "idle" /\ pc'[a] = (IF picked = {} THEN "solving" ELSE "noting") /\ OnlyBy(a)
    <2>1. task' = [task EXCEPT ![a] = t]
        BY <1>1 DEF t
    <2> QED BY <1>1, <1>3, <2>1 DEF IInv, Typed, Step, OnlyBy, Begin
<1>5. Typed' /\ Numbered' /\ Kept
    BY <1>4 DEF IInv, Typed, Numbered, Kept, Begin, tables, history
<1>6. AtWork(a)' /\ \A m \in Memories : Pending(m, a)' => Pending(m, a)
    BY <1>2, <1>3, <1>4 DEF AtWork, Pending
<1> QED BY <1>4, <1>5, <1>6, QuietStep DEF Begin, tables, history

LEMMA SolveKeeps ==
    ASSUME IInv, NEW a \in Agents, Solve(a)
    PROVE  IInv'
<1>1. PICK missing \in Answers(a) : task' = [task EXCEPT ![a].missing = missing]
    BY DEF Solve
<1>2. missing \in 0..2
    BY DEF Answers
<1>3. task[a] \in Task /\ AtWork(a) /\ pc[a] = "solving"
    BY DEF IInv, Typed, Solve
<1>4. /\ task' \in [Agents -> Task] /\ task'[a].got = task[a].got
      /\ task'[a].family = task[a].family
      /\ pc' \in [Agents -> {"idle", "noting", "solving", "storing", "reporting", "done"}]
      /\ pc'[a] = "storing" /\ OnlyBy(a)
    BY <1>1, <1>2, <1>3 DEF IInv, Typed, Task, Step, OnlyBy, Solve
<1>5. Typed' /\ Numbered' /\ Kept
    BY <1>4 DEF IInv, Typed, Numbered, Kept, Solve, tables
<1>6. AtWork(a)' /\ \A m \in Memories : Pending(m, a)' => Pending(m, a)
    BY <1>3, <1>4 DEF AtWork, Pending
<1> QED BY <1>4, <1>5, <1>6, QuietStep DEF Solve, tables

\* A task that ends leaves nothing to report.
LEMMA EndingTyped ==
    ASSUME IInv, NEW a \in Agents, Step(a, "idle"), task' = [task EXCEPT ![a] = NoTask]
    PROVE  /\ task' \in [Agents -> Task]
           /\ pc' \in [Agents -> {"idle", "noting", "solving", "storing", "reporting", "done"}]
           /\ pc'[a] = "idle" /\ OnlyBy(a) /\ AtWork(a)'
           /\ \A m \in Memories : ~Pending(m, a)'
<1>1. NoTask \in Task
    BY DEF NoTask, NewTask, Task
<1>2. /\ task' \in [Agents -> Task]
      /\ pc' \in [Agents -> {"idle", "noting", "solving", "storing", "reporting", "done"}]
      /\ pc'[a] = "idle" /\ OnlyBy(a)
    BY <1>1 DEF IInv, Typed, Step, OnlyBy
<1> QED BY <1>2 DEF AtWork, Pending

\* The calls that go wrong are counted, and reports given up before were fewer.
LEMMA GoesWrongNumbered ==
    ASSUME IInv, lost' = lost + 1, UNCHANGED late
    PROVE  lost' \in Nat /\ Numbered'
<1>1. \A r \in late : r.nr \in Nat /\ r.nr < lost
    BY DEF IInv, Typed, Numbered, Report
<1>2. lost \in Nat
    BY DEF IInv, Typed
<1> QED BY <1>1, <1>2 DEF Numbered

LEMMA AbortKeeps ==
    ASSUME IInv, NEW a \in Agents, Abort(a)
    PROVE  IInv'
<1>1. Step(a, "idle") /\ task' = [task EXCEPT ![a] = NoTask]
    BY DEF Abort
<1>2. lost' \in Nat /\ Numbered'
    BY GoesWrongNumbered DEF Abort, GoesWrong
<1>3. Typed' /\ Kept
    BY <1>1, <1>2, EndingTyped DEF IInv, Typed, Kept, Abort, tables
<1> QED BY <1>1, <1>2, <1>3, EndingTyped, QuietStep DEF Abort, tables

LEMMA ReturnKeeps ==
    ASSUME IInv, NEW a \in Agents, Return(a)
    PROVE  IInv'
<1>1. Step(a, "idle") /\ task' = [task EXCEPT ![a] = NoTask]
    BY DEF Return
<1>2. Typed' /\ Numbered' /\ Kept
    BY <1>1, EndingTyped DEF IInv, Typed, Numbered, Kept, Return, tables, history
<1> QED BY <1>1, <1>2, EndingTyped, QuietStep DEF Return, tables, history

-----------------------------------------------------------------------------
(* The store.                                                              *)

LEMMA FreshIsFree ==
    ASSUME Submitted # Memories
    PROVE  Fresh \in Memories /\ payload[Fresh] = Null
<1>1. \E m \in Memories : payload[m] = Null
    BY DEF Submitted
<1> QED BY <1>1 DEF Fresh

LEMMA SubmissionTyped ==
    ASSUME IInv, NEW a \in Agents, pc[a] = "storing"
    PROVE  Submission(a) \in Payload /\ Submission(a).author = a /\ Submission(a) # Null
<1>1. task[a].family \in Families /\ task[a].missing \in 0..2
    BY DEF IInv, AtWork, Typed, Task
<1>2. (a \in setting.liars \/ Lenient(task[a].missing)) \in BOOLEAN
    BY DEF Lenient
<1>3. (IF a \in setting.liars THEN 2 ELSE task[a].missing) \in 0..2
    BY <1>1
<1>4. Submission(a) \in Payload /\ Submission(a).author = a
    BY <1>1, <1>2, <1>3 DEF Submission, Payload
<1> QED BY <1>4, FleetAssumption

LEMMA SubmittingKeeps ==
    ASSUME IInv, NEW a \in Agents, pc[a] = "storing", Submitted # Memories,
           payload' = [payload EXCEPT ![Fresh] = Submission(a)]
    PROVE  /\ payload' \in [Memories -> Payload \cup {Null}] /\ Kept
           /\ payload'[Fresh] # Null /\ payload'[Fresh].author = a
BY FreshIsFree, SubmissionTyped DEF IInv, Typed, Kept

\* The store returns, and the reports are to be made.
LEMMA StoredAsTyped ==
    ASSUME IInv, NEW a \in Agents, pc[a] = "storing", NEW m \in Memories, StoredAs(a, m),
           payload'[m] # Null, payload'[m].author = a
    PROVE  /\ task' \in [Agents -> Task]
           /\ pc' \in [Agents -> {"idle", "noting", "solving", "storing", "reporting", "done"}]
           /\ OnlyBy(a) /\ AtWork(a)'
           /\ \A n \in Memories : Pending(n, a)' => Pending(n, a)
<1>1. task[a] \in Task /\ task[a].family \in Families
    BY DEF IInv, Typed, AtWork
<1>2. PICK to \in {"reporting", "done"} :
          /\ Step(a, to)
          /\ \/ task' = [task EXCEPT ![a].own = m, ![a].todo = task[a].got]
             \/ to = "done" /\ task' = [task EXCEPT ![a].own = m]
    BY DEF StoredAs
<1>3. /\ task' \in [Agents -> Task] /\ task'[a].own = m
      /\ task'[a].family = task[a].family
      /\ to = "reporting" => task'[a].todo \subseteq task[a].got
      /\ \A b \in Agents \ {a} : task'[b] = task[b]
    BY <1>1, <1>2 DEF IInv, Typed, Task
<1>4. /\ pc' \in [Agents -> {"idle", "noting", "solving", "storing", "reporting", "done"}]
      /\ pc'[a] = to /\ OnlyBy(a)
    BY <1>2, <1>3 DEF IInv, Typed, Step, OnlyBy
<1>5. AtWork(a)'
    BY <1>1, <1>3, <1>4 DEF AtWork
<1>6. \A n \in Memories : Pending(n, a)' => Pending(n, a)
    BY <1>2, <1>3, <1>4 DEF Pending
<1> QED BY <1>3, <1>4, <1>5, <1>6

LEMMA PublishKeeps ==
    ASSUME IInv, NEW a \in Agents, Publish(a) \/ StoreInProcess(a)
    PROVE  IInv'
<1>1. /\ pc[a] = "storing" /\ Submitted # Memories /\ StoredAs(a, Fresh)
      /\ payload' = [payload EXCEPT ![Fresh] = Submission(a)]
      /\ UNCHANGED <<setting, credit, counted, seen, late, lost>>
    BY DEF Publish, StoreInProcess, tables
<1>2. Fresh \in Memories
    BY <1>1, FreshIsFree
<1>3. /\ payload' \in [Memories -> Payload \cup {Null}] /\ Kept
      /\ payload'[Fresh] # Null /\ payload'[Fresh].author = a
    BY <1>1, SubmittingKeeps
<1>4. Typed' /\ Numbered'
    BY <1>1, <1>2, <1>3, StoredAsTyped DEF IInv, Typed, Numbered
<1> QED BY <1>1, <1>2, <1>3, <1>4, StoredAsTyped, QuietStep

LEMMA PublishUnansweredKeeps ==
    ASSUME IInv, NEW a \in Agents, PublishUnanswered(a)
    PROVE  IInv'
<1>1. /\ pc[a] = "storing" /\ Submitted # Memories
      /\ payload' = [payload EXCEPT ![Fresh] = Submission(a)]
      /\ Step(a, "idle") /\ task' = [task EXCEPT ![a] = NoTask]
      /\ UNCHANGED <<setting, credit, counted, seen, late>> /\ lost' = lost + 1
    BY DEF PublishUnanswered, GoesWrong, tables
<1>2. payload' \in [Memories -> Payload \cup {Null}] /\ Kept
    BY <1>1, SubmittingKeeps
<1>3. lost' \in Nat /\ Numbered'
    BY <1>1, GoesWrongNumbered
<1>4. Typed'
    BY <1>1, <1>2, <1>3, EndingTyped DEF IInv, Typed
<1> QED BY <1>1, <1>2, <1>3, <1>4, EndingTyped, QuietStep

\* The workers touch nothing the invariant speaks of.
LEMMA StillKeeps ==
    ASSUME IInv, UNCHANGED <<setting, payload, credit, counted, seen, late, lost, pc, task>>
    PROVE  IInv'
<1>1. Typed' /\ Numbered'
    BY DEF IInv, Typed, Numbered
<1>2. ASSUME NEW a \in Agents PROVE AtWork(a)'
    BY DEF IInv, AtWork
<1>3. ASSUME NEW m \in Memories, NEW a \in Agents PROVE Covered(m, a)'
    <2>1. (Pending(m, a)' => Pending(m, a)) /\ (Foreign(m, a)' => Foreign(m, a))
        BY DEF Pending, Foreign
    <2> QED BY <1>1, <2>1, QuietKeepsCovered DEF IInv
<1> QED BY <1>1, <1>2, <1>3 DEF IInv

-----------------------------------------------------------------------------
(* The context.                                                            *)

LEMMA PlusAdds ==
    ASSUME NEW f \in Ledger, NEW M \in SUBSET Memories, NEW a \in Agents
    PROVE  /\ Plus(f, M, a) \in Ledger
           /\ \A m \in Memories, b \in Agents : Plus(f, M, a)[<<m, b>>] =
                  IF m \in M /\ b = a THEN f[<<m, b>>] + 1 ELSE f[<<m, b>>]
BY DEF Plus, Ledger

LEMMA RecordInjectionsKeeps ==
    ASSUME IInv, NEW a \in Agents, RecordInjections(a)
    PROVE  IInv'
<1> DEFINE got == task[a].got
<1>1. /\ credit' = Plus(credit, got, a) /\ seen' = Plus(seen, got, a)
      /\ pc[a] = "noting" /\ Step(a, "solving")
      /\ UNCHANGED <<setting, payload, counted, task, late, lost>>
    BY DEF RecordInjections
<1>2. got \in SUBSET Memories /\ credit \in Ledger /\ seen \in Ledger /\ counted \in Ledger
    BY DEF IInv, Typed, Task
<1> HIDE DEF got
<1>3. /\ credit' \in Ledger /\ seen' \in Ledger
      /\ pc' \in [Agents -> {"idle", "noting", "solving", "storing", "reporting", "done"}]
      /\ pc'[a] = "solving" /\ OnlyBy(a) /\ Kept
    BY <1>1, <1>2, PlusAdds DEF IInv, Typed, Step, OnlyBy, Kept
<1>4. Typed' /\ Numbered' /\ AtWork(a)'
    BY <1>1, <1>3 DEF IInv, Typed, Numbered, AtWork
<1>5. ASSUME NEW b \in Agents PROVE AtWork(b)'
    BY <1>3, <1>4, OthersKept
<1>6. ASSUME NEW m \in Memories, NEW b \in Agents PROVE Covered(m, b)'
    <2>1. OnItsWay(m, b)' = OnItsWay(m, b) /\ Foreign(m, b)' = Foreign(m, b)
        BY <1>1 DEF OnItsWay, Foreign
    <2>2. Cardinality(OnItsWay(m, b)) \in Nat /\ Covered(m, b)
        BY OwedTyped DEF IInv
    <2>3. /\ credit[<<m, b>>] \in Nat /\ counted[<<m, b>>] \in Nat /\ seen[<<m, b>>] \in Nat
        BY <1>2 DEF Ledger
    <2>4. CASE m \in got /\ b = a
        <3>1. ~Pending(m, b) /\ Pending(m, b)'
            BY <1>1, <1>3, <2>4 DEF Pending, got
        <3>2. Owed(m, b) = Cardinality(OnItsWay(m, b)) /\ Owed(m, b)' = Owed(m, b) + 1
            BY <2>1, <2>2, <3>1 DEF Owed
        <3>3. credit'[<<m, b>>] = credit[<<m, b>>] + 1 /\ seen'[<<m, b>>] = seen[<<m, b>>] + 1
            BY <1>1, <1>2, <2>4, PlusAdds
        <3> QED BY <1>1, <2>1, <2>2, <2>3, <3>2, <3>3 DEF Covered
    <2>5. CASE ~(m \in got /\ b = a)
        <3>1. Pending(m, b)' => Pending(m, b)
            <4>1. CASE b = a
                BY <1>1, <1>3, <2>5, <4>1 DEF Pending, got
            <4>2. CASE b # a
                BY <1>3, <4>2, OthersKept
            <4> QED BY <4>1, <4>2
        <3>2. Owed(m, b)' <= Owed(m, b) /\ Owed(m, b) \in Nat /\ Owed(m, b)' \in Nat
            BY <2>1, <2>2, <3>1 DEF Owed
        <3>3. credit'[<<m, b>>] = credit[<<m, b>>] /\ seen'[<<m, b>>] = seen[<<m, b>>]
            <4>1. /\ Plus(credit, got, a)[<<m, b>>] = credit[<<m, b>>]
                  /\ Plus(seen, got, a)[<<m, b>>] = seen[<<m, b>>]
                BY <1>2, <2>5, PlusAdds
            <4> QED BY <1>1, <4>1
        <3> QED BY <1>1, <2>1, <2>2, <2>3, <3>2, <3>3 DEF Covered
    <2> QED BY <2>4, <2>5
<1> QED BY <1>4, <1>5, <1>6 DEF IInv

LEMMA ContextFailsKeeps ==
    ASSUME IInv, NEW a \in Agents, ContextFails(a)
    PROVE  IInv'
<1> DEFINE got == task[a].got
<1>1. /\ credit' = credit \/ credit' = Plus(credit, got, a)
      /\ task' = [task EXCEPT ![a].got = {}]
      /\ pc[a] = "noting" /\ Step(a, "solving") /\ lost' = lost + 1
      /\ UNCHANGED <<setting, payload, counted, seen, late>>
    BY DEF ContextFails, GoesWrong, history
<1>2. /\ got \in SUBSET Memories /\ credit \in Ledger /\ seen \in Ledger /\ counted \in Ledger
      /\ task[a] \in Task
    BY DEF IInv, Typed, Task
<1> HIDE DEF got
<1>3. credit' \in Ledger /\ \A m \in Memories, b \in Agents : credit'[<<m, b>>] >= credit[<<m, b>>]
    <2>1. \A m \in Memories, b \in Agents : credit[<<m, b>>] \in Nat
        BY <1>2 DEF Ledger
    <2>2. CASE credit' = credit
        BY <1>2, <2>1, <2>2
    <2>3. CASE credit' = Plus(credit, got, a)
        <3>1. credit' \in Ledger
            <4>1. Plus(credit, got, a) \in Ledger
                BY <1>2, PlusAdds
            <4> QED BY <2>3, <4>1
        <3>2. ASSUME NEW m \in Memories, NEW b \in Agents
              PROVE  credit'[<<m, b>>] >= credit[<<m, b>>]
            <4>1. Plus(credit, got, a)[<<m, b>>] =
                      IF m \in got /\ b = a THEN credit[<<m, b>>] + 1 ELSE credit[<<m, b>>]
                BY <1>2, PlusAdds
            <4>2. credit[<<m, b>>] \in Nat
                BY <2>1
            <4>3. Plus(credit, got, a)[<<m, b>>] >= credit[<<m, b>>]
                BY <4>1, <4>2
            <4> QED BY <2>3, <4>3
        <3> QED BY <3>1, <3>2
    <2> QED BY <1>1, <2>2, <2>3
<1>4. /\ task' \in [Agents -> Task] /\ task'[a].got = {} /\ task'[a].family = task[a].family
      /\ pc' \in [Agents -> {"idle", "noting", "solving", "storing", "reporting", "done"}]
      /\ pc'[a] = "solving" /\ OnlyBy(a) /\ Kept
    BY <1>1, <1>2 DEF IInv, Typed, Task, Step, OnlyBy, Kept
<1>5. lost' \in Nat /\ Numbered'
    BY <1>1, GoesWrongNumbered
<1>6. Typed' /\ AtWork(a)'
    BY <1>1, <1>3, <1>4, <1>5 DEF IInv, Typed, AtWork
<1>7. ASSUME NEW b \in Agents PROVE AtWork(b)'
    BY <1>4, <1>6, OthersKept
<1>8. ASSUME NEW m \in Memories, NEW b \in Agents PROVE Covered(m, b)'
    <2>1. OnItsWay(m, b)' = OnItsWay(m, b) /\ Foreign(m, b)' = Foreign(m, b)
        BY <1>1 DEF OnItsWay, Foreign
    <2>2. Cardinality(OnItsWay(m, b)) \in Nat /\ Covered(m, b)
        BY OwedTyped DEF IInv
    <2>3. Pending(m, b)' => Pending(m, b)
        <3>1. CASE b = a
            BY <1>4, <3>1 DEF Pending
        <3>2. CASE b # a
            BY <1>4, <3>2, OthersKept
        <3> QED BY <3>1, <3>2
    <2>4. Owed(m, b)' <= Owed(m, b) /\ Owed(m, b) \in Nat /\ Owed(m, b)' \in Nat
        BY <2>1, <2>2, <2>3 DEF Owed
    <2>5. /\ credit[<<m, b>>] \in Nat /\ counted[<<m, b>>] \in Nat /\ seen[<<m, b>>] \in Nat
          /\ credit'[<<m, b>>] \in Nat /\ credit'[<<m, b>>] >= credit[<<m, b>>]
        BY <1>2, <1>3 DEF Ledger
    <2> QED BY <1>1, <2>1, <2>2, <2>4, <2>5 DEF Covered
<1> QED BY <1>5, <1>6, <1>7, <1>8 DEF IInv

-----------------------------------------------------------------------------
(* The reports.                                                            *)

\* One memory less to report on.
LEMMA TodoShrinks ==
    ASSUME IInv, NEW a \in Agents, NEW m \in task[a].todo, pc[a] = "reporting",
           task' = [task EXCEPT ![a].todo = @ \ {m}], UNCHANGED <<pc, payload>>
    PROVE  /\ m \in Memories /\ task' \in [Agents -> Task] /\ OnlyBy(a) /\ Kept /\ AtWork(a)'
           /\ Pending(m, a) /\ ~Pending(m, a)'
           /\ \A n \in Memories, b \in Agents : Pending(n, b)' => Pending(n, b)
<1>1. task[a] \in Task /\ AtWork(a)
    BY DEF IInv, Typed
<1>2. /\ task' \in [Agents -> Task] /\ task'[a].todo = task[a].todo \ {m}
      /\ task'[a].family = task[a].family /\ task'[a].own = task[a].own
      /\ task'[a].got = task[a].got
      /\ OnlyBy(a) /\ Kept /\ m \in Memories
    BY <1>1 DEF IInv, Typed, Task, OnlyBy, Kept
<1>3. AtWork(a)'
    BY <1>1, <1>2 DEF AtWork
<1>4. Pending(m, a) /\ ~Pending(m, a)'
    BY <1>2 DEF Pending
<1>5. ASSUME NEW n \in Memories, NEW b \in Agents, Pending(n, b)' PROVE Pending(n, b)
    <2>1. CASE b = a
        BY <1>2, <1>5, <2>1 DEF Pending
    <2>2. CASE b # a
        BY <1>2, <1>5, <2>2, OthersKept
    <2> QED BY <2>1, <2>2
<1> QED BY <1>2, <1>3, <1>4, <1>5

\* The last report is made.
LEMMA ReportingEnds ==
    ASSUME IInv, NEW a \in Agents, pc[a] = "reporting", task[a].todo = {},
           Step(a, "done"), UNCHANGED <<task, payload>>
    PROVE  /\ pc' \in [Agents -> {"idle", "noting", "solving", "storing", "reporting", "done"}]
           /\ OnlyBy(a) /\ Kept /\ AtWork(a)'
           /\ task[a].own \in Memories /\ ~Foreign(task[a].own, a)
           /\ \A n \in Memories, b \in Agents : Pending(n, b)' => Pending(n, b)
<1>1. /\ pc' \in [Agents -> {"idle", "noting", "solving", "storing", "reporting", "done"}]
      /\ pc'[a] = "done" /\ OnlyBy(a) /\ Kept /\ AtWork(a)
    BY DEF IInv, Typed, Step, OnlyBy, Kept
<1>2. AtWork(a)' /\ task[a].own \in Memories /\ ~Foreign(task[a].own, a)
    BY <1>1 DEF AtWork, Foreign
<1>3. ASSUME NEW n \in Memories, NEW b \in Agents, Pending(n, b)' PROVE Pending(n, b)
    <2>1. CASE b = a
        BY <1>1, <1>3, <2>1 DEF Pending
    <2>2. CASE b # a
        BY <1>1, <1>3, <2>2, OthersKept
    <2> QED BY <2>1, <2>2
<1> QED BY <1>1, <1>2, <1>3

\* With the same reports on their way, and no more in the prompts, no more is
\* owed; and one less of a memory that has been reported on.
LEMMA OwedShrinks ==
    ASSUME Typed, UNCHANGED late, NEW n \in Memories, NEW b \in Agents,
           Pending(n, b)' => Pending(n, b)
    PROVE  /\ Owed(n, b)' <= Owed(n, b)
           /\ Pending(n, b) /\ ~Pending(n, b)' => Owed(n, b)' <= Owed(n, b) - 1
<1>1. OnItsWay(n, b)' = OnItsWay(n, b) /\ Cardinality(OnItsWay(n, b)) \in Nat
    BY OwedTyped DEF OnItsWay
<1> QED BY <1>1 DEF Owed

LEMMA ReportReuseKeeps ==
    ASSUME IInv, NEW a \in Agents, NEW m \in task[a].todo, ReportReuse(a, m)
    PROVE  IInv'
<1>1. /\ pc[a] = "reporting" /\ task' = [task EXCEPT ![a].todo = @ \ {m}]
      /\ UNCHANGED <<setting, payload, pc, late, lost, seen>>
    BY DEF ReportReuse, history
<1>2. /\ m \in Memories /\ task' \in [Agents -> Task] /\ OnlyBy(a) /\ Kept /\ AtWork(a)'
      /\ Pending(m, a) /\ ~Pending(m, a)'
      /\ \A n \in Memories, b \in Agents : Pending(n, b)' => Pending(n, b)
    BY <1>1, TodoShrinks
<1>3. CASE UNCHANGED <<credit, counted>>
    <2>1. Typed' /\ Numbered'
        BY <1>1, <1>2, <1>3 DEF IInv, Typed, Numbered
    <2> QED BY <1>1, <1>2, <1>3, <2>1, QuietStep
<1>4. CASE Apply(m, a, Says(a))
    <2>1. Typed' /\ Numbered'
        BY <1>1, <1>2, <1>4, ApplyMovesOne DEF IInv, Typed, Numbered
    <2>2. ASSUME NEW b \in Agents PROVE AtWork(b)'
        BY <1>2, OthersKept
    <2>3. ASSUME NEW n \in Memories, NEW b \in Agents PROVE Covered(n, b)'
        <3>1. /\ Owed(n, b)' <= Owed(n, b)
              /\ n = m /\ b = a => Owed(n, b)' <= Owed(n, b) - 1
            BY <1>1, <1>2, OwedShrinks DEF IInv
        <3> QED BY <1>1, <1>2, <1>4, <2>1, <3>1, ApplyKeepsCovered DEF IInv
    <2> QED BY <2>1, <2>2, <2>3 DEF IInv
<1> QED BY <1>3, <1>4 DEF ReportReuse, tables

LEMMA SelfReportKeeps ==
    ASSUME IInv, NEW a \in Agents, SelfReport(a)
    PROVE  IInv'
<1>1. /\ pc[a] = "reporting" /\ task[a].todo = {} /\ Step(a, "done")
      /\ UNCHANGED <<setting, payload, task, late, lost, seen>>
    BY DEF SelfReport, history
<1>2. /\ pc' \in [Agents -> {"idle", "noting", "solving", "storing", "reporting", "done"}]
      /\ OnlyBy(a) /\ Kept /\ AtWork(a)'
      /\ task[a].own \in Memories /\ ~Foreign(task[a].own, a)
      /\ \A n \in Memories, b \in Agents : Pending(n, b)' => Pending(n, b)
    BY <1>1, ReportingEnds
<1>3. CASE UNCHANGED <<credit, counted>>
    <2>1. Typed' /\ Numbered'
        BY <1>1, <1>2, <1>3 DEF IInv, Typed, Numbered
    <2> QED BY <1>1, <1>2, <1>3, <2>1, QuietStep
<1>4. CASE Apply(task[a].own, a, FALSE)
    <2>1. UNCHANGED <<credit, counted>>
        BY <1>2, <1>4, ApplyMovesOne DEF IInv
    <2> QED BY <1>3, <2>1
<1> QED BY <1>3, <1>4 DEF SelfReport, tables

\* A report that is given up is a report, with a number of its own.
LEMMA MayArriveTyped ==
    ASSUME IInv, NEW m \in Memories, NEW a \in Agents, NEW ok \in BOOLEAN,
           MayArrive(m, a, ok), lost' = lost + 1
    PROVE  /\ late' \subseteq Report /\ IsFiniteSet(late') /\ lost' \in Nat /\ Numbered'
<1> DEFINE r == [mem |-> m, by |-> a, ok |-> ok, nr |-> lost]
<1>1. late' = late \/ late' = late \cup {r}
    BY DEF MayArrive
<1>2. lost \in Nat /\ late \subseteq Report /\ IsFiniteSet(late)
    BY DEF IInv, Typed
<1>3. r \in Report /\ r.nr = lost
    BY <1>2 DEF Report
<1> HIDE DEF r
<1>4. \A q \in late : q.nr \in Nat /\ q.nr < lost
    BY <1>2 DEF IInv, Numbered, Report
<1>5. IsFiniteSet(late \cup {r})
    BY <1>2, FS_AddElement
<1>6. late' \subseteq Report /\ IsFiniteSet(late') /\ lost' \in Nat
    <2>1. CASE late' = late
        BY <1>2, <2>1
    <2>2. CASE late' = late \cup {r}
        BY <1>2, <1>3, <1>5, <2>2
    <2> QED BY <1>1, <2>1, <2>2
<1>7. Numbered'
    BY <1>1, <1>2, <1>3, <1>4 DEF Numbered
<1> QED BY <1>6, <1>7

LEMMA ReportFailsKeeps ==
    ASSUME IInv, NEW a \in Agents, NEW m \in task[a].todo, ReportFails(a, m)
    PROVE  IInv'
<1>1. /\ pc[a] = "reporting" /\ task' = [task EXCEPT ![a].todo = @ \ {m}]
      /\ MayArrive(m, a, Says(a)) /\ lost' = lost + 1
      /\ UNCHANGED <<setting, payload, pc, credit, counted, seen>>
    BY DEF ReportFails, GoesWrong, history, tables
<1>2. /\ m \in Memories /\ task' \in [Agents -> Task] /\ OnlyBy(a) /\ Kept /\ AtWork(a)'
      /\ Pending(m, a) /\ ~Pending(m, a)'
      /\ \A n \in Memories, b \in Agents : Pending(n, b)' => Pending(n, b)
    BY <1>1, TodoShrinks
<1>3. Says(a) \in BOOLEAN
    BY DEF Says, Strict
<1>4. Typed' /\ Numbered'
    BY <1>1, <1>2, <1>3, MayArriveTyped DEF IInv, Typed
<1>5. ASSUME NEW b \in Agents PROVE AtWork(b)'
    BY <1>2, OthersKept
<1>6. ASSUME NEW n \in Memories, NEW b \in Agents PROVE Covered(n, b)'
    <2>1. /\ Cardinality(OnItsWay(n, b)) \in Nat /\ Covered(n, b)
          /\ Owed(n, b) = Cardinality(OnItsWay(n, b)) + (IF Pending(n, b) THEN 1 ELSE 0)
        BY OwedTyped DEF IInv
    <2>2. /\ n = m /\ b = a => Cardinality(OnItsWay(n, b)') <= Cardinality(OnItsWay(n, b)) + 1
          /\ ~(n = m /\ b = a) => OnItsWay(n, b)' = OnItsWay(n, b)
          /\ Cardinality(OnItsWay(n, b)') \in Nat
        BY <1>1, <1>2, MayArriveAddsOne DEF IInv
    <2>3. Owed(n, b)' = Cardinality(OnItsWay(n, b)') + (IF Pending(n, b)' THEN 1 ELSE 0)
        BY DEF Owed
    <2>4. Owed(n, b)' <= Owed(n, b) /\ Owed(n, b)' \in Nat /\ Owed(n, b) \in Nat
        <3>1. CASE n = m /\ b = a
            BY <1>2, <2>1, <2>2, <2>3, <3>1
        <3>2. CASE ~(n = m /\ b = a)
            BY <1>2, <2>1, <2>2, <2>3, <3>2
        <3> QED BY <3>1, <3>2
    <2>5. credit[<<n, b>>] \in Nat /\ counted[<<n, b>>] \in Nat /\ seen[<<n, b>>] \in Nat
        BY DEF IInv, Typed, Ledger
    <2>6. Foreign(n, b)' = Foreign(n, b)
        BY <1>1 DEF Foreign
    <2> QED BY <1>1, <2>1, <2>4, <2>5, <2>6 DEF Covered
<1> QED BY <1>4, <1>5, <1>6 DEF IInv

LEMMA SelfReportFailsKeeps ==
    ASSUME IInv, NEW a \in Agents, SelfReportFails(a)
    PROVE  IInv'
<1> DEFINE own == task[a].own
<1>1. /\ pc[a] = "reporting" /\ task[a].todo = {} /\ Step(a, "done")
      /\ MayArrive(own, a, FALSE) /\ lost' = lost + 1
      /\ UNCHANGED <<setting, payload, task, credit, counted, seen>>
    BY DEF SelfReportFails, GoesWrong, history, tables
<1>2. /\ pc' \in [Agents -> {"idle", "noting", "solving", "storing", "reporting", "done"}]
      /\ OnlyBy(a) /\ Kept /\ AtWork(a)' /\ own \in Memories /\ ~Foreign(own, a)
      /\ \A n \in Memories, b \in Agents : Pending(n, b)' => Pending(n, b)
    BY <1>1, ReportingEnds
<1> HIDE DEF own
<1>3. Typed' /\ Numbered'
    BY <1>1, <1>2, MayArriveTyped DEF IInv, Typed
<1>4. ASSUME NEW b \in Agents PROVE AtWork(b)'
    BY <1>2, OthersKept
<1>5. ASSUME NEW n \in Memories, NEW b \in Agents PROVE Covered(n, b)'
    <2>1. Foreign(n, b)' = Foreign(n, b)
        BY <1>1 DEF Foreign
    <2>2. CASE n = own /\ b = a
        BY <1>2, <2>1, <2>2 DEF Covered
    <2>3. CASE ~(n = own /\ b = a)
        <3>1. OnItsWay(n, b)' = OnItsWay(n, b) /\ Cardinality(OnItsWay(n, b)) \in Nat
            BY <1>1, <1>2, <2>3, MayArriveAddsOne, OwedTyped DEF IInv
        <3>2. Owed(n, b)' <= Owed(n, b) /\ Owed(n, b)' \in Nat /\ Owed(n, b) \in Nat
            BY <1>2, <3>1 DEF Owed
        <3>3. credit[<<n, b>>] \in Nat /\ counted[<<n, b>>] \in Nat /\ seen[<<n, b>>] \in Nat
            BY DEF IInv, Typed, Ledger
        <3>4. Covered(n, b)
            BY DEF IInv
        <3> QED BY <1>1, <2>1, <3>2, <3>3, <3>4 DEF Covered
    <2> QED BY <2>2, <2>3
<1> QED BY <1>3, <1>4, <1>5 DEF IInv

LEMMA ArriveKeeps ==
    ASSUME IInv, NEW r \in late, Arrive(r)
    PROVE  IInv'
<1>1. /\ late' = late \ {r} /\ Apply(r.mem, r.by, r.ok)
      /\ UNCHANGED <<setting, payload, pc, task, lost, seen>>
    BY DEF Arrive, agents, history
<1>2. r.mem \in Memories /\ r.by \in Agents
    BY DEF IInv, Typed, Report
<1>3. Typed' /\ Numbered'
    <2>1. credit' \in Ledger /\ counted' \in Ledger
        BY <1>1, <1>2, ApplyMovesOne DEF IInv
    <2>2. late' \subseteq Report /\ IsFiniteSet(late')
        BY <1>1, FS_RemoveElement DEF IInv, Typed
    <2> QED BY <1>1, <2>1, <2>2 DEF IInv, Typed, Numbered
<1>4. ASSUME NEW b \in Agents PROVE AtWork(b)'
    BY <1>1 DEF IInv, AtWork
<1>5. ASSUME NEW n \in Memories, NEW b \in Agents PROVE Covered(n, b)'
    <2>1. Cardinality(OnItsWay(n, b)) \in Nat /\ Pending(n, b)' = Pending(n, b)
        BY <1>1, OwedTyped DEF IInv, Pending
    <2>2. /\ n = r.mem /\ b = r.by =>
                 Cardinality(OnItsWay(n, b)') = Cardinality(OnItsWay(n, b)) - 1
          /\ ~(n = r.mem /\ b = r.by) => OnItsWay(n, b)' = OnItsWay(n, b)
        BY <1>1, ArrivalTakesOne DEF IInv
    <2>3. /\ Owed(n, b)' <= Owed(n, b)
          /\ n = r.mem /\ b = r.by => Owed(n, b)' <= Owed(n, b) - 1
        <3>1. CASE n = r.mem /\ b = r.by
            BY <2>1, <2>2, <3>1 DEF Owed
        <3>2. CASE ~(n = r.mem /\ b = r.by)
            BY <2>1, <2>2, <3>2 DEF Owed
        <3> QED BY <3>1, <3>2
    <2> QED BY <1>1, <1>2, <1>3, <2>3, ApplyKeepsCovered DEF IInv
<1> QED BY <1>3, <1>4, <1>5 DEF IInv

-----------------------------------------------------------------------------
(* The theorem.                                                            *)

\* At first nothing is in a prompt, and nothing is owed.
LEMMA InitCovered == Init => IInv
<1> SUFFICES ASSUME Init PROVE IInv
    OBVIOUS
<1>1. NoTask \in Task
    BY DEF NoTask, NewTask, Task
<1>2. Typed /\ Numbered
    BY <1>1, FleetAssumption, FS_EmptySet DEF Init, Typed, Numbered, Ledger
<1>3. ASSUME NEW a \in Agents PROVE AtWork(a)
    BY DEF Init, AtWork
<1>4. ASSUME NEW m \in Memories, NEW a \in Agents PROVE Covered(m, a)
    <2>1. OnItsWay(m, a) = {} /\ ~Pending(m, a)
        BY DEF Init, OnItsWay, Pending
    <2>2. Owed(m, a) = 0
        BY <2>1, FS_EmptySet DEF Owed
    <2>3. credit[<<m, a>>] = 0 /\ counted[<<m, a>>] = 0 /\ seen[<<m, a>>] = 0
        BY DEF Init
    <2> QED BY <2>2, <2>3 DEF Covered
<1> QED BY <1>2, <1>3, <1>4 DEF IInv

\* Every step of the fleet keeps everything covered.
LEMMA NextKeepsCovered == IInv /\ [Next]_vars => IInv'
<1> SUFFICES ASSUME IInv, [Next]_vars PROVE IInv'
    OBVIOUS
<1>1. CASE Background
    <2>1. ASSUME NEW m \in Memories, Enrich(m) \/ Insert(m) PROVE IInv'
        BY <2>1, StillKeeps DEF Enrich, Insert, tables, agents, history
    <2> QED BY <1>1, <2>1, ArriveKeeps DEF Background
<1>2. ASSUME NEW a \in setting.agents, RunTask(a) PROVE IInv'
    <2>1. a \in Agents
        BY DEF IInv, Typed, Setting
    <2> QED BY <1>2, <2>1, BeginKeeps, RecordInjectionsKeeps, ContextFailsKeeps, SolveKeeps,
               AbortKeeps, PublishKeeps, PublishUnansweredKeeps, SelfReportKeeps,
               SelfReportFailsKeeps, ReportReuseKeeps, ReportFailsKeeps DEF RunTask
<1>3. ASSUME NEW a \in setting.agents, Return(a) PROVE IInv'
    BY <1>3, ReturnKeeps DEF IInv, Typed, Setting
<1>4. CASE UNCHANGED vars
    BY <1>4, StillKeeps DEF vars, tables, agents, history
<1> QED BY <1>1, <1>2, <1>3, <1>4 DEF Next

\* Whatever is lost or late, in fleets of any size: what the peers of an author
\* report counts at most once for each time the memory was in their prompt, and
\* every report that is still to come finds its injection unspent.
THEOREM CreditIsSound == Spec => []CreditMatchesUse
<1>1. IInv => CreditMatchesUse
    BY DEF IInv, Covered, Foreign, CreditMatchesUse, Submitted, AuthorOf
<1> QED BY <1>1, InitCovered, NextKeepsCovered, PTL DEF Spec

-----------------------------------------------------------------------------
(* The confidence floor.                                                   *)

\* An agent reports only on what was in its prompt, once it has answered.
Prompted(a) ==
    /\ task[a].todo \subseteq task[a].got
    /\ pc[a] = "noting" => task[a].todo = {}

\* Only what has been submitted is read for, or stored.
StoredIsSubmitted ==
    /\ experiences = [m \in Memories |-> experiences[m]]
    /\ evidence = [m \in Memories |-> evidence[m]]
    /\ \A m \in Memories : experiences[m] # Null \/ evidence[m] # Null => payload[m] # Null

Traced == IInv /\ StoredIsSubmitted /\ \A a \in Agents : Prompted(a)

StaysOutOfSight(m) == experiences'[m] = experiences[m] /\ OutOfSight(m)'

\* What an agent has to leave alone in a step of its own.
LEMMA AgentStep ==
    ASSUME Traced, IInv', StoredIsSubmitted', NEW a \in Agents, OnlyBy(a), Prompted(a)',
           \A m \in Memories : OutOfSight(m) =>
               /\ experiences'[m] = experiences[m]
               /\ m \notin task'[a].got /\ m # task'[a].own
               /\ \A r \in late' : r.mem # m
    PROVE  Traced' /\ \A m \in Memories : OutOfSight(m) => StaysOutOfSight(m)
<1>1. ASSUME NEW b \in Agents PROVE Prompted(b)'
    <2>1. CASE b = a
        BY <2>1
    <2>2. CASE b # a
        BY <2>2 DEF Traced, Prompted, OnlyBy
    <2> QED BY <2>1, <2>2
<1>2. ASSUME NEW m \in Memories, OutOfSight(m) PROVE StaysOutOfSight(m)
    <2>1. \A b \in Agents : m \notin task'[b].got /\ m # task'[b].own
        BY <1>2 DEF OnlyBy, OutOfSight
    <2> QED BY <1>2, <2>1 DEF StaysOutOfSight, OutOfSight, Stored
<1> QED BY <1>1, <1>2 DEF Traced

\* A report on a memory leaves all others as they were.
LEMMA ApplyTouchesOne ==
    ASSUME StoredIsSubmitted, NEW m \in Memories, NEW a, NEW ok, Apply(m, a, ok),
           UNCHANGED <<evidence, payload>>
    PROVE  /\ StoredIsSubmitted'
           /\ \A n \in Memories \ {m} : experiences'[n] = experiences[n]
<1>1. CASE experiences' = experiences
    BY <1>1 DEF StoredIsSubmitted
<1>2. CASE experiences' = [experiences EXCEPT ![m] = AfterReport(@, ok)] /\ Stored(m)
    BY <1>2 DEF StoredIsSubmitted, Stored
<1> QED BY <1>1, <1>2 DEF Apply, tables

\* No agent begins a task with a memory that is below the floor.
LEMMA PromptTraced ==
    ASSUME Traced, IInv', NEW a \in Agents,
           \/ \E f \in setting.families : Begin(a, f)
           \/ RecordInjections(a) \/ ContextFails(a) \/ Solve(a) \/ Abort(a) \/ Return(a)
    PROVE  Traced' /\ \A m \in Memories : OutOfSight(m) => StaysOutOfSight(m)
<1>1. task[a] \in Task /\ task \in [Agents -> Task] /\ pc \in [Agents -> {"idle", "noting", "solving", "storing", "reporting", "done"}] /\ Prompted(a)
    BY DEF Traced, IInv, Typed
<1>2. UNCHANGED <<payload, evidence, experiences, late>>
    BY DEF Begin, RecordInjections, ContextFails, Solve, Abort, Return, tables, history
<1>3. StoredIsSubmitted'
    BY <1>2 DEF Traced, StoredIsSubmitted
<1>4. ASSUME NEW m \in Memories, OutOfSight(m)
      PROVE  experiences'[m] = experiences[m] /\ \A r \in late' : r.mem # m
    BY <1>2, <1>4 DEF OutOfSight
<1>5. CASE \E f \in setting.families : Begin(a, f)
    <2>1. PICK f \in setting.families, picked \in Picks(a) :
              /\ task' = [task EXCEPT ![a] = NewTask(f, picked)]
              /\ Step(a, IF picked = {} THEN "solving" ELSE "noting")
        BY <1>5 DEF Begin
    <2>2. OnlyBy(a) /\ task'[a] = NewTask(f, picked)
        BY <1>1, <2>1 DEF OnlyBy, Step
    <2>3. Prompted(a)'
        BY <2>2 DEF Prompted, NewTask
    <2>4. ASSUME NEW m \in Memories, OutOfSight(m)
          PROVE  m \notin task'[a].got /\ m # task'[a].own
        <3>1. ~Retrievable(m, a)
            BY <2>4 DEF OutOfSight, Retrievable
        <3> QED BY <2>1, <2>2, <3>1, FleetAssumption DEF Picks, NewTask
    <2> QED BY <1>3, <1>4, <2>2, <2>3, <2>4, AgentStep
<1>6. CASE RecordInjections(a) \/ Solve(a)
    <2>1. /\ OnlyBy(a) /\ task'[a].todo = task[a].todo /\ task'[a].got = task[a].got
          /\ task'[a].own = task[a].own /\ pc'[a] # "noting"
        <3>1. CASE RecordInjections(a)
            BY <1>1, <3>1 DEF RecordInjections, Step, OnlyBy
        <3>2. CASE Solve(a)
            BY <1>1, <3>2 DEF Solve, Step, OnlyBy, Task
        <3> QED BY <1>6, <3>1, <3>2
    <2>2. Prompted(a)'
        BY <1>1, <2>1 DEF Prompted
    <2>3. \A m \in Memories : OutOfSight(m) => m \notin task'[a].got /\ m # task'[a].own
        BY <2>1 DEF OutOfSight
    <2> QED BY <1>3, <1>4, <2>1, <2>2, <2>3, AgentStep
<1>7. CASE ContextFails(a)
    <2>1. /\ OnlyBy(a) /\ task'[a].todo = task[a].todo /\ task'[a].got = {}
          /\ task'[a].own = task[a].own /\ pc[a] = "noting"
        BY <1>1, <1>7 DEF ContextFails, Step, OnlyBy, Task
    <2>2. Prompted(a)'
        BY <1>1, <2>1 DEF Prompted
    <2>3. \A m \in Memories : OutOfSight(m) => m \notin task'[a].got /\ m # task'[a].own
        BY <2>1 DEF OutOfSight
    <2> QED BY <1>3, <1>4, <2>1, <2>2, <2>3, AgentStep
<1>8. CASE Abort(a) \/ Return(a)
    <2>1. OnlyBy(a) /\ task'[a] = NoTask
        BY <1>1, <1>8 DEF Abort, Return, Step, OnlyBy
    <2>2. Prompted(a)'
        BY <2>1 DEF Prompted, NoTask, NewTask
    <2>3. \A m \in Memories : m \notin task'[a].got /\ m # task'[a].own
        BY <2>1, FleetAssumption DEF NoTask, NewTask
    <2> QED BY <1>3, <1>4, <2>1, <2>2, <2>3, AgentStep
<1> QED BY <1>5, <1>6, <1>7, <1>8

\* What is stored anew is not one of the stored.
LEMMA StoreTraced ==
    ASSUME Traced, IInv', NEW a \in Agents,
           Publish(a) \/ PublishUnanswered(a) \/ StoreInProcess(a)
    PROVE  Traced' /\ \A m \in Memories : OutOfSight(m) => StaysOutOfSight(m)
<1>1. task[a] \in Task /\ task \in [Agents -> Task] /\ pc \in [Agents -> {"idle", "noting", "solving", "storing", "reporting", "done"}] /\ Prompted(a)
    BY DEF Traced, IInv, Typed
<1>2. /\ pc[a] = "storing" /\ Submitted # Memories /\ late' = late
      /\ payload' = [payload EXCEPT ![Fresh] = Submission(a)]
      /\ \/ StoredAs(a, Fresh)
         \/ Step(a, "idle") /\ task' = [task EXCEPT ![a] = NoTask]
      /\ \/ UNCHANGED <<experiences, evidence>>
         \/ /\ evidence' = [evidence EXCEPT ![Fresh] = Reputation(a)]
            /\ experiences' = [experiences EXCEPT ![Fresh] = EntryRow(Submission(a), Reputation(a))]
    BY DEF Publish, PublishUnanswered, StoreInProcess, tables
<1>3. Fresh \in Memories /\ payload[Fresh] = Null /\ Submission(a) # Null
    BY <1>2, FreshIsFree, SubmissionTyped DEF Traced
<1>4. payload \in [Memories -> Payload \cup {Null}] /\ StoredIsSubmitted
    BY DEF Traced, IInv, Typed
<1>5. StoredIsSubmitted' /\ \A m \in Memories \ {Fresh} : experiences'[m] = experiences[m]
    <2>1. \A m \in Memories : payload'[m] = IF m = Fresh THEN Submission(a) ELSE payload[m]
        BY <1>2, <1>4
    <2>2. CASE UNCHANGED <<experiences, evidence>>
        BY <1>3, <1>4, <2>1, <2>2 DEF StoredIsSubmitted
    <2>3. CASE /\ evidence' = [evidence EXCEPT ![Fresh] = Reputation(a)]
               /\ experiences' =
                      [experiences EXCEPT ![Fresh] = EntryRow(Submission(a), Reputation(a))]
        BY <1>3, <1>4, <2>1, <2>3 DEF StoredIsSubmitted
    <2> QED BY <1>2, <2>2, <2>3
<1>6. /\ OnlyBy(a) /\ Prompted(a)' /\ task'[a].got \subseteq task[a].got
      /\ task'[a].own \in {Fresh, Null}
    <2>1. CASE Step(a, "idle") /\ task' = [task EXCEPT ![a] = NoTask]
        BY <1>1, <2>1 DEF Step, OnlyBy, Prompted, NoTask, NewTask
    <2>2. CASE StoredAs(a, Fresh)
        <3>1. CASE /\ Step(a, "reporting")
                   /\ task' = [task EXCEPT ![a].own = Fresh, ![a].todo = task[a].got]
            <4>1. /\ task'[a].got = task[a].got /\ task'[a].own = Fresh
                  /\ task'[a].todo = task[a].got /\ OnlyBy(a) /\ pc'[a] = "reporting"
                BY <1>1, <3>1 DEF Step, OnlyBy, Task
            <4> QED BY <4>1 DEF Prompted
        <3>2. CASE /\ Step(a, "done")
                   /\ task' = [task EXCEPT ![a].own = Fresh]
            <4>1. /\ task'[a].got = task[a].got /\ task'[a].own = Fresh
                  /\ task'[a].todo = task[a].todo /\ OnlyBy(a) /\ pc'[a] = "done"
                BY <1>1, <3>2 DEF Step, OnlyBy, Task
            <4> QED BY <1>1, <4>1 DEF Prompted
        <3> QED BY <2>2, <3>1, <3>2 DEF StoredAs
    <2> QED BY <1>2, <2>1, <2>2
<1>7. ASSUME NEW m \in Memories, OutOfSight(m)
      PROVE  /\ experiences'[m] = experiences[m]
             /\ m \notin task'[a].got /\ m # task'[a].own
             /\ \A r \in late' : r.mem # m
    <2>1. m # Fresh /\ m # Null
        BY <1>3, <1>4, <1>7, FleetAssumption DEF OutOfSight, Stored, StoredIsSubmitted
    <2> QED BY <1>2, <1>5, <1>6, <1>7, <2>1 DEF OutOfSight
<1> QED BY <1>5, <1>6, <1>7, AgentStep

\* Reports are only on what an agent was given or has written in its task.
LEMMA ReportTraced ==
    ASSUME Traced, IInv', NEW a \in Agents,
           \/ SelfReport(a) \/ SelfReportFails(a)
           \/ \E m \in task[a].todo : ReportReuse(a, m) \/ ReportFails(a, m)
    PROVE  Traced' /\ \A m \in Memories : OutOfSight(m) => StaysOutOfSight(m)
<1>1. /\ task[a] \in Task /\ task \in [Agents -> Task] /\ Prompted(a) /\ StoredIsSubmitted
      /\ pc \in [Agents -> {"idle", "noting", "solving", "storing", "reporting", "done"}] /\ AtWork(a)
    BY DEF Traced, IInv, Typed
<1>2. CASE SelfReport(a) \/ SelfReportFails(a)
    <2> DEFINE own == task[a].own
    <2>1. /\ own \in Memories /\ UNCHANGED <<task, evidence, payload>> /\ Step(a, "done")
        BY <1>1, <1>2 DEF SelfReport, SelfReportFails, AtWork, history
    <2>2. OnlyBy(a) /\ Prompted(a)'
        BY <1>1, <2>1 DEF OnlyBy, Step, Prompted
    <2>3. /\ StoredIsSubmitted' /\ \A n \in Memories \ {own} : experiences'[n] = experiences[n]
          /\ \A r \in late' : r \in late \/ r.mem = own
        <3>1. CASE UNCHANGED tables /\ late' = late
            BY <1>1, <2>1, <3>1 DEF StoredIsSubmitted, tables
        <3>2. CASE Apply(own, a, FALSE) /\ late' = late
            BY <1>1, <2>1, <3>2, ApplyTouchesOne
        <3>3. CASE UNCHANGED tables /\ MayArrive(own, a, FALSE)
            BY <1>1, <2>1, <3>3 DEF StoredIsSubmitted, tables, MayArrive
        <3> QED BY <1>2, <3>1, <3>2, <3>3 DEF SelfReport, SelfReportFails
    <2>4. ASSUME NEW m \in Memories, OutOfSight(m)
          PROVE  /\ experiences'[m] = experiences[m]
                 /\ m \notin task'[a].got /\ m # task'[a].own
                 /\ \A r \in late' : r.mem # m
        BY <2>1, <2>3, <2>4 DEF OutOfSight
    <2> QED BY <2>2, <2>3, <2>4, AgentStep
<1>3. ASSUME NEW k \in task[a].todo, ReportReuse(a, k) \/ ReportFails(a, k)
      PROVE  Traced' /\ \A m \in Memories : OutOfSight(m) => StaysOutOfSight(m)
    <2>1. /\ k \in Memories /\ k \in task[a].got /\ UNCHANGED <<pc, evidence, payload>>
          /\ task' = [task EXCEPT ![a].todo = @ \ {k}]
        BY <1>1, <1>3 DEF ReportReuse, ReportFails, Prompted, Task, history
    <2>2. /\ OnlyBy(a) /\ task'[a].todo = task[a].todo \ {k}
          /\ task'[a].got = task[a].got /\ task'[a].own = task[a].own
        BY <1>1, <2>1 DEF OnlyBy, Task
    <2>3. Prompted(a)'
        BY <1>1, <2>1, <2>2 DEF Prompted
    <2>4. /\ StoredIsSubmitted' /\ \A n \in Memories \ {k} : experiences'[n] = experiences[n]
          /\ \A r \in late' : r \in late \/ r.mem = k
        <3>1. CASE UNCHANGED tables /\ late' = late
            BY <1>1, <2>1, <3>1 DEF StoredIsSubmitted, tables
        <3>2. CASE Apply(k, a, Says(a)) /\ late' = late
            BY <1>1, <2>1, <3>2, ApplyTouchesOne
        <3>3. CASE UNCHANGED tables /\ MayArrive(k, a, Says(a))
            BY <1>1, <2>1, <3>3 DEF StoredIsSubmitted, tables, MayArrive
        <3> QED BY <1>3, <3>1, <3>2, <3>3 DEF ReportReuse, ReportFails
    <2>5. ASSUME NEW m \in Memories, OutOfSight(m)
          PROVE  /\ experiences'[m] = experiences[m]
                 /\ m \notin task'[a].got /\ m # task'[a].own
                 /\ \A r \in late' : r.mem # m
        BY <2>1, <2>2, <2>4, <2>5 DEF OutOfSight
    <2> QED BY <2>2, <2>3, <2>4, <2>5, AgentStep
<1> QED BY <1>2, <1>3

\* The workers and the late reports.
LEMMA BackgroundTraced ==
    ASSUME Traced, IInv', Background \/ UNCHANGED vars
    PROVE  Traced' /\ \A m \in Memories : OutOfSight(m) => StaysOutOfSight(m)
<1>1. StoredIsSubmitted /\ payload \in [Memories -> Payload \cup {Null}] /\ late \subseteq Report
    BY DEF Traced, IInv, Typed
<1>2. UNCHANGED <<payload, pc, task>> /\ late' \subseteq late
    <2>1. CASE UNCHANGED vars
        BY <2>1 DEF vars, agents
    <2>2. ASSUME NEW m \in Memories, Enrich(m) \/ Insert(m)
          PROVE  UNCHANGED <<payload, pc, task>> /\ late' \subseteq late
        BY <2>2 DEF Enrich, Insert, agents
    <2>3. ASSUME NEW r \in late, Arrive(r)
          PROVE  UNCHANGED <<payload, pc, task>> /\ late' \subseteq late
        BY <2>3 DEF Arrive, agents
    <2> QED BY <2>1, <2>2, <2>3 DEF Background
<1>3. /\ StoredIsSubmitted'
      /\ \A n \in Memories : OutOfSight(n) => experiences'[n] = experiences[n]
    <2>1. CASE UNCHANGED vars
        BY <1>1, <2>1 DEF vars, tables, StoredIsSubmitted
    <2>2. ASSUME NEW m \in Memories, Enrich(m)
          PROVE  /\ StoredIsSubmitted'
                 /\ \A n \in Memories : OutOfSight(n) => experiences'[n] = experiences[n]
        <3>1. /\ payload' = payload /\ experiences' = experiences /\ payload[m] # Null
              /\ evidence' = [evidence EXCEPT ![m] = Reputation(AuthorOf(m))]
            BY <2>2 DEF Enrich, tables
        <3> QED BY <1>1, <3>1 DEF StoredIsSubmitted
    <2>3. ASSUME NEW m \in Memories, Insert(m)
          PROVE  /\ StoredIsSubmitted'
                 /\ \A n \in Memories : OutOfSight(n) => experiences'[n] = experiences[n]
        <3>1. /\ payload' = payload /\ evidence' = evidence /\ evidence[m] # Null /\ ~Stored(m)
              /\ experiences' = [experiences EXCEPT ![m] = EntryRow(payload[m], evidence[m])]
            BY <2>3 DEF Insert
        <3>2. StoredIsSubmitted'
            BY <1>1, <3>1 DEF StoredIsSubmitted
        <3>3. ASSUME NEW n \in Memories, OutOfSight(n) PROVE experiences'[n] = experiences[n]
            BY <1>1, <3>1, <3>3 DEF OutOfSight, Stored, StoredIsSubmitted
        <3> QED BY <3>2, <3>3
    <2>4. ASSUME NEW r \in late, Arrive(r)
          PROVE  /\ StoredIsSubmitted'
                 /\ \A n \in Memories : OutOfSight(n) => experiences'[n] = experiences[n]
        <3>1. /\ r.mem \in Memories /\ Apply(r.mem, r.by, r.ok) /\ UNCHANGED <<evidence, payload>>
            BY <1>1, <2>4 DEF Arrive, Report
        <3>2. /\ StoredIsSubmitted'
              /\ \A n \in Memories \ {r.mem} : experiences'[n] = experiences[n]
            BY <1>1, <3>1, ApplyTouchesOne
        <3>3. \A n \in Memories : OutOfSight(n) => n # r.mem
            BY <2>4 DEF OutOfSight
        <3> QED BY <3>2, <3>3
    <2> QED BY <2>1, <2>2, <2>3, <2>4 DEF Background
<1>4. ASSUME NEW b \in Agents PROVE Prompted(b)'
    BY <1>2 DEF Traced, Prompted
<1>5. ASSUME NEW m \in Memories, OutOfSight(m) PROVE StaysOutOfSight(m)
    BY <1>2, <1>3, <1>5 DEF StaysOutOfSight, OutOfSight, Stored
<1> QED BY <1>3, <1>4, <1>5 DEF Traced

\* Every step leaves what is out of sight where it is.
LEMMA NextTraced ==
    ASSUME Traced, [Next]_vars
    PROVE  Traced' /\ \A m \in Memories : OutOfSight(m) => StaysOutOfSight(m)
<1>1. IInv'
    BY NextKeepsCovered DEF Traced
<1>2. \A a \in setting.agents : a \in Agents
    BY DEF Traced, IInv, Typed, Setting
<1>3. CASE Background \/ UNCHANGED vars
    BY <1>1, <1>3, BackgroundTraced
<1>4. ASSUME NEW a \in setting.agents, RunTask(a) \/ Return(a)
      PROVE  Traced' /\ \A m \in Memories : OutOfSight(m) => StaysOutOfSight(m)
    BY <1>1, <1>2, <1>4, PromptTraced, StoreTraced, ReportTraced DEF RunTask
<1> QED BY <1>3, <1>4 DEF Next

LEMMA InitTraced == Init => Traced
<1> SUFFICES ASSUME Init PROVE Traced
    OBVIOUS
<1>1. StoredIsSubmitted
    BY DEF Init, StoredIsSubmitted
<1>2. ASSUME NEW a \in Agents PROVE Prompted(a)
    BY DEF Init, Prompted, NoTask, NewTask
<1> QED BY <1>1, <1>2, InitCovered DEF Traced

\* The confidence floor has no way back: once nobody is at a task with a memory
\* below it, or on it, that memory is never used, judged or moved again.
THEOREM OutOfSightStays == Spec => OutOfSightIsFinal
<1>1. Traced /\ [Next]_vars =>
          [\A m \in Memories : OutOfSight(m) =>
              experiences'[m] = experiences[m] /\ OutOfSight(m)']_vars
    BY NextTraced DEF StaysOutOfSight
<1>2. Traced /\ [Next]_vars => Traced'
    BY NextTraced
<1> QED BY <1>1, <1>2, InitTraced, PTL DEF Spec, OutOfSightIsFinal

-----------------------------------------------------------------------------
(* What a tier is worth.                                                   *)

\* a solved a task with m in its prompt, or lies and was given m.
Reason(m, a) ==
    \/ <<m, a>> \in helped
    \/ a \in setting.liars /\ seen[<<m, a>>] > 0

\* The successes of a memory are those of peers that had a reason.
Backed(m) ==
    Stored(m) =>
        /\ experiences[m].tier \in Tier
        /\ experiences[m].n \in Nat /\ experiences[m].s \in Nat
        /\ FleetVisible(experiences[m].tier) => experiences[m].s # 0
        /\ experiences[m].s # 0 => \E a \in Agents \ {AuthorOf(m)} : Reason(m, a)

\* What an agent has solved helped it, up to its last report; and so did what a
\* late report of an honest agent praises.
Frank(a) ==
    pc[a] \in {"storing", "reporting"} /\ Strict(task[a].missing) =>
        \A m \in task[a].got : <<m, a>> \in helped

FrankLate == \A r \in late : r.ok /\ r.by \notin setting.liars => <<r.mem, r.by>> \in helped

Vouched ==
    /\ Traced
    /\ setting.governed => \A m \in Memories : Backed(m)
    /\ \A a \in Agents : Frank(a)
    /\ FrankLate

\* Nothing written, seen or achieved is taken back.
Growing ==
    /\ Kept /\ setting' = setting /\ helped \subseteq helped'
    /\ \A x \in Memories \X Agents : seen'[x] \in Nat /\ seen[x] <= seen'[x]

LEMMA StillSeen ==
    ASSUME Typed, seen' = seen
    PROVE  \A x \in Memories \X Agents : seen'[x] \in Nat /\ seen[x] <= seen'[x]
BY DEF Typed, Ledger

LEMMA ReasonLasts ==
    ASSUME Typed, Growing, NEW m \in Memories, NEW a \in Agents, Reason(m, a)
    PROVE  Reason(m, a)'
<1>1. CASE <<m, a>> \in helped
    BY <1>1 DEF Reason, Growing
<1>2. CASE a \in setting.liars /\ seen[<<m, a>>] > 0
    <2>1. /\ seen[<<m, a>>] \in Nat /\ seen'[<<m, a>>] \in Nat
          /\ seen[<<m, a>>] <= seen'[<<m, a>>]
        BY DEF Typed, Ledger, Growing
    <2>2. seen'[<<m, a>>] > 0
        BY <1>2, <2>1
    <2> QED BY <1>2, <2>2 DEF Reason, Growing
<1> QED BY <1>1, <1>2 DEF Reason

LEMMA AgentGrows ==
    ASSUME IInv, NEW a \in Agents, RunTask(a) \/ Return(a)
    PROVE  Growing
<1>1. CASE RecordInjections(a)
    <2>1. seen \in Ledger
        BY DEF IInv, Typed
    <2>2. seen' = [x \in Memories \X Agents |->
                       IF x[1] \in task[a].got /\ x[2] = a THEN seen[x] + 1 ELSE seen[x]]
        BY <1>1, <2>1 DEF RecordInjections, Plus, Ledger
    <2>3. \A x \in Memories \X Agents : seen'[x] \in Nat /\ seen[x] <= seen'[x]
        BY <2>1, <2>2 DEF Ledger
    <2> QED BY <1>1, <2>3 DEF RecordInjections, Growing, Kept
<1>2. CASE Solve(a)
    BY <1>2, StillSeen DEF IInv, Solve, Growing, Kept
<1>3. CASE Publish(a) \/ PublishUnanswered(a) \/ StoreInProcess(a)
    <2>1. /\ payload' = [payload EXCEPT ![Fresh] = Submission(a)] /\ Submitted # Memories
          /\ UNCHANGED <<setting, seen, helped>>
        BY <1>3 DEF Publish, PublishUnanswered, StoreInProcess
    <2>2. Fresh \in Memories /\ payload[Fresh] = Null
        BY <2>1, FreshIsFree
    <2>3. Kept
        BY <2>1, <2>2 DEF IInv, Typed, Kept
    <2> QED BY <2>1, <2>3, StillSeen DEF IInv, Growing
<1>4. CASE \/ \E f \in setting.families : Begin(a, f)
           \/ ContextFails(a) \/ Abort(a) \/ Return(a)
    <2>1. UNCHANGED <<setting, payload, seen, helped>>
        BY <1>4 DEF Begin, ContextFails, Abort, Return, history
    <2> QED BY <2>1, StillSeen DEF IInv, Growing, Kept
<1>5. CASE \/ SelfReport(a) \/ SelfReportFails(a)
           \/ \E m \in task[a].todo : ReportReuse(a, m) \/ ReportFails(a, m)
    <2>1. UNCHANGED <<setting, payload, seen, helped>>
        BY <1>5 DEF SelfReport, SelfReportFails, ReportReuse, ReportFails, history
    <2> QED BY <2>1, StillSeen DEF IInv, Growing, Kept
<1> QED BY <1>1, <1>2, <1>3, <1>4, <1>5 DEF RunTask

LEMMA NextGrows == IInv /\ [Next]_vars => Growing
<1> SUFFICES ASSUME IInv, [Next]_vars PROVE Growing
    OBVIOUS
<1>1. CASE Background \/ UNCHANGED vars
    <2>1. UNCHANGED <<setting, payload, seen, helped>>
        BY <1>1 DEF Background, Enrich, Insert, Arrive, vars, history
    <2> QED BY <2>1, StillSeen DEF IInv, Growing, Kept
<1>2. ASSUME NEW a \in setting.agents, RunTask(a) \/ Return(a) PROVE Growing
    BY <1>2, AgentGrows DEF IInv, Typed, Setting
<1> QED BY <1>1, <1>2 DEF Next

\* A step of one agent leaves the others frank.
LEMMA OthersFrank ==
    ASSUME NEW a \in Agents, OnlyBy(a), helped \subseteq helped',
           \A b \in Agents : Frank(b), Frank(a)'
    PROVE  \A b \in Agents : Frank(b)'
<1> SUFFICES ASSUME NEW b \in Agents, b # a PROVE Frank(b)'
    OBVIOUS
<1>1. pc'[b] = pc[b] /\ task'[b] = task[b] /\ Frank(b)
    BY DEF OnlyBy
<1> QED BY <1>1 DEF Frank

\* No agent praises a memory that did not help it, unless it lies.
LEMMA AgentFrank ==
    ASSUME Vouched, NEW a \in Agents, RunTask(a) \/ Return(a)
    PROVE  (\A b \in Agents : Frank(b)') /\ FrankLate'
<1>1. /\ IInv /\ task[a] \in Task /\ task \in [Agents -> Task] /\ Prompted(a) /\ Frank(a)
      /\ pc \in [Agents -> {"idle", "noting", "solving", "storing", "reporting", "done"}]
      /\ \A b \in Agents : Frank(b)
    BY DEF Vouched, Traced, IInv, Typed
<1>2. Growing
    BY <1>1, AgentGrows
<1>3. helped \subseteq helped' /\ setting' = setting
    BY <1>2 DEF Growing
<1>4. late' = late => FrankLate'
    BY <1>3 DEF Vouched, FrankLate
<1>5. CASE \/ \E f \in setting.families : Begin(a, f)
           \/ RecordInjections(a) \/ ContextFails(a) \/ Abort(a) \/ Return(a)
    <2>1. OnlyBy(a) /\ pc'[a] \notin {"storing", "reporting"} /\ late' = late
        BY <1>1, <1>5 DEF Begin, RecordInjections, ContextFails, Abort, Return, Step, OnlyBy
    <2> QED BY <1>1, <1>3, <1>4, <2>1, OthersFrank DEF Frank
<1>6. CASE Solve(a)
    <2>1. PICK missing \in Answers(a) :
              /\ task' = [task EXCEPT ![a].missing = missing]
              /\ helped' = helped \cup
                     (IF Strict(missing) THEN {<<m, a>> : m \in task[a].got} ELSE {})
        BY <1>6 DEF Solve
    <2>2. OnlyBy(a) /\ task'[a].missing = missing /\ task'[a].got = task[a].got /\ late' = late
        BY <1>1, <1>6, <2>1 DEF OnlyBy, Step, Solve, Task
    <2>3. Frank(a)'
        BY <2>1, <2>2 DEF Frank, Strict
    <2> QED BY <1>1, <1>3, <1>4, <2>2, <2>3, OthersFrank
<1>7. CASE Publish(a) \/ PublishUnanswered(a) \/ StoreInProcess(a)
    <2>1. /\ pc[a] = "storing" /\ late' = late
          /\ \/ StoredAs(a, Fresh)
             \/ Step(a, "idle") /\ task' = [task EXCEPT ![a] = NoTask]
        BY <1>7 DEF Publish, PublishUnanswered, StoreInProcess
    <2>2. CASE StoredAs(a, Fresh)
        <3>1. OnlyBy(a) /\ task'[a].missing = task[a].missing /\ task'[a].got = task[a].got
            <4>1. CASE /\ Step(a, "reporting")
                       /\ task' = [task EXCEPT ![a].own = Fresh, ![a].todo = task[a].got]
                BY <1>1, <4>1 DEF Step, OnlyBy, Task
            <4>2. CASE Step(a, "done") /\ task' = [task EXCEPT ![a].own = Fresh]
                BY <1>1, <4>2 DEF Step, OnlyBy, Task
            <4> QED BY <2>2, <4>1, <4>2 DEF StoredAs
        <3>2. Frank(a)'
            BY <1>1, <1>3, <2>1, <3>1 DEF Frank, Strict
        <3> QED BY <1>1, <1>3, <1>4, <2>1, <3>1, <3>2, OthersFrank
    <2>3. CASE Step(a, "idle") /\ task' = [task EXCEPT ![a] = NoTask]
        <3>1. OnlyBy(a) /\ pc'[a] = "idle"
            BY <1>1, <2>3 DEF Step, OnlyBy
        <3> QED BY <1>1, <1>3, <1>4, <2>1, <3>1, OthersFrank DEF Frank
    <2> QED BY <2>1, <2>2, <2>3
<1>8. CASE SelfReport(a) \/ SelfReportFails(a)
    <2>1. OnlyBy(a) /\ pc'[a] = "done"
        BY <1>1, <1>8 DEF SelfReport, SelfReportFails, Step, OnlyBy
    <2>2. \A r \in late' : r \in late \/ ~r.ok
        <3>1. CASE SelfReport(a)
            BY <3>1 DEF SelfReport
        <3>2. CASE SelfReportFails(a)
            <4>1. late' \in {late, late \cup {[mem |-> task[a].own, by |-> a, ok |-> FALSE, nr |-> lost]}}
                BY <3>2 DEF SelfReportFails, MayArrive
            <4> QED BY <4>1
        <3> QED BY <1>8, <3>1, <3>2
    <2>3. FrankLate'
        BY <1>3, <2>2 DEF Vouched, FrankLate
    <2> QED BY <1>1, <1>3, <2>1, <2>3, OthersFrank DEF Frank
<1>9. ASSUME NEW k \in task[a].todo, ReportReuse(a, k) \/ ReportFails(a, k)
      PROVE  (\A b \in Agents : Frank(b)') /\ FrankLate'
    <2>1. /\ pc[a] = "reporting" /\ pc' = pc /\ k \in task[a].got
          /\ task' = [task EXCEPT ![a].todo = @ \ {k}]
        BY <1>1, <1>9 DEF ReportReuse, ReportFails, Prompted
    <2>2. OnlyBy(a) /\ task'[a].missing = task[a].missing /\ task'[a].got = task[a].got
        BY <1>1, <2>1 DEF OnlyBy, Task
    <2>3. Frank(a)'
        BY <1>1, <1>3, <2>1, <2>2 DEF Frank, Strict
    <2>4. Says(a) /\ a \notin setting.liars => <<k, a>> \in helped
        BY <1>1, <2>1 DEF Says, Frank
    <2>5. \A r \in late' : r \in late \/ (r.mem = k /\ r.by = a /\ r.ok = Says(a))
        BY <1>9 DEF ReportReuse, ReportFails, MayArrive
    <2>6. FrankLate'
        BY <1>3, <2>4, <2>5 DEF Vouched, FrankLate
    <2> QED BY <1>1, <1>3, <2>2, <2>3, <2>6, OthersFrank
<1> QED BY <1>5, <1>6, <1>7, <1>8, <1>9 DEF RunTask

LEMMA NextFrank ==
    ASSUME Vouched, [Next]_vars
    PROVE  (\A b \in Agents : Frank(b)') /\ FrankLate'
<1>1. CASE Background \/ UNCHANGED vars
    <2>1. UNCHANGED <<pc, task, helped, setting>> /\ late' \subseteq late
        BY <1>1 DEF Background, Enrich, Insert, Arrive, vars, agents, history
    <2> QED BY <2>1 DEF Vouched, Frank, FrankLate, Strict
<1>2. ASSUME NEW a \in setting.agents, RunTask(a) \/ Return(a)
      PROVE  (\A b \in Agents : Frank(b)') /\ FrankLate'
    BY <1>2, AgentFrank DEF Vouched, Traced, IInv, Typed, Setting
<1> QED BY <1>1, <1>2 DEF Next

-----------------------------------------------------------------------------

\* What a peer still owes a report on, it has seen.
LEMMA OwedMeansSeen ==
    ASSUME IInv, NEW m \in Memories, NEW a \in Agents, Foreign(m, a),
           Pending(m, a) \/ OnItsWay(m, a) # {}
    PROVE  seen[<<m, a>>] > 0
<1>1. /\ Owed(m, a) = Cardinality(OnItsWay(m, a)) + (IF Pending(m, a) THEN 1 ELSE 0)
      /\ IsFiniteSet(OnItsWay(m, a)) /\ Cardinality(OnItsWay(m, a)) \in Nat
    BY OwedTyped DEF IInv
<1>2. OnItsWay(m, a) # {} => Cardinality(OnItsWay(m, a)) # 0
    BY <1>1, FS_EmptySet
<1>3. Owed(m, a) \in Nat /\ Owed(m, a) >= 1
    BY <1>1, <1>2
<1>4. /\ counted[<<m, a>>] \in Nat /\ seen[<<m, a>>] \in Nat
      /\ counted[<<m, a>>] + Owed(m, a) <= seen[<<m, a>>]
    BY DEF IInv, Typed, Ledger, Covered
<1> QED BY <1>3, <1>4

\* A row that stays as it is stays backed.
LEMMA SameRowBacked ==
    ASSUME Vouched, Growing, NEW m \in Memories, Backed(m), experiences'[m] = experiences[m]
    PROVE  Backed(m)'
<1> SUFFICES ASSUME Stored(m)' PROVE Backed(m)'
    BY DEF Backed
<1>1. Stored(m) /\ payload[m] # Null
    BY DEF Stored, Vouched, Traced, StoredIsSubmitted
<1>2. AuthorOf(m)' = AuthorOf(m)
    BY <1>1 DEF Growing, Kept, AuthorOf
<1>3. \A a \in Agents : Reason(m, a) => Reason(m, a)'
    BY ReasonLasts DEF Vouched, Traced, IInv
<1> QED BY <1>1, <1>2, <1>3 DEF Backed

\* A row enters without a record and not for everybody.
LEMMA EntryBacked ==
    ASSUME setting \in Setting, setting.governed, NEW p \in Payload, NEW prior
    PROVE  LET r == EntryRow(p, prior)
           IN  r.tier \in Tier /\ ~FleetVisible(r.tier) /\ r.n = 0 /\ r.s = 0
<1>1. p.success \in BOOLEAN
    BY DEF Payload
<1>2. setting.governed = TRUE /\ setting.authorPrior \in BOOLEAN
    BY DEF Setting
<1>3. CASE setting.authorPrior /\ p.success
    <2>1. EntryRow(p, prior) = Entry(TRUE, prior, prior)
        BY <1>3, <1>2 DEF EntryRow
    <2> QED BY <2>1 DEF Entry, InitialTier, Tier, FleetVisible, Rank
<1>4. CASE ~(setting.authorPrior /\ p.success)
    <2>1. /\ EntryRow(p, prior).tier \in {"private", "agent"}
          /\ EntryRow(p, prior).n = 0 /\ EntryRow(p, prior).s = 0
        BY <1>1, <1>4, <1>2 DEF EntryRow, Entry, InitialTier
    <2> QED BY <2>1 DEF Tier, FleetVisible, Rank
<1> QED BY <1>3, <1>4

LEMMA NewRowBacked ==
    ASSUME Vouched, Growing, setting.governed, NEW m \in Memories, NEW p \in Payload, NEW prior,
           experiences' = [experiences EXCEPT ![m] = EntryRow(p, prior)]
    PROVE  \A n \in Memories : Backed(n)'
<1>1. experiences = [n \in Memories |-> experiences[n]] /\ \A n \in Memories : Backed(n)
    BY DEF Vouched, Traced, StoredIsSubmitted
<1>2. experiences'[m] = EntryRow(p, prior)
    BY <1>1
<1>3. Backed(m)'
    BY <1>2, EntryBacked DEF Backed, Vouched, Traced, IInv, Typed
<1>4. ASSUME NEW n \in Memories, n # m PROVE Backed(n)'
    BY <1>1, <1>4, SameRowBacked
<1> QED BY <1>3, <1>4

\* The counters and the tier of a row after one more report.
LEMMA RowAfterReport ==
    ASSUME NEW m \in Memories, NEW ok \in BOOLEAN, Stored(m), Vouched
    PROVE  LET r == experiences[m]
               q == AfterReport(r, ok)
           IN  /\ q.n = r.n + 1 /\ q.s = (IF ok THEN r.s + 1 ELSE r.s)
               /\ q.tier = Decide(r.tier, q.n, q.s)
BY DEF AfterReport

\* A report that counts leaves its row backed, if a peer's praise has a reason.
LEMMA ApplyBacked ==
    ASSUME Vouched, Growing, setting.governed,
           NEW m \in Memories, NEW a \in Agents, NEW ok \in BOOLEAN, Apply(m, a, ok),
           ok /\ Foreign(m, a) => Reason(m, a)
    PROVE  \A n \in Memories : Backed(n)'
<1>1. experiences = [n \in Memories |-> experiences[n]] /\ \A n \in Memories : Backed(n)
    BY DEF Vouched, Traced, StoredIsSubmitted
<1>2. CASE experiences' = experiences
    BY <1>1, <1>2, SameRowBacked
<1>3. CASE /\ Stored(m) /\ Countable(m, a, ok)
           /\ experiences' = [experiences EXCEPT ![m] = AfterReport(@, ok)]
    <2> DEFINE r == experiences[m]
               q == AfterReport(r, ok)
    <2>1. /\ r.tier \in Tier /\ r.n \in Nat /\ r.s \in Nat
          /\ FleetVisible(r.tier) => r.s # 0
          /\ r.s # 0 => \E b \in Agents \ {AuthorOf(m)} : Reason(m, b)
        BY <1>1, <1>3 DEF Backed
    <2>2. experiences'[m] = q
        BY <1>1, <1>3
    <2>3. /\ q.n = r.n + 1 /\ q.s = (IF ok THEN r.s + 1 ELSE r.s)
          /\ q.tier = Decide(r.tier, q.n, q.s)
        BY <1>1, <1>3, RowAfterReport
    <2> HIDE DEF q
    <2>4. q.n \in Nat /\ q.s \in Nat /\ (r.s # 0 => q.s # 0) /\ (q.s # 0 => r.s # 0 \/ ok)
        BY <2>1, <2>3
    <2>5. q.tier \in Tier /\ (FleetVisible(q.tier) => q.s # 0)
        <3>1. q.tier \in Tier
            BY <2>1, <2>3, <2>4, DecideTyped
        <3>2. FleetVisible(q.tier) => FleetVisible(r.tier) \/ q.s >= SharedMinSuccesses
            BY <2>1, <2>3, <2>4, DecideNeedsSuccess
        <3>3. SharedMinSuccesses \in Nat \ {0}
            BY ThresholdsAssumption
        <3> QED BY <2>1, <2>4, <3>1, <3>2, <3>3
    <2>6. payload[m] # Null
        BY <1>3 DEF Stored, Vouched, Traced, StoredIsSubmitted
    <2>7. AuthorOf(m)' = AuthorOf(m)
        BY <2>6 DEF Growing, Kept, AuthorOf
    <2>8. \A b \in Agents : Reason(m, b) => Reason(m, b)'
        BY ReasonLasts DEF Vouched, Traced, IInv
    <2>9. ok => a # AuthorOf(m) /\ Reason(m, a)
        BY <1>3 DEF Countable, Foreign, AuthorOf
    <2>10. q.s # 0 => \E b \in Agents \ {AuthorOf(m)} : Reason(m, b)'
        BY <2>1, <2>4, <2>8, <2>9
    <2>11. Backed(m)'
        BY <2>2, <2>4, <2>5, <2>7, <2>10 DEF Backed
    <2>12. ASSUME NEW n \in Memories, n # m PROVE Backed(n)'
        BY <1>1, <1>3, <2>12, SameRowBacked
    <2> QED BY <2>11, <2>12
<1> QED BY <1>2, <1>3 DEF Apply, tables

\* Whatever moves a row is an entry, or a report that had its reason.
LEMMA NextBacked ==
    ASSUME Vouched, [Next]_vars, setting.governed
    PROVE  \A n \in Memories : Backed(n)'
<1>1. IInv /\ Growing /\ \A n \in Memories : Backed(n)
    BY NextGrows DEF Vouched, Traced
<1>2. CASE experiences' = experiences
    BY <1>1, <1>2, SameRowBacked
<1>3. ASSUME NEW m \in Memories, Insert(m)
      PROVE  \A n \in Memories : Backed(n)'
    <2>1. payload[m] \in Payload
        BY <1>3 DEF Insert, Vouched, Traced, StoredIsSubmitted, IInv, Typed
    <2> QED BY <1>1, <1>3, <2>1, NewRowBacked DEF Insert
<1>4. ASSUME NEW r \in late, Arrive(r)
      PROVE  \A n \in Memories : Backed(n)'
    <2>1. /\ r.mem \in Memories /\ r.by \in Agents /\ r.ok \in BOOLEAN
          /\ Apply(r.mem, r.by, r.ok) /\ r \in OnItsWay(r.mem, r.by)
        BY <1>1, <1>4 DEF Arrive, IInv, Typed, Report, OnItsWay
    <2>2. r.ok /\ Foreign(r.mem, r.by) => Reason(r.mem, r.by)
        BY <1>1, <2>1, OwedMeansSeen DEF Vouched, FrankLate, Reason
    <2> QED BY <1>1, <2>1, <2>2, ApplyBacked
<1>5. ASSUME NEW a \in Agents, StoreInProcess(a)
      PROVE  \A n \in Memories : Backed(n)'
    <2>1. pc[a] = "storing" /\ Submitted # Memories
          /\ experiences' = [experiences EXCEPT ![Fresh] = EntryRow(Submission(a), Reputation(a))]
        BY <1>5 DEF StoreInProcess
    <2>2. Fresh \in Memories /\ Submission(a) \in Payload
        BY <1>1, <2>1, FreshIsFree, SubmissionTyped
    <2> QED BY <1>1, <2>1, <2>2, NewRowBacked
<1>6. ASSUME NEW a \in Agents, SelfReport(a)
      PROVE  \A n \in Memories : Backed(n)'
    <2>1. task[a].own \in Memories
        BY <1>1, <1>6 DEF SelfReport, IInv, AtWork
    <2>2. CASE Apply(task[a].own, a, FALSE)
        BY <1>1, <2>1, <2>2, ApplyBacked
    <2> QED BY <1>2, <1>6, <2>2 DEF SelfReport, tables
<1>7. ASSUME NEW a \in Agents, NEW m \in task[a].todo, ReportReuse(a, m)
      PROVE  \A n \in Memories : Backed(n)'
    <2>1. /\ m \in Memories /\ m \in task[a].got /\ pc[a] = "reporting" /\ Pending(m, a)
          /\ Says(a) \in BOOLEAN /\ Frank(a)
        BY <1>1, <1>7
        DEF ReportReuse, IInv, Typed, Task, Pending, Says, Strict, Vouched, Traced, Prompted
    <2>2. Says(a) /\ Foreign(m, a) => Reason(m, a)
        BY <1>1, <2>1, OwedMeansSeen DEF Says, Frank, Reason
    <2>3. CASE Apply(m, a, Says(a))
        BY <1>1, <2>1, <2>2, <2>3, ApplyBacked
    <2> QED BY <1>2, <1>7, <2>3 DEF ReportReuse, tables
<1>8. CASE Background \/ UNCHANGED vars
    BY <1>2, <1>3, <1>4, <1>8 DEF Background, Enrich, vars, tables
<1>9. ASSUME NEW a \in Agents, RunTask(a) \/ Return(a)
      PROVE  \A n \in Memories : Backed(n)'
    <2>1. \/ experiences' = experiences \/ StoreInProcess(a) \/ SelfReport(a)
          \/ \E m \in task[a].todo : ReportReuse(a, m)
        BY <1>9 DEF RunTask, Begin, RecordInjections, ContextFails, Solve, Abort, Publish,
                    PublishUnanswered, SelfReportFails, ReportFails, Return, tables
    <2> QED BY <1>2, <1>5, <1>6, <1>7, <2>1
<1>10. \A a \in setting.agents : a \in Agents
    BY <1>1 DEF IInv, Typed, Setting
<1> QED BY <1>8, <1>9, <1>10 DEF Next

LEMMA VouchedStep == Vouched /\ [Next]_vars => Vouched'
<1> SUFFICES ASSUME Vouched, [Next]_vars PROVE Vouched'
    OBVIOUS
<1>1. Traced' /\ setting' = setting
    BY NextTraced, NextGrows DEF Vouched, Traced, Growing
<1> QED BY <1>1, NextBacked, NextFrank DEF Vouched

LEMMA InitVouched == Init => Vouched
<1> SUFFICES ASSUME Init PROVE Vouched
    OBVIOUS
<1>1. ASSUME NEW m \in Memories PROVE Backed(m)
    BY DEF Init, Backed, Stored
<1>2. ASSUME NEW a \in Agents PROVE Frank(a)
    BY DEF Init, Frank
<1> QED BY <1>1, <1>2, InitTraced DEF Vouched, FrankLate, Init

\* In a governed fleet of any size, whatever is lost or late, a memory that
\* everybody can read was in the prompt of a peer that solved its task, or of
\* one that lies.
THEOREM VisibleIsEarned == Spec => []VisibleHelpedAPeer
<1>1. Vouched => VisibleHelpedAPeer
    <2> SUFFICES ASSUME Vouched, NEW m \in Memories,
                        setting.governed, Stored(m), FleetVisible(experiences[m].tier)
                 PROVE  \E a \in Agents \ {AuthorOf(m)} : Reason(m, a)
        BY DEF VisibleHelpedAPeer, Reason
    <2> QED BY DEF Vouched, Backed
<1> QED BY <1>1, InitVouched, VouchedStep, PTL DEF Spec

-----------------------------------------------------------------------------
(* What is stored.                                                         *)

\* The agents at a task that has not stored its memory yet, and the memories
\* nobody knows of.
Underway == {a \in Agents : pc[a] \in {"noting", "solving", "storing"}}
Unknown  == Submitted \ acked

Accounted ==
    /\ acked \subseteq Submitted /\ tasks \in Nat /\ aborts \in Nat
    /\ IsFiniteSet(acked) /\ IsFiniteSet(Underway) /\ IsFiniteSet(Unknown)
    /\ tasks = Cardinality(acked) + aborts + Cardinality(Underway)
    /\ Cardinality(Unknown) <= aborts

LEMMA CountsTyped ==
    ASSUME Accounted
    PROVE  /\ tasks \in Nat /\ aborts \in Nat /\ Cardinality(acked) \in Nat
           /\ Cardinality(Underway) \in Nat /\ Cardinality(Unknown) \in Nat
BY FS_CardinalityType DEF Accounted

\* A task that begins is one more, and under way.
LEMMA BeginAccounted ==
    ASSUME IInv, Accounted, NEW a \in Agents, NEW f \in setting.families, Begin(a, f)
    PROVE  Accounted'
<1>1. /\ pc[a] = "idle" /\ tasks' = tasks + 1 /\ UNCHANGED <<acked, aborts, payload>>
      /\ Step(a, "solving") \/ Step(a, "noting")
      /\ pc \in [Agents -> {"idle", "noting", "solving", "storing", "reporting", "done"}]
    BY DEF Begin, history, IInv, Typed
<1>2. Underway' = Underway \cup {a} /\ a \notin Underway
    BY <1>1 DEF Underway, Step
<1>3. IsFiniteSet(Underway') /\ Cardinality(Underway') = Cardinality(Underway) + 1
    BY <1>2, FS_AddElement DEF Accounted
<1>4. Submitted' = Submitted /\ Unknown' = Unknown
    BY <1>1 DEF Submitted, Unknown
<1> QED BY <1>1, <1>3, <1>4, CountsTyped DEF Accounted

\* One that stores its memory, or is ended, no longer is.
LEMMA LeavesUnderway ==
    ASSUME IInv, Accounted, NEW a \in Agents, pc[a] \in {"solving", "storing"},
           NEW to \in {"idle", "reporting", "done"}, Step(a, to)
    PROVE  IsFiniteSet(Underway') /\ Cardinality(Underway') = Cardinality(Underway) - 1
<1>1. pc \in [Agents -> {"idle", "noting", "solving", "storing", "reporting", "done"}]
    BY DEF IInv, Typed
<1>2. Underway' = Underway \ {a} /\ a \in Underway
    BY <1>1 DEF Underway, Step
<1> QED BY <1>2, FS_RemoveElement DEF Accounted

LEMMA StoreAccounted ==
    ASSUME IInv, Accounted, NEW a \in Agents, Publish(a) \/ StoreInProcess(a)
    PROVE  Accounted'
<1>1. /\ pc[a] = "storing" /\ Submitted # Memories
      /\ payload' = [payload EXCEPT ![Fresh] = Submission(a)]
      /\ acked' = acked \cup {Fresh} /\ UNCHANGED <<tasks, aborts>>
      /\ Step(a, "reporting") \/ Step(a, "done")
    BY DEF Publish, StoreInProcess, StoredAs
<1>2. Fresh \in Memories /\ payload[Fresh] = Null /\ Submission(a) # Null
    BY <1>1, FreshIsFree, SubmissionTyped
<1>3. Submitted' = Submitted \cup {Fresh} /\ Fresh \notin Submitted
    BY <1>1, <1>2 DEF Submitted, IInv, Typed
<1>4. Unknown' = Unknown /\ acked' \subseteq Submitted' /\ Fresh \notin acked
    BY <1>1, <1>3 DEF Unknown, Accounted
<1>5. IsFiniteSet(acked') /\ Cardinality(acked') = Cardinality(acked) + 1
    BY <1>1, <1>4, FS_AddElement DEF Accounted
<1>6. IsFiniteSet(Underway') /\ Cardinality(Underway') = Cardinality(Underway) - 1
    BY <1>1, LeavesUnderway
<1> QED BY <1>1, <1>4, <1>5, <1>6, CountsTyped DEF Accounted

LEMMA AbortAccounted ==
    ASSUME IInv, Accounted, NEW a \in Agents, Abort(a) \/ PublishUnanswered(a)
    PROVE  Accounted'
<1>1. /\ pc[a] \in {"solving", "storing"} /\ Step(a, "idle")
      /\ aborts' = aborts + 1 /\ UNCHANGED <<tasks, acked>>
    BY DEF Abort, PublishUnanswered
<1>2. IsFiniteSet(Underway') /\ Cardinality(Underway') = Cardinality(Underway) - 1
    BY <1>1, LeavesUnderway
<1>3. /\ IsFiniteSet(Unknown') /\ Cardinality(Unknown') <= aborts + 1
      /\ Submitted \subseteq Submitted'
    <2>1. CASE payload' = payload
        <3>1. Submitted' = Submitted /\ Unknown' = Unknown
            BY <1>1, <2>1 DEF Submitted, Unknown
        <3> QED BY <3>1, CountsTyped DEF Accounted
    <2>2. CASE PublishUnanswered(a)
        <3>1. /\ pc[a] = "storing" /\ Submitted # Memories
              /\ payload' = [payload EXCEPT ![Fresh] = Submission(a)]
            BY <2>2 DEF PublishUnanswered
        <3>2. Fresh \in Memories /\ payload[Fresh] = Null /\ Submission(a) # Null
            BY <3>1, FreshIsFree, SubmissionTyped
        <3>3. Submitted' = Submitted \cup {Fresh} /\ Fresh \notin Submitted
            BY <3>1, <3>2 DEF Submitted, IInv, Typed
        <3>4. Unknown' = Unknown \cup {Fresh} /\ Fresh \notin Unknown
            BY <1>1, <3>3 DEF Unknown, Accounted
        <3>5. IsFiniteSet(Unknown') /\ Cardinality(Unknown') = Cardinality(Unknown) + 1
            BY <3>4, FS_AddElement DEF Accounted
        <3> QED BY <3>3, <3>5, CountsTyped DEF Accounted
    <2> QED BY <2>1, <2>2 DEF Abort
<1> QED BY <1>1, <1>2, <1>3, CountsTyped DEF Accounted

\* No other step begins, stores or ends anything.
LEMMA OtherAccounted ==
    ASSUME Accounted, UNCHANGED <<payload, tasks, acked, aborts>>, Underway' = Underway
    PROVE  Accounted'
<1>1. Submitted' = Submitted /\ Unknown' = Unknown
    BY DEF Submitted, Unknown
<1> QED BY <1>1 DEF Accounted

LEMMA NextAccounted ==
    ASSUME IInv, Accounted, [Next]_vars
    PROVE  Accounted'
<1>1. CASE Background \/ UNCHANGED vars
    <2>1. UNCHANGED <<payload, tasks, acked, aborts, pc>>
        BY <1>1 DEF Background, Enrich, Insert, Arrive, vars, agents, history
    <2> QED BY <2>1, OtherAccounted DEF Underway
<1>2. ASSUME NEW a \in setting.agents, RunTask(a) \/ Return(a)
      PROVE  Accounted'
    <2>1. /\ a \in Agents
          /\ pc \in [Agents -> {"idle", "noting", "solving", "storing", "reporting", "done"}]
        BY DEF IInv, Typed, Setting
    <2>2. CASE RecordInjections(a) \/ ContextFails(a) \/ Solve(a)
        <3>1. /\ UNCHANGED <<payload, tasks, acked, aborts>>
              /\ pc[a] \in {"noting", "solving"} /\ (Step(a, "solving") \/ Step(a, "storing"))
            BY <2>2 DEF RecordInjections, ContextFails, Solve, history
        <3>2. Underway' = Underway
            BY <2>1, <3>1 DEF Underway, Step
        <3> QED BY <3>1, <3>2, OtherAccounted
    <2>3. CASE \/ SelfReport(a) \/ SelfReportFails(a) \/ Return(a)
               \/ \E m \in task[a].todo : ReportReuse(a, m) \/ ReportFails(a, m)
        <3>1. /\ UNCHANGED <<payload, tasks, acked, aborts>>
              /\ pc[a] \in {"reporting", "done"}
              /\ pc' = pc \/ Step(a, "done") \/ Step(a, "idle")
            BY <2>3 DEF SelfReport, SelfReportFails, Return, ReportReuse, ReportFails, history
        <3>2. Underway' = Underway
            BY <2>1, <3>1 DEF Underway, Step
        <3> QED BY <3>1, <3>2, OtherAccounted
    <2> QED BY <1>2, <2>1, <2>2, <2>3, BeginAccounted, StoreAccounted, AbortAccounted DEF RunTask
<1> QED BY <1>1, <1>2 DEF Next

LEMMA InitAccounted == Init => Accounted
<1> SUFFICES ASSUME Init PROVE Accounted
    OBVIOUS
<1>1. acked = {} /\ Underway = {} /\ Unknown = {} /\ tasks = 0 /\ aborts = 0
    BY DEF Init, Underway, Unknown, Submitted
<1> QED BY <1>1, FS_EmptySet DEF Accounted

\* However many agents and lost calls: each task has a memory its agent knows of
\* or was ended by an exception, and only those leave memories nobody knows of.
THEOREM StoresAddUp == Spec => []StoresAreAccounted
<1>1. Accounted => StoresAreAccounted
    BY DEF Accounted, StoresAreAccounted, Underway, Unknown
<1> QED BY <1>1, InitAccounted, NextAccounted, InitCovered, NextKeepsCovered, PTL DEF Spec

-----------------------------------------------------------------------------
(* Rows and priors.                                                        *)

\* What the workers have read, and what is stored.
Tabled ==
    /\ evidence \in [Memories -> Nat \cup {Null}]
    /\ experiences \in [Memories -> Row \cup {Null}]
    /\ \A m \in Memories : Stored(m) => evidence[m] # Null

\* The evidence on m is read, once.
Read(m) ==
    /\ evidence[m] = Null /\ ~Stored(m) /\ payload'[m] # Null
    /\ evidence' = [evidence EXCEPT ![m] = Reputation(payload'[m].author)]

\* The row of m is stored, or moves with a report.
Enters(m, p) ==
    /\ ~Stored(m) /\ evidence'[m] # Null
    /\ experiences' = [experiences EXCEPT ![m] = EntryRow(p, evidence'[m])]

Moves(m, ok) ==
    /\ Stored(m) /\ experiences' = [experiences EXCEPT ![m] = AfterReport(@, ok)]

\* All that any step does to a row.
RowsMove ==
    \/ experiences' = experiences
    \/ \E m \in Memories, p \in Payload : Enters(m, p)
    \/ \E m \in Memories, ok \in BOOLEAN : Moves(m, ok)

EvidenceMoves == evidence' = evidence \/ \E m \in Memories : Read(m)

\* The author of m has another memory that helped a peer; that failed one.
Acclaimed(m) ==
    \E o \in WrittenBy(AuthorOf(m)) \ {m}, a \in Agents \ {AuthorOf(m)} : Reason(o, a)

Faulted(m) ==
    \E o \in WrittenBy(AuthorOf(m)) \ {m} : experiences[o].n > experiences[o].s

\* So it is whenever what was read for m is not the default.
Earned(m) ==
    evidence[m] # Null =>
        /\ evidence[m] > DefaultPrior => Acclaimed(m)
        /\ evidence[m] < DefaultPrior => Faulted(m)

\* And nothing else is the prior of a row.
Inherited(m) ==
    Stored(m) => \/ experiences[m].prior = DefaultPrior
                 \/ setting.governed /\ experiences[m].prior = evidence[m]

Earnest ==
    /\ Vouched /\ Accounted /\ Tabled
    /\ setting.governed => \A m \in Memories : Earned(m)
    /\ \A m \in Memories : Inherited(m)

\* The bounds of the model, and what only the type invariant speaks of.
Bounded ==
    /\ setting \in Settings
    /\ disowned \subseteq Memories /\ helped \subseteq Memories \X Agents
    /\ tasks \in 0..setting.maxTasks /\ lost \in 0..setting.maxLost

\* A report leaves a row a row, its prior alone, and no failure behind.
LEMMA AfterReportTyped ==
    ASSUME NEW r \in Row, NEW ok \in BOOLEAN
    PROVE  LET q == AfterReport(r, ok)
           IN  /\ q \in Row /\ q.prior = r.prior
               /\ r.n > r.s => q.n > q.s
<1> DEFINE n == r.n + 1
           s == IF ok THEN r.s + 1 ELSE r.s
           tier == Decide(r.tier, n, s)
           conf == ConfidenceAfter(r.tier, n, s, r.prior)
<1>1. r.tier \in Tier /\ r.n \in Nat /\ r.s \in Nat /\ r.prior \in Nat
    BY DEF Row
<1>2. n \in Nat /\ s \in Nat /\ (r.n > r.s => n > s)
    BY <1>1
<1>3. AfterReport(r, ok) = [r EXCEPT !.n = n, !.s = s, !.tier = tier, !.conf = conf]
    BY DEF AfterReport
<1> HIDE DEF n, s
<1>4. tier \in Tier /\ conf \in Int
    BY <1>1, <1>2, DecideTyped, ConfidenceAfterTyped
<1> HIDE DEF tier, conf
<1> QED BY <1>2, <1>3, <1>4 DEF Row

\* So is what enters, on the default prior or the one that was read.
LEMMA EntryRowTyped ==
    ASSUME setting \in Setting, NEW p \in Payload, NEW prior \in Nat
    PROVE  LET r == EntryRow(p, prior)
           IN  /\ r \in Row
               /\ r.prior = DefaultPrior \/ (setting.governed /\ r.prior = prior)
<1>1. p.success \in BOOLEAN /\ setting.governed \in BOOLEAN /\ setting.authorPrior \in BOOLEAN
    BY DEF Payload, Setting
<1>2. DefaultPrior \in Nat /\ prior \in Int
    BY DEF DefaultPrior
<1>3. \A b \in BOOLEAN, c \in Int, q \in Nat : Entry(b, c, q) \in Row /\ Entry(b, c, q).prior = q
    BY EntryTyped DEF Entry
<1>4. CASE ~setting.governed
    <2> DEFINE e == Entry(TRUE, 5000, DefaultPrior)
    <2>1. e \in Row /\ e.prior = DefaultPrior
        BY <1>2 DEF Entry, InitialTier, Row, Tier
    <2>2. EntryRow(p, prior) = [e EXCEPT !.tier = "shared"]
        BY <1>4 DEF EntryRow
    <2> HIDE DEF e
    <2> QED BY <2>1, <2>2 DEF Row, Tier
<1>5. CASE setting.governed /\ setting.authorPrior /\ p.success
    <2>1. EntryRow(p, prior) = Entry(TRUE, prior, prior)
        BY <1>5 DEF EntryRow
    <2> QED BY <1>2, <1>3, <1>5, <2>1
<1>6. CASE setting.governed /\ ~(setting.authorPrior /\ p.success)
    <2> DEFINE c == InitialConfidence(p.success, p.success)
    <2>1. c \in Int
        BY <1>1 DEF InitialConfidence
    <2> HIDE DEF c
    <2>2. EntryRow(p, prior) = [tier |-> IF p.success THEN "agent" ELSE "private",
                                n |-> 0, s |-> 0, conf |-> c, prior |-> DefaultPrior]
        BY <1>1, <1>6 DEF EntryRow, Entry, InitialTier, c
    <2> QED BY <1>2, <2>1, <2>2 DEF Row, Tier
<1> QED BY <1>1, <1>4, <1>5, <1>6

LEMMA StoredFinite ==
    ASSUME StoredIsSubmitted, Accounted
    PROVE  IsFiniteSet(AllStored)
<1>1. AllStored \subseteq acked \cup Unknown
    BY DEF AllStored, Stored, StoredIsSubmitted, Unknown, Submitted
<1>2. IsFiniteSet(acked \cup Unknown)
    BY FS_Union DEF Accounted
<1> QED BY <1>1, <1>2, FS_Subset

\* What a reputation says of the memories it is made of: above the default,
\* one has a success; below it, one has a report that was none.
LEMMA ReputationEarned ==
    ASSUME StoredIsSubmitted, Accounted, Tabled, NEW b
    PROVE  /\ Reputation(b) \in Nat
           /\ Reputation(b) > DefaultPrior => \E o \in WrittenBy(b) : experiences[o].s # 0
           /\ Reputation(b) < DefaultPrior =>
                  \E o \in WrittenBy(b) : experiences[o].n > experiences[o].s
<1> DEFINE W == WrittenBy(b)
           successes == SumFunctionOnSet(reuse_success_count, W)
           all       == SumFunctionOnSet(reuse_count, W)
<1>1. IsFiniteSet(W)
    <2>1. W \subseteq AllStored
        BY DEF WrittenBy
    <2> QED BY <2>1, StoredFinite, FS_Subset
<1>2. \A o \in W : /\ reuse_success_count[o] = experiences[o].s /\ reuse_count[o] = experiences[o].n
                   /\ experiences[o].s \in Nat /\ experiences[o].n \in Nat
    BY DEF WrittenBy, AllStored, Stored, reuse_success_count, reuse_count, Tabled, Row
<1>3. Reputation(b) = Posterior(successes, all, DefaultPrior)
    BY DEF Reputation
<1> HIDE DEF W
<1>4. successes \in Nat /\ all \in Nat
    BY <1>1, <1>2, SumTyped
<1>5. successes # 0 => \E o \in W : experiences[o].s # 0
    BY <1>1, <1>2, SumHasPart
<1>6. (\A o \in W : experiences[o].n <= experiences[o].s) => all <= successes
    <2> SUFFICES ASSUME \A o \in W : experiences[o].n <= experiences[o].s PROVE all <= successes
        OBVIOUS
    <2>1. \A o \in W : /\ reuse_count[o] \in Int /\ reuse_success_count[o] \in Int
                       /\ reuse_count[o] <= reuse_success_count[o]
        BY <1>2
    <2> QED BY <1>1, <2>1, SumOrdered
<1> HIDE DEF successes, all
<1>7. all > successes => \E o \in W : experiences[o].n > experiences[o].s
    <2>1. \A o \in W : ~(experiences[o].n > experiences[o].s) => experiences[o].n <= experiences[o].s
        BY <1>2
    <2>2. all > successes => ~(all <= successes)
        BY <1>4
    <2> QED BY <1>6, <2>1, <2>2
<1> QED BY <1>3, <1>4, <1>5, <1>7, PosteriorMoves DEF W

-----------------------------------------------------------------------------

\* No step does more to the tables than one of these.
LEMMA NextMoves ==
    ASSUME Traced, Accounted, Tabled, [Next]_vars
    PROVE  RowsMove /\ EvidenceMoves
<1>1. /\ payload \in [Memories -> Payload \cup {Null}] /\ late \subseteq Report
      /\ experiences = [n \in Memories |-> experiences[n]]
    BY DEF Traced, IInv, Typed, StoredIsSubmitted
<1>2. ASSUME NEW m \in Memories, NEW a, NEW ok \in BOOLEAN, Apply(m, a, ok)
      PROVE  RowsMove
    BY <1>2 DEF Apply, tables, RowsMove, Moves
<1>3. ASSUME NEW m \in Memories, Enrich(m)
      PROVE  RowsMove /\ EvidenceMoves
    <2>1. ~Stored(m) /\ payload'[m] # Null /\ payload' = payload
        BY <1>3 DEF Enrich, Tabled
    <2>2. Read(m) /\ experiences' = experiences
        BY <1>3, <2>1 DEF Enrich, Read, AuthorOf, tables
    <2> QED BY <2>2 DEF RowsMove, EvidenceMoves
<1>4. ASSUME NEW m \in Memories, Insert(m)
      PROVE  RowsMove /\ EvidenceMoves
    <2>1. payload[m] \in Payload
        BY <1>1, <1>4 DEF Insert, Traced, StoredIsSubmitted
    <2>2. Enters(m, payload[m]) /\ evidence' = evidence
        BY <1>4 DEF Insert, Enters
    <2> QED BY <2>1, <2>2 DEF RowsMove, EvidenceMoves
<1>5. ASSUME NEW r \in late, Arrive(r)
      PROVE  RowsMove /\ EvidenceMoves
    <2>1. r.mem \in Memories /\ r.ok \in BOOLEAN
        BY <1>1 DEF Report
    <2> QED BY <1>2, <1>5, <2>1 DEF Arrive, EvidenceMoves
<1>6. ASSUME NEW a \in Agents, StoreInProcess(a)
      PROVE  RowsMove /\ EvidenceMoves
    <2>1. /\ pc[a] = "storing" /\ Submitted # Memories
          /\ payload' = [payload EXCEPT ![Fresh] = Submission(a)]
          /\ evidence' = [evidence EXCEPT ![Fresh] = Reputation(a)]
          /\ experiences' = [experiences EXCEPT ![Fresh] = EntryRow(Submission(a), Reputation(a))]
        BY <1>6 DEF StoreInProcess
    <2>2. /\ Fresh \in Memories /\ payload[Fresh] = Null
          /\ Submission(a) \in Payload /\ Submission(a).author = a /\ Submission(a) # Null
        BY <2>1, FreshIsFree, SubmissionTyped DEF Traced
    <2>3. evidence[Fresh] = Null /\ ~Stored(Fresh)
        BY <2>2 DEF Traced, StoredIsSubmitted, Stored
    <2>4. evidence'[Fresh] = Reputation(a) /\ payload'[Fresh] = Submission(a)
        BY <1>1, <2>1, <2>2 DEF Tabled
    <2>5. Reputation(a) # Null
        BY ReputationEarned, FleetAssumption DEF Traced
    <2>6. Enters(Fresh, Submission(a)) /\ Read(Fresh)
        BY <2>1, <2>2, <2>3, <2>4, <2>5 DEF Enters, Read
    <2> QED BY <2>2, <2>6 DEF RowsMove, EvidenceMoves
<1>7. ASSUME NEW a \in Agents, SelfReport(a)
      PROVE  RowsMove /\ EvidenceMoves
    <2>1. task[a].own \in Memories
        BY <1>7 DEF SelfReport, Traced, IInv, AtWork
    <2> QED BY <1>2, <1>7, <2>1 DEF SelfReport, tables, RowsMove, EvidenceMoves
<1>8. ASSUME NEW a \in Agents, NEW m \in task[a].todo, ReportReuse(a, m)
      PROVE  RowsMove /\ EvidenceMoves
    <2>1. m \in Memories /\ Says(a) \in BOOLEAN
        BY DEF Traced, IInv, Typed, Task, Says, Strict
    <2> QED BY <1>2, <1>8, <2>1 DEF ReportReuse, tables, RowsMove, EvidenceMoves
<1>9. ASSUME UNCHANGED <<experiences, evidence>>
      PROVE  RowsMove /\ EvidenceMoves
    BY <1>9 DEF RowsMove, EvidenceMoves
<1>10. CASE Background \/ UNCHANGED vars
    BY <1>3, <1>4, <1>5, <1>9, <1>10 DEF Background, vars, tables
<1>11. ASSUME NEW a \in Agents, RunTask(a) \/ Return(a)
       PROVE  RowsMove /\ EvidenceMoves
    <2>1. \/ UNCHANGED <<experiences, evidence>> \/ StoreInProcess(a) \/ SelfReport(a)
          \/ \E m \in task[a].todo : ReportReuse(a, m)
        BY <1>11 DEF RunTask, Begin, RecordInjections, ContextFails, Solve, Abort, Publish,
                     PublishUnanswered, SelfReportFails, ReportFails, Return, tables, history
    <2> QED BY <1>6, <1>7, <1>8, <1>9, <2>1
<1>12. \A a \in setting.agents : a \in Agents
    BY DEF Traced, IInv, Typed, Setting
<1> QED BY <1>10, <1>11, <1>12 DEF Next

\* What is read stays read, what is stored stays, and a failure stays on record.
LEMMA RowsLast ==
    ASSUME Tabled, RowsMove, EvidenceMoves, NEW m \in Memories
    PROVE  /\ evidence[m] # Null => evidence'[m] = evidence[m]
           /\ Stored(m) => /\ Stored(m)' /\ experiences'[m].prior = experiences[m].prior
                           /\ experiences[m].n > experiences[m].s =>
                                  experiences'[m].n > experiences'[m].s
<1>1. evidence[m] # Null => evidence'[m] = evidence[m]
    BY DEF EvidenceMoves, Read, Tabled
<1>2. ASSUME Stored(m), experiences'[m] = experiences[m]
      PROVE  /\ Stored(m)' /\ experiences'[m].prior = experiences[m].prior
             /\ experiences[m].n > experiences[m].s => experiences'[m].n > experiences'[m].s
    BY <1>2 DEF Stored
<1>3. ASSUME Stored(m), experiences'[m] # experiences[m]
      PROVE  /\ Stored(m)' /\ experiences'[m].prior = experiences[m].prior
             /\ experiences[m].n > experiences[m].s => experiences'[m].n > experiences'[m].s
    <2>1. experiences[m] \in Row
        BY <1>3 DEF Tabled, Stored
    <2>2. PICK ok \in BOOLEAN : experiences'[m] = AfterReport(experiences[m], ok)
        BY <1>3 DEF RowsMove, Enters, Moves, Tabled
    <2>3. experiences'[m] \in Row
        BY <2>1, <2>2, AfterReportTyped
    <2> QED BY <2>1, <2>2, <2>3, AfterReportTyped, FleetAssumption DEF Stored
<1> QED BY <1>1, <1>2, <1>3

LEMMA NextTabled ==
    ASSUME Traced, Accounted, Tabled, RowsMove, EvidenceMoves
    PROVE  Tabled'
<1>1. setting \in Setting
    BY DEF Traced, IInv, Typed
<1>2. evidence' \in [Memories -> Nat \cup {Null}]
    <2>1. ASSUME NEW m \in Memories, Read(m) PROVE evidence' \in [Memories -> Nat \cup {Null}]
        <3>1. Reputation(payload'[m].author) \in Nat
            BY ReputationEarned DEF Traced
        <3> QED BY <2>1, <3>1 DEF Read, Tabled
    <2> QED BY <2>1 DEF EvidenceMoves, Tabled
<1>3. /\ experiences' \in [Memories -> Row \cup {Null}]
      /\ \A m \in Memories : Stored(m)' => evidence'[m] # Null
    <2>1. CASE experiences' = experiences
        BY <2>1, RowsLast DEF Tabled, Stored
    <2>2. ASSUME NEW m \in Memories, NEW p \in Payload, Enters(m, p)
          PROVE  /\ experiences' \in [Memories -> Row \cup {Null}]
                 /\ \A n \in Memories : Stored(n)' => evidence'[n] # Null
        <3>1. EntryRow(p, evidence'[m]) \in Row
            BY <1>1, <1>2, <2>2, EntryRowTyped DEF Enters
        <3>2. experiences' \in [Memories -> Row \cup {Null}]
            BY <2>2, <3>1 DEF Enters, Tabled
        <3>3. \A n \in Memories : n # m => experiences'[n] = experiences[n]
            BY <2>2 DEF Enters, Tabled
        <3> QED BY <2>2, <3>2, <3>3, RowsLast DEF Enters, Stored, Tabled
    <2>3. ASSUME NEW m \in Memories, NEW ok \in BOOLEAN, Moves(m, ok)
          PROVE  /\ experiences' \in [Memories -> Row \cup {Null}]
                 /\ \A n \in Memories : Stored(n)' => evidence'[n] # Null
        <3>1. experiences[m] \in Row
            BY <2>3 DEF Moves, Stored, Tabled
        <3>2. AfterReport(experiences[m], ok) \in Row
            BY <3>1, AfterReportTyped
        <3>3. experiences' \in [Memories -> Row \cup {Null}]
            BY <2>3, <3>2 DEF Moves, Tabled
        <3>4. \A n \in Memories : n # m => experiences'[n] = experiences[n]
            BY <2>3 DEF Moves, Tabled
        <3> QED BY <2>3, <3>3, <3>4, RowsLast DEF Moves, Stored, Tabled
    <2> QED BY <2>1, <2>2, <2>3 DEF RowsMove
<1> QED BY <1>2, <1>3 DEF Tabled

\* What was said of the author's other memories stays true.
LEMMA EarnedLasts ==
    ASSUME Vouched, Growing, Tabled, RowsMove, EvidenceMoves, NEW m \in Memories,
           payload[m] # Null
    PROVE  (Acclaimed(m) => Acclaimed(m)') /\ (Faulted(m) => Faulted(m)')
<1>1. AuthorOf(m)' = AuthorOf(m)
    BY DEF Growing, Kept, AuthorOf
<1>2. ASSUME NEW o \in WrittenBy(AuthorOf(m)) \ {m}
      PROVE  /\ o \in (WrittenBy(AuthorOf(m)) \ {m})' /\ o \in Memories /\ Stored(o)
    <2>1. o \in Memories /\ Stored(o) /\ AuthorOf(o) = AuthorOf(m) /\ o # m
        BY DEF WrittenBy, AllStored
    <2>2. payload[o] # Null
        BY <2>1 DEF Stored, Vouched, Traced, StoredIsSubmitted
    <2>3. AuthorOf(o)' = AuthorOf(o)
        BY <2>1, <2>2 DEF Growing, Kept, AuthorOf
    <2>4. Stored(o)'
        BY <2>1, RowsLast
    <2> QED BY <1>1, <2>1, <2>3, <2>4 DEF WrittenBy, AllStored
<1>3. Acclaimed(m) => Acclaimed(m)'
    <2> SUFFICES ASSUME NEW o \in WrittenBy(AuthorOf(m)) \ {m},
                        NEW a \in Agents \ {AuthorOf(m)}, Reason(o, a)
                 PROVE  Acclaimed(m)'
        BY DEF Acclaimed
    <2>1. Reason(o, a)'
        BY <1>2, ReasonLasts DEF Vouched, Traced, IInv
    <2> QED BY <1>1, <1>2, <2>1 DEF Acclaimed
<1>4. Faulted(m) => Faulted(m)'
    <2> SUFFICES ASSUME NEW o \in WrittenBy(AuthorOf(m)) \ {m},
                        experiences[o].n > experiences[o].s
                 PROVE  Faulted(m)'
        BY DEF Faulted
    <2>1. experiences'[o].n > experiences'[o].s
        BY <1>2, RowsLast
    <2> QED BY <1>2, <2>1 DEF Faulted
<1> QED BY <1>3, <1>4

\* What is read is earned: by memories that were stored already, so by others.
LEMMA NextEarned ==
    ASSUME Earnest, Growing, RowsMove, EvidenceMoves, Traced', setting.governed
    PROVE  \A m \in Memories : Earned(m)'
<1>1. /\ Traced /\ Tabled /\ Accounted /\ Vouched
      /\ \A m \in Memories : Earned(m) /\ Backed(m)
    BY DEF Earnest, Vouched
<1>2. ASSUME NEW m \in Memories, evidence'[m] = evidence[m]
      PROVE  Earned(m)'
    <2> SUFFICES ASSUME evidence[m] # Null
                 PROVE  /\ evidence[m] > DefaultPrior => Acclaimed(m)'
                        /\ evidence[m] < DefaultPrior => Faulted(m)'
        BY <1>2 DEF Earned
    <2>1. payload[m] # Null
        BY <1>1 DEF Traced, StoredIsSubmitted
    <2> QED BY <1>1, <2>1, EarnedLasts DEF Earned
<1>3. ASSUME NEW m \in Memories, Read(m)
      PROVE  Earned(m)'
    <2> DEFINE b == payload'[m].author
    <2>1. /\ ~Stored(m) /\ payload'[m] # Null /\ evidence'[m] = Reputation(b)
        BY <1>1, <1>3 DEF Read, Tabled
    <2>2. AuthorOf(m)' = b
        BY DEF AuthorOf
    <2>3. ASSUME NEW o \in WrittenBy(b)
          PROVE  /\ o \in Memories /\ Stored(o) /\ AuthorOf(o) = b
                 /\ o \in (WrittenBy(AuthorOf(m)) \ {m})'
        <3>1. o \in Memories /\ Stored(o) /\ AuthorOf(o) = b /\ o # m
            BY <2>1 DEF WrittenBy, AllStored
        <3>2. payload[o] # Null
            BY <1>1, <3>1 DEF Stored, Traced, StoredIsSubmitted
        <3>3. AuthorOf(o)' = b
            BY <3>1, <3>2 DEF Growing, Kept, AuthorOf
        <3>4. Stored(o)'
            BY <1>1, <3>1, RowsLast
        <3> QED BY <2>2, <3>1, <3>3, <3>4 DEF WrittenBy, AllStored
    <2>4. Reputation(b) > DefaultPrior => Acclaimed(m)'
        <3> SUFFICES ASSUME Reputation(b) > DefaultPrior PROVE Acclaimed(m)'
            OBVIOUS
        <3>1. PICK o \in WrittenBy(b) : experiences[o].s # 0
            BY <1>1, ReputationEarned DEF Traced
        <3>2. PICK a \in Agents \ {b} : Reason(o, a)
            BY <1>1, <2>3, <3>1 DEF Backed
        <3>3. Reason(o, a)'
            BY <1>1, <2>3, <3>2, ReasonLasts DEF Traced, IInv
        <3> QED BY <2>2, <2>3, <3>2, <3>3 DEF Acclaimed
    <2>5. Reputation(b) < DefaultPrior => Faulted(m)'
        <3> SUFFICES ASSUME Reputation(b) < DefaultPrior PROVE Faulted(m)'
            OBVIOUS
        <3>1. PICK o \in WrittenBy(b) : experiences[o].n > experiences[o].s
            BY <1>1, ReputationEarned DEF Traced
        <3>2. experiences'[o].n > experiences'[o].s
            BY <1>1, <2>3, <3>1, RowsLast
        <3> QED BY <2>3, <3>2 DEF Faulted
    <2> HIDE DEF b
    <2> QED BY <2>1, <2>4, <2>5 DEF Earned
<1>4. ASSUME NEW k \in Memories, Read(k), NEW m \in Memories, m # k
      PROVE  evidence'[m] = evidence[m]
    BY <1>1, <1>4 DEF Read, Tabled
<1> QED BY <1>2, <1>3, <1>4 DEF EvidenceMoves

LEMMA NextInherited ==
    ASSUME Earnest, Growing, RowsMove, EvidenceMoves, Tabled'
    PROVE  \A m \in Memories : Inherited(m)'
<1>1. setting \in Setting /\ Tabled /\ setting' = setting /\ \A m \in Memories : Inherited(m)
    BY DEF Earnest, Vouched, Traced, IInv, Typed, Growing
<1>2. ASSUME NEW m \in Memories, Stored(m)
      PROVE  Inherited(m)'
    <2>1. /\ experiences'[m].prior = experiences[m].prior
          /\ evidence[m] # Null /\ evidence'[m] = evidence[m]
        BY <1>1, <1>2, RowsLast DEF Tabled
    <2> QED BY <1>1, <1>2, <2>1 DEF Inherited
<1>3. ASSUME NEW m \in Memories, ~Stored(m), Stored(m)'
      PROVE  Inherited(m)'
    <2>1. PICK p \in Payload : Enters(m, p)
        BY <1>1, <1>3 DEF RowsMove, Stored, Enters, Moves, Tabled
    <2>2. evidence'[m] \in Nat /\ experiences'[m] = EntryRow(p, evidence'[m])
        BY <1>1, <2>1 DEF Enters, Tabled
    <2>3. \/ experiences'[m].prior = DefaultPrior
          \/ setting.governed /\ experiences'[m].prior = evidence'[m]
        BY <1>1, <2>2, EntryRowTyped
    <2> QED BY <1>1, <2>3 DEF Inherited
<1>4. ASSUME NEW m \in Memories, ~Stored(m)'
      PROVE  Inherited(m)'
    BY <1>4 DEF Inherited
<1> QED BY <1>2, <1>3, <1>4

LEMMA EarnestStep == Earnest /\ [Next]_vars => Earnest'
<1> SUFFICES ASSUME Earnest, [Next]_vars PROVE Earnest'
    OBVIOUS
<1>1. IInv /\ Traced /\ Vouched /\ Accounted /\ Tabled
    BY DEF Earnest, Vouched, Traced
<1>2. Growing /\ Vouched' /\ Accounted' /\ RowsMove /\ EvidenceMoves
    BY <1>1, NextGrows, VouchedStep, NextAccounted, NextMoves
<1>3. Tabled'
    BY <1>1, <1>2, NextTabled
<1>4. Traced' /\ setting' = setting
    BY <1>2 DEF Vouched, Growing
<1>5. setting.governed => \A m \in Memories : Earned(m)'
    BY <1>2, <1>4, NextEarned
<1>6. \A m \in Memories : Inherited(m)'
    BY <1>2, <1>3, NextInherited
<1> QED BY <1>2, <1>3, <1>4, <1>5, <1>6 DEF Earnest

LEMMA InitEarnest == Init => Earnest
<1> SUFFICES ASSUME Init PROVE Earnest
    OBVIOUS
<1>1. Tabled
    BY DEF Init, Tabled, Stored
<1>2. ASSUME NEW m \in Memories PROVE Earned(m) /\ Inherited(m)
    BY DEF Init, Earned, Inherited, Stored
<1> QED BY <1>1, <1>2, InitVouched, InitAccounted DEF Earnest

\* However old the evidence a worker has read when it stores a memory, and
\* whoever else reports meanwhile: a memory that starts above the default prior
\* has an author that helped a peer, or was vouched for by a liar, and one that
\* starts below it an author that has failed.
THEOREM PriorsAreEarned == Spec => []PriorIsEarned
<1>1. Earnest => PriorIsEarned
    <2> SUFFICES ASSUME Earnest, NEW m \in Memories, Stored(m)
                 PROVE  /\ experiences[m].prior > DefaultPrior => Acclaimed(m)
                        /\ experiences[m].prior < DefaultPrior => Faulted(m)
        BY DEF PriorIsEarned, Acclaimed, Faulted, Reason
    <2>1. Inherited(m) /\ evidence[m] # Null /\ (setting.governed => Earned(m))
        BY DEF Earnest, Tabled
    <2>2. CASE experiences[m].prior = DefaultPrior
        BY <2>2 DEF DefaultPrior
    <2>3. CASE setting.governed /\ experiences[m].prior = evidence[m]
        BY <2>1, <2>3 DEF Earned
    <2> QED BY <2>1, <2>2, <2>3 DEF Inherited
<1> QED BY <1>1, InitEarnest, EarnestStep, PTL DEF Spec

-----------------------------------------------------------------------------

LEMMA BoundedStep == IInv /\ Accounted /\ Bounded /\ [Next]_vars => Bounded'
<1> SUFFICES ASSUME IInv, Accounted, Bounded, [Next]_vars PROVE Bounded'
    OBVIOUS
<1>1. /\ setting' = setting /\ setting \in Settings /\ setting \in Setting
      /\ setting.maxTasks \in Nat /\ setting.maxLost \in Nat /\ tasks \in Nat /\ lost \in Nat
    <2>1. setting' = setting
        BY NextGrows DEF Growing
    <2> QED BY <2>1 DEF Bounded, IInv, Typed, Accounted, Setting
<1>2. ASSUME NEW m \in Memories, NEW a, NEW ok, Apply(m, a, ok)
      PROVE  disowned' \subseteq Memories
    BY <1>2 DEF Apply, tables, Bounded
<1>3. CASE Background \/ UNCHANGED vars
    <2>1. UNCHANGED <<helped, tasks, lost>>
        BY <1>3 DEF Background, Enrich, Insert, Arrive, vars, history
    <2>2. disowned' \subseteq Memories
        <3>1. \A r \in late : r.mem \in Memories
            BY DEF IInv, Typed, Report
        <3> QED BY <1>2, <1>3, <3>1 DEF Background, Enrich, Insert, Arrive, vars, tables, Bounded
    <2> QED BY <1>1, <2>1, <2>2 DEF Bounded
<1>4. ASSUME NEW a \in Agents, RunTask(a) \/ Return(a)
      PROVE  Bounded'
    <2>1. task[a] \in Task /\ AtWork(a)
        BY DEF IInv, Typed
    <2>2. tasks' \in 0..setting.maxTasks
        <3>1. tasks' = tasks \/ (tasks < setting.maxTasks /\ tasks' = tasks + 1)
            BY <1>4 DEF RunTask, Begin, RecordInjections, ContextFails, Solve, Abort, Publish,
                PublishUnanswered, StoreInProcess, SelfReport, SelfReportFails, ReportReuse,
                ReportFails, Return, history
        <3> QED BY <1>1, <3>1 DEF Bounded
    <2>3. lost' \in 0..setting.maxLost
        <3>1. lost' = lost \/ (lost < setting.maxLost /\ lost' = lost + 1)
            BY <1>4 DEF RunTask, Begin, RecordInjections, ContextFails, Solve, Abort, Publish,
                PublishUnanswered, StoreInProcess, SelfReport, SelfReportFails, ReportReuse,
                ReportFails, Return, history, GoesWrong
        <3> QED BY <1>1, <3>1 DEF Bounded
    <2>4. helped' \subseteq Memories \X Agents
        <3>1. CASE Solve(a)
            <4>1. PICK missing \in Answers(a) : helped' = helped \cup
                      (IF Strict(missing) THEN {<<m, a>> : m \in task[a].got} ELSE {})
                BY <3>1 DEF Solve
            <4>2. task[a].got \subseteq Memories
                BY <2>1 DEF Task
            <4> QED BY <4>1, <4>2 DEF Bounded
        <3>2. CASE helped' = helped
            BY <3>2 DEF Bounded
        <3> QED BY <1>4, <3>1, <3>2 DEF RunTask, Begin, RecordInjections, ContextFails, Abort,
                Publish, PublishUnanswered, StoreInProcess, SelfReport, SelfReportFails,
                ReportReuse, ReportFails, Return, history
    <2>5. disowned' \subseteq Memories
        <3>1. CASE SelfReport(a)
            <4>1. task[a].own \in Memories
                BY <2>1, <3>1 DEF SelfReport, AtWork
            <4> QED BY <1>2, <3>1, <4>1 DEF SelfReport, tables, Bounded
        <3>2. ASSUME NEW m \in task[a].todo, ReportReuse(a, m)
              PROVE  disowned' \subseteq Memories
            <4>1. m \in Memories
                BY <2>1 DEF Task
            <4> QED BY <1>2, <3>2, <4>1 DEF ReportReuse, tables, Bounded
        <3>3. CASE disowned' = disowned
            BY <3>3 DEF Bounded
        <3> QED BY <1>4, <3>1, <3>2, <3>3 DEF RunTask, Begin, RecordInjections, ContextFails,
                Solve, Abort, Publish, PublishUnanswered, StoreInProcess, SelfReportFails,
                ReportFails, Return, tables, history
    <2> QED BY <1>1, <2>2, <2>3, <2>4, <2>5 DEF Bounded
<1>5. \A a \in setting.agents : a \in Agents
    BY <1>1 DEF Setting
<1> QED BY <1>3, <1>4, <1>5 DEF Next

LEMMA InitBounded == Init => Bounded
<1> SUFFICES ASSUME Init PROVE Bounded
    OBVIOUS
<1>1. setting \in Setting /\ setting.maxTasks \in Nat /\ setting.maxLost \in Nat
    BY FleetAssumption DEF Init, Setting
<1> QED BY <1>1 DEF Init, Bounded

\* The fleet's variables have their types; in particular every row of the table
\* is one the Judge can have left, whatever was reported on it.
THEOREM FleetTyped == Spec => []TypeOK
<1>1. Earnest /\ Bounded => TypeOK
    BY DEF Earnest, Vouched, Traced, IInv, Typed, Ledger, Accounted, Tabled, Bounded, TypeOK
<1>2. Earnest => IInv /\ Accounted
    BY DEF Earnest, Vouched, Traced
<1> QED BY <1>1, <1>2, InitEarnest, EarnestStep, InitBounded, BoundedStep, PTL DEF Spec

-----------------------------------------------------------------------------
(* The ladder.                                                             *)

\* Counters that make sense, and a confidence of them.
Recorded ==
    \A m \in Memories :
        /\ Stored(m) => experiences[m].s <= experiences[m].n
        /\ evidence[m] # Null => evidence[m] <= One

LEMMA RecordKept ==
    ASSUME NEW r \in Row, NEW ok \in BOOLEAN, r.s <= r.n
    PROVE  AfterReport(r, ok).s <= AfterReport(r, ok).n
<1> DEFINE n == r.n + 1
           s == IF ok THEN r.s + 1 ELSE r.s
<1>1. r.n \in Nat /\ r.s \in Nat
    BY DEF Row
<1>2. s <= n
    BY <1>1
<1>3. AfterReport(r, ok) = [r EXCEPT !.n = n, !.s = s, !.tier = Decide(r.tier, n, s),
                                     !.conf = ConfidenceAfter(r.tier, n, s, r.prior)]
    BY DEF AfterReport
<1> HIDE DEF n, s
<1> QED BY <1>2, <1>3 DEF Row

LEMMA EntryUnreported ==
    ASSUME NEW p, NEW prior
    PROVE  EntryRow(p, prior).s = 0 /\ EntryRow(p, prior).n = 0
BY DEF EntryRow, Entry

LEMMA ReputationBounded ==
    ASSUME StoredIsSubmitted, Accounted, Tabled, Recorded, NEW b
    PROVE  Reputation(b) \in 0..One
<1> DEFINE W == WrittenBy(b)
           successes == SumFunctionOnSet(reuse_success_count, W)
           all       == SumFunctionOnSet(reuse_count, W)
<1>1. IsFiniteSet(W)
    <2>1. W \subseteq AllStored
        BY DEF WrittenBy
    <2> QED BY <2>1, StoredFinite, FS_Subset
<1>2. \A o \in W : /\ reuse_success_count[o] \in Nat /\ reuse_count[o] \in Nat
                   /\ reuse_success_count[o] <= reuse_count[o]
    BY DEF WrittenBy, AllStored, Stored, reuse_success_count, reuse_count, Tabled, Row, Recorded
<1>3. Reputation(b) = Posterior(successes, all, DefaultPrior)
    BY DEF Reputation
<1> HIDE DEF W
<1>4. successes \in Nat /\ all \in Nat
    BY <1>1, <1>2, SumTyped
<1>5. successes <= all
    BY <1>1, <1>2, SumOrdered
<1> HIDE DEF successes, all
<1> QED BY <1>3, <1>4, <1>5, PosteriorBounded

LEMMA RecordedStep ==
    ASSUME Traced, Accounted, Tabled, Recorded, RowsMove, EvidenceMoves
    PROVE  Recorded'
<1>1. ASSUME NEW m \in Memories, Stored(m)'
      PROVE  experiences'[m].s <= experiences'[m].n
    <2>1. CASE experiences'[m] = experiences[m]
        BY <1>1, <2>1 DEF Recorded, Stored
    <2>2. ASSUME NEW k \in Memories, NEW p \in Payload, Enters(k, p),
                 experiences'[m] # experiences[m]
          PROVE  experiences'[m].s <= experiences'[m].n
        <3>1. experiences'[m] = EntryRow(p, evidence'[m])
            BY <2>2 DEF Enters, Tabled
        <3> QED BY <3>1, EntryUnreported
    <2>3. ASSUME NEW k \in Memories, NEW ok \in BOOLEAN, Moves(k, ok),
                 experiences'[m] # experiences[m]
          PROVE  experiences'[m].s <= experiences'[m].n
        <3>1. Stored(m) /\ experiences'[m] = AfterReport(experiences[m], ok)
            BY <2>3 DEF Moves, Tabled
        <3>2. experiences[m] \in Row /\ experiences[m].s <= experiences[m].n
            BY <3>1 DEF Tabled, Stored, Recorded
        <3> QED BY <3>1, <3>2, RecordKept
    <2> QED BY <2>1, <2>2, <2>3 DEF RowsMove
<1>2. ASSUME NEW m \in Memories, evidence'[m] # Null
      PROVE  evidence'[m] <= One
    <2>1. StoredIsSubmitted
        BY DEF Traced
    <2>2. CASE evidence'[m] = evidence[m]
        BY <1>2, <2>2 DEF Recorded
    <2>3. ASSUME NEW k \in Memories, Read(k), evidence'[m] # evidence[m]
          PROVE  evidence'[m] <= One
        <3>1. evidence'[m] = Reputation(payload'[m].author)
            BY <2>3 DEF Read, Tabled
        <3>2. evidence'[m] \in 0..One
            BY <2>1, <3>1, ReputationBounded
        <3> QED BY <3>2, Confidences, Zenon
    <2> QED BY <2>2, <2>3 DEF EvidenceMoves
<1> QED BY <1>1, <1>2 DEF Recorded

\* The ladder's Judge is the fleet's.
LEMMA SameRows ==
    /\ WithPriors!EntryRows = EntryRows
    /\ WithoutPriors!EntryRows = DefaultEntries(FALSE) \cup DefaultEntries(TRUE)
<1>1. \A x : WithPriors!DefaultEntries(x) = DefaultEntries(x)
    BY DEF DefaultEntries, WithPriors!DefaultEntries, Entry, WithPriors!Entry, InitialTier,
           WithPriors!InitialTier, InitialConfidence, WithPriors!InitialConfidence,
           DefaultPrior, WithPriors!DefaultPrior
<1>2. \A x : WithoutPriors!DefaultEntries(x) = DefaultEntries(x)
    BY DEF DefaultEntries, WithoutPriors!DefaultEntries, Entry, WithoutPriors!Entry, InitialTier,
           WithoutPriors!InitialTier, InitialConfidence, WithoutPriors!InitialConfidence,
           DefaultPrior, WithoutPriors!DefaultPrior
<1>3. \A p : WithPriors!Entry(TRUE, p, p) = Entry(TRUE, p, p)
    BY DEF Entry, WithPriors!Entry, InitialTier, WithPriors!InitialTier
<1>4. WithPriors!EntryRows = EntryRows
    BY <1>1, <1>3 DEF EntryRows, WithPriors!EntryRows
<1>5. WithoutPriors!EntryRows = DefaultEntries(FALSE) \cup DefaultEntries(TRUE)
    BY <1>2 DEF WithoutPriors!EntryRows
<1> QED BY <1>4, <1>5

LEMMA SameReports ==
    \A r, ok : /\ WithPriors!AfterReport(r, ok) = AfterReport(r, ok)
               /\ WithoutPriors!AfterReport(r, ok) = AfterReport(r, ok)
<1>1. \A n, s : WithPriors!Failing(n, s) = Failing(n, s) /\ WithoutPriors!Failing(n, s) = Failing(n, s)
    BY DEF Failing, WithPriors!Failing, WithoutPriors!Failing
<1>2. \A n, s, a, b : /\ WithPriors!Proven(n, s, a, b) = Proven(n, s, a, b)
                      /\ WithoutPriors!Proven(n, s, a, b) = Proven(n, s, a, b)
    BY DEF Proven, WithPriors!Proven, WithoutPriors!Proven
<1>3. \A t, n, s : WithPriors!Decide(t, n, s) = Decide(t, n, s)
    BY <1>1, <1>2 DEF Decide, WithPriors!Decide
<1>4. \A t, n, s : WithoutPriors!Decide(t, n, s) = Decide(t, n, s)
    BY <1>1, <1>2 DEF Decide, WithoutPriors!Decide
<1>5. \A s, n, p : /\ WithPriors!Posterior(s, n, p) = Posterior(s, n, p)
                   /\ WithoutPriors!Posterior(s, n, p) = Posterior(s, n, p)
    BY DEF Posterior, WithPriors!Posterior, WithoutPriors!Posterior,
           Nearest, WithPriors!Nearest, WithoutPriors!Nearest, One, WithPriors!One,
           WithoutPriors!One, PriorWeight, WithPriors!PriorWeight, WithoutPriors!PriorWeight
<1>6. \A t, n, s, p : WithPriors!ConfidenceAfter(t, n, s, p) = ConfidenceAfter(t, n, s, p)
    BY <1>3, <1>5 DEF ConfidenceAfter, WithPriors!ConfidenceAfter, DefaultPrior,
                      WithPriors!DefaultPrior
<1>7. \A t, n, s, p : WithoutPriors!ConfidenceAfter(t, n, s, p) = ConfidenceAfter(t, n, s, p)
    BY <1>4, <1>5 DEF ConfidenceAfter, WithoutPriors!ConfidenceAfter, DefaultPrior,
                      WithoutPriors!DefaultPrior
<1>8. \A r, ok : WithPriors!AfterReport(r, ok) = AfterReport(r, ok)
    BY <1>3, <1>6 DEF AfterReport, WithPriors!AfterReport
<1>9. \A r, ok : WithoutPriors!AfterReport(r, ok) = AfterReport(r, ok)
    BY <1>4, <1>7 DEF AfterReport, WithoutPriors!AfterReport
<1> QED BY <1>8, <1>9

\* What a governed fleet stores is what the Judge lets in.
LEMMA EntryIsJudged ==
    ASSUME setting \in Setting, setting.governed, NEW p \in Payload, NEW prior \in 0..One,
           AuthorPriors = 0..One
    PROVE  /\ setting.authorPrior => EntryRow(p, prior) \in EntryRows
           /\ ~setting.authorPrior =>
                  EntryRow(p, prior) \in DefaultEntries(FALSE) \cup DefaultEntries(TRUE)
<1>1. p.success \in BOOLEAN /\ setting.authorPrior \in BOOLEAN /\ setting.governed = TRUE
    BY DEF Payload, Setting
<1>2. \A b \in BOOLEAN : Entry(b, InitialConfidence(b, b), DefaultPrior) \in DefaultEntries(b)
    BY DEF DefaultEntries
<1>3. CASE setting.authorPrior /\ p.success
    <2>1. EntryRow(p, prior) = Entry(TRUE, prior, prior)
        BY <1>3 DEF EntryRow
    <2>2. AuthorPriors # {} /\ prior \in AuthorPriors
        OBVIOUS
    <2> QED BY <1>3, <2>1, <2>2 DEF EntryRows
<1>4. CASE ~(setting.authorPrior /\ p.success)
    <2> DEFINE e == Entry(p.success, InitialConfidence(p.success, p.success), DefaultPrior)
    <2>1. e \in DefaultEntries(p.success)
        BY <1>1, <1>2
    <2>2. EntryRow(p, prior) = e
        BY <1>1, <1>4 DEF EntryRow, Entry, InitialTier
    <2>3. EntryRow(p, prior) \in DefaultEntries(p.success)
        BY <2>1, <2>2
    <2> QED BY <1>1, <1>4, <2>3 DEF EntryRows
<1> QED BY <1>3, <1>4

Climbs == setting.governed =>
              IF setting.authorPrior THEN WithPriors!Next ELSE WithoutPriors!Next

LEMMA StepClimbs ==
    ASSUME AuthorPriors = 0..One, Earnest, Recorded, [Next]_vars
    PROVE  Recorded' /\ [Climbs]_experiences
<1>1. Traced /\ IInv /\ Accounted /\ Tabled /\ setting \in Setting
    BY DEF Earnest, Vouched, Traced, IInv, Typed
<1>2. RowsMove /\ EvidenceMoves
    BY <1>1, NextMoves
<1>3. Tabled' /\ Recorded'
    BY <1>1, <1>2, NextTabled, RecordedStep
<1>4. ASSUME NEW m \in Memories, NEW p \in Payload, Enters(m, p), setting.governed
      PROVE  IF setting.authorPrior THEN WithPriors!Enter(m) ELSE WithoutPriors!Enter(m)
    <2>1. evidence'[m] \in 0..One
        <3>1. evidence'[m] \in Nat \cup {Null} /\ evidence'[m] # Null
            BY <1>3, <1>4 DEF Enters, Tabled
        <3>2. evidence'[m] <= One
            BY <1>3, <3>1 DEF Recorded
        <3> QED BY <3>1, <3>2, Confidences, Zenon
    <2> DEFINE r == EntryRow(p, evidence'[m])
    <2>2. /\ setting.authorPrior => r \in WithPriors!EntryRows
          /\ ~setting.authorPrior => r \in WithoutPriors!EntryRows
        BY <1>1, <1>4, <2>1, EntryIsJudged, SameRows
    <2>3. ~Stored(m) /\ experiences' = [experiences EXCEPT ![m] = r]
        BY <1>4 DEF Enters
    <2> HIDE DEF r
    <2> QED BY <2>2, <2>3 DEF Stored, WithPriors!Enter, WithPriors!Stored,
                               WithoutPriors!Enter, WithoutPriors!Stored
<1>5. ASSUME NEW m \in Memories, NEW ok \in BOOLEAN, Moves(m, ok)
      PROVE  WithPriors!Report(m, ok) /\ WithoutPriors!Report(m, ok)
    <2>1. Stored(m) /\ experiences' = [experiences EXCEPT ![m] = AfterReport(experiences[m], ok)]
        BY <1>5 DEF Moves
    <2> QED BY <2>1, SameReports, Zenon
            DEF Stored, WithPriors!Report, WithPriors!Stored,
                WithoutPriors!Report, WithoutPriors!Stored
<1>6. ASSUME experiences' # experiences PROVE Climbs
    <2>1. CASE \E m \in Memories, p \in Payload : Enters(m, p)
        BY <1>4, <2>1 DEF Climbs, WithPriors!Next, WithoutPriors!Next
    <2>2. CASE \E m \in Memories, ok \in BOOLEAN : Moves(m, ok)
        BY <1>5, <2>2 DEF Climbs, WithPriors!Next, WithoutPriors!Next
    <2> QED BY <1>2, <1>6, <2>1, <2>2 DEF RowsMove
<1> QED BY <1>3, <1>6

\* A governed fleet implements the ladder, with any reputation an author may
\* have when priors are on (author_reputation): whatever its agents do, and
\* however late it comes, a memory enters as the Judge assigns it and moves by
\* whole reports, so that what is proved of the ladder's rows is true of theirs.
THEOREM ImplementsLadder ==
    ASSUME AuthorPriors = 0..One
    PROVE  Spec => ClimbsTheLadder
<1>1. Init => Recorded
    BY DEF Init, Recorded, Stored
<1>2. Earnest /\ Recorded /\ [Next]_vars => Recorded' /\ [Climbs]_experiences
    BY StepClimbs
<1> QED BY <1>1, <1>2, InitEarnest, EarnestStep, PTL DEF Spec, ClimbsTheLadder, Climbs
=============================================================================
