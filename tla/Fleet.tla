------------------------------- MODULE Fleet -------------------------------
(***************************************************************************)
(* A fleet of agents at work on the governed store: each runs one task at  *)
(* a time (run_task: context, answer, store, report), over the HTTP client *)
(* with its lost answers and the queued write path, or in process when the *)
(* benchmark harness drives them one after the other.                      *)
(*                                                                         *)
(* The tables are seen one transaction at a time: that apply_reuse behaves *)
(* so is shown in Reuse, that the queue stores an experience once in       *)
(* Ingest, and which memories a context picks in Context.                  *)
(***************************************************************************)
EXTENDS Judge, FiniteSets, Functions

CONSTANTS
    Memories, Agents, Families,   \* a family is a task_key
    RoleOf, Null,
    Settings       \* the ways the fleet is run (see Setting)

\* How the fleet runs: with memory or as the stateless baseline; governed, or
\* flat; author priors on or off; outcomes always observed (feedback_rate 1) or
\* only at times; under the harness or over HTTP; max_context_memories; and
\* which agents talk through AdversaryClient.  The agents at work, the families
\* of their tasks, and two bounds of the model: the tasks begun and the calls
\* that go wrong, in all.
Setting == [memory : BOOLEAN, governed : BOOLEAN, authorPrior : BOOLEAN,
            observed : BOOLEAN, harness : BOOLEAN, k : Nat, liars : SUBSET Agents,
            agents : SUBSET Agents, families : SUBSET Families,
            maxTasks : Nat, maxLost : Nat]

\* missing: the steps of the right procedure that the text lacks.
Payload == [author : Agents, family : Families, missing : 0..2, success : BOOLEAN]

ASSUME FleetAssumption ==
    /\ Settings \subseteq Setting
    /\ Null \notin Row /\ Null \notin Memories /\ Null \notin Families /\ Null \notin Nat
    /\ Null \notin Payload

VARIABLES
    setting,
    payload,      \* what each memory says, from the moment it is submitted
    evidence,     \* the prior a worker has read for a memory it is storing
    experiences,  \* table: the governance columns of each memory
    credit,       \* table injections: unreported rows per memory and agent
    counted,      \* table reuse_events: counted reports of peers, likewise
    disowned,     \* likewise: memories their author has reported as failed
    pc, task,     \* per agent: its next step, what it knows of its task
    late,         \* reports given up by the client that may still arrive
    tasks, lost,  \* tasks begun and calls gone wrong (bounds of the model)
    acked,        \* history: memories whose id reached the agent
    aborts,       \* history: tasks ended by an exception
    seen,         \* history: times a memory was in an agent's prompt
    helped        \* history: <<m, a>>, a solved a task with m in its prompt

tables  == <<experiences, credit, counted, disowned>>
agents  == <<pc, task>>
history == <<acked, aborts, seen, helped>>
vars    == <<setting, payload, evidence, tables, agents, late, tasks, lost, history>>

Task    == [family : Families \cup {Null}, got : SUBSET Memories, missing : 0..2,
            own : Memories \cup {Null}, todo : SUBSET Memories]
Report  == [mem : Memories, by : Agents, ok : BOOLEAN, nr : Nat]

NewTask(f, M) == [family |-> f, got |-> M, missing |-> 0, own |-> Null, todo |-> {}]
NoTask == NewTask(Null, {})

Stored(m)    == experiences[m] # Null
AuthorOf(m)  == payload[m].author
Submitted    == {m \in Memories : payload[m] # Null}

Init ==
    /\ setting \in Settings
    /\ payload = [m \in Memories |-> Null]
    /\ evidence = [m \in Memories |-> Null]
    /\ experiences = [m \in Memories |-> Null]
    /\ credit = [x \in Memories \X Agents |-> 0]
    /\ counted = [x \in Memories \X Agents |-> 0]
    /\ seen = [x \in Memories \X Agents |-> 0]
    /\ pc = [a \in Agents |-> "idle"]
    /\ task = [a \in Agents |-> NoTask]
    /\ late = {} /\ disowned = {} /\ acked = {} /\ helped = {}
    /\ tasks = 0 /\ lost = 0 /\ aborts = 0

GoesWrong == ~setting.harness /\ lost < setting.maxLost /\ lost' = lost + 1

Step(a, to) == pc' = [pc EXCEPT ![a] = to]

-----------------------------------------------------------------------------
(* The task begins, and asks for context.                                  *)

RetrievableAtAnyConfidence(m, a) ==   \* slip: no confidence floor
    /\ Stored(m)
    /\ VisibleTo(experiences[m].tier, AuthorOf(m), RoleOf[AuthorOf(m)], a, RoleOf[a])

Retrievable(m, a) ==
    /\ Stored(m)
    /\ VisibleTo(experiences[m].tier, AuthorOf(m), RoleOf[AuthorOf(m)], a, RoleOf[a])
    /\ experiences[m].conf >= MinConfidence

\* What the first transaction of prepare_context may pick: of a family at most
\* one memory.  With none the task goes on without, as it does without asking
\* and when the call fails here.
Picks(a) ==
    {picked \in SUBSET {m \in Memories : setting.memory /\ Retrievable(m, a)} :
        /\ Cardinality(picked) <= setting.k
        /\ \A m, n \in picked : payload[m].family = payload[n].family => m = n}

\* The harness runs its agents in one thread.
Begin(a, f) ==
    /\ pc[a] = "idle" /\ tasks < setting.maxTasks
    /\ setting.harness => \A b \in Agents : pc[b] = "idle"
    /\ \E picked \in Picks(a) :
          /\ task' = [task EXCEPT ![a] = NewTask(f, picked)]
          /\ Step(a, IF picked = {} THEN "solving" ELSE "noting")
    /\ tasks' = tasks + 1
    /\ UNCHANGED <<setting, payload, evidence, tables, late, lost, history>>

Plus(f, M, a) == [x \in DOMAIN f |-> IF x[1] \in M /\ x[2] = a THEN f[x] + 1 ELSE f[x]]

\* record_injections, second transaction, and the answer.
RecordInjections(a) ==
    /\ pc[a] = "noting"
    /\ credit' = Plus(credit, task[a].got, a)
    /\ seen' = Plus(seen, task[a].got, a)
    /\ Step(a, "solving")
    /\ UNCHANGED <<setting, payload, evidence, experiences, counted, disowned,
                   task, late, tasks, lost, acked, aborts, helped>>

\* The transaction fails, or its answer is lost: context() logs and goes on
\* with no memory, and the ledger may have the injections all the same.
ContextFails(a) ==
    /\ pc[a] = "noting" /\ GoesWrong
    /\ credit' \in {credit, Plus(credit, task[a].got, a)}
    /\ task' = [task EXCEPT ![a].got = {}]
    /\ Step(a, "solving")
    /\ UNCHANGED <<setting, payload, evidence, experiences, counted, disowned,
                   late, tasks, history>>

-----------------------------------------------------------------------------
(* The answer, its two verdicts, and the store.                            *)

\* Verdict.strict, the true outcome, and Verdict.lenient, the self-check.
Strict(missing)  == missing = 0
Lenient(missing) == missing <= 1

\* What an agent may answer.  The simulated model follows a right memory of the
\* task's family with at most one slip; a flawed one it follows, gap and all,
\* or it starts from scratch, and then misses up to two steps.  What another
\* model does is left open.
Answers(a) ==
    IF /\ setting.harness
       /\ \E m \in task[a].got : /\ payload[m].family = task[a].family
                                 /\ payload[m].success /\ payload[m].missing = 0
    THEN 0..1 ELSE 0..2

Solve(a) ==
    /\ pc[a] = "solving"
    /\ \E missing \in Answers(a) :
          /\ task' = [task EXCEPT ![a].missing = missing]
          /\ helped' = helped \cup
                 (IF Strict(missing) THEN {<<m, a>> : m \in task[a].got} ELSE {})
    /\ Step(a, "storing")
    /\ UNCHANGED <<setting, payload, evidence, tables, late, tasks, lost, acked, aborts, seen>>

\* The model call raises, or the store is refused: run_task ends, and what was
\* put in the prompt is never reported on.
Abort(a) ==
    /\ pc[a] \in {"solving", "storing"} /\ GoesWrong
    /\ Step(a, "idle")
    /\ task' = [task EXCEPT ![a] = NoTask]
    /\ aborts' = aborts + 1
    /\ UNCHANGED <<setting, payload, evidence, tables, late, tasks, acked, seen, helped>>

\* What is stored: the agent's own judgement of its answer.  AdversaryClient
\* puts in a procedure without its last two steps, and says it worked.
Submission(a) ==
    [author |-> a, family |-> task[a].family,
     missing |-> IF a \in setting.liars THEN 2 ELSE task[a].missing,
     success |-> a \in setting.liars \/ Lenient(task[a].missing)]

\* Its id m is returned; then, if the agent is to report at all (report_reuse)
\* and sees how the task came out (_feedback_observed), it will.
StoredAs(a, m) ==
    \/ /\ setting.governed
       /\ Step(a, "reporting")
       /\ task' = [task EXCEPT ![a].own = m, ![a].todo = task[a].got]
    \/ /\ ~setting.governed \/ ~setting.observed
       /\ Step(a, "done")
       /\ task' = [task EXCEPT ![a].own = m]

Fresh == CHOOSE m \in Memories : payload[m] = Null

PublishTwice(a) ==   \* slip: the client sends the experience again
    /\ pc[a] = "storing" /\ GoesWrong
    /\ \E m, n \in Memories \ Submitted :
          /\ m # n
          /\ payload' = [payload EXCEPT ![m] = Submission(a), ![n] = Submission(a)]
          /\ acked' = acked \cup {n}
          /\ StoredAs(a, n)
    /\ UNCHANGED <<setting, evidence, tables, late, tasks, aborts, seen, helped>>

AnswerFirst(a) ==   \* slip: the 202 is sent before the publish, which fails
    /\ pc[a] = "storing" /\ ~setting.harness /\ Submitted # Memories
    /\ acked' = acked \cup {Fresh}
    /\ StoredAs(a, Fresh)
    /\ UNCHANGED <<setting, payload, evidence, tables, late, tasks, lost, aborts, seen, helped>>

\* store over HTTP with the queue: accepted (202), under a fresh id.
Publish(a) ==
    /\ pc[a] = "storing" /\ ~setting.harness /\ Submitted # Memories
    /\ payload' = [payload EXCEPT ![Fresh] = Submission(a)]
    /\ acked' = acked \cup {Fresh}
    /\ StoredAs(a, Fresh)
    /\ UNCHANGED <<setting, evidence, tables, late, tasks, lost, aborts, seen, helped>>

\* The answer is lost: store() raises though the experience is on its way.
PublishUnanswered(a) ==
    /\ pc[a] = "storing" /\ GoesWrong /\ Submitted # Memories
    /\ payload' = [payload EXCEPT ![Fresh] = Submission(a)]
    /\ Step(a, "idle")
    /\ task' = [task EXCEPT ![a] = NoTask]
    /\ aborts' = aborts + 1
    /\ UNCHANGED <<setting, evidence, tables, late, tasks, acked, seen, helped>>

-----------------------------------------------------------------------------
(* process_experience.                                                     *)

AllStored    == {m \in Memories : Stored(m)}
WrittenBy(a) == {m \in AllStored : AuthorOf(m) = a}

\* The counters, by memory.
reuse_success_count == [m \in AllStored |-> experiences[m].s]
reuse_count         == [m \in AllStored |-> experiences[m].n]

ReputationAmongPeers(a) ==   \* slip: the evidence of every author
    Posterior(SumFunction(reuse_success_count), SumFunction(reuse_count), DefaultPrior)

\* author_evidence, in a transaction of its own, and author_reputation.
Reputation(a) ==
    Posterior(SumFunctionOnSet(reuse_success_count, WrittenBy(a)),
              SumFunctionOnSet(reuse_count, WrittenBy(a)), DefaultPrior)

EntryRowOfItsAuthor(p, prior) ==   \* slip: a failure has its author's prior, too
    CASE ~setting.governed -> [Entry(TRUE, 5000, DefaultPrior) EXCEPT !.tier = "shared"]
      [] setting.governed /\ setting.authorPrior -> Entry(p.success, prior, prior)
      [] OTHER -> Entry(p.success, InitialConfidence(p.success, p.success), DefaultPrior)

\* The row an experience enters with, given what was read of its author.
EntryRow(p, prior) ==
    CASE ~setting.governed -> [Entry(TRUE, 5000, DefaultPrior) EXCEPT !.tier = "shared"]
      [] setting.governed /\ setting.authorPrior /\ p.success -> Entry(TRUE, prior, prior)
      [] OTHER -> Entry(p.success, InitialConfidence(p.success, p.success), DefaultPrior)

\* A worker has an experience in hand, and reads its author's evidence.
Enrich(m) ==
    /\ payload[m] # Null /\ evidence[m] = Null
    /\ evidence' = [evidence EXCEPT ![m] = Reputation(AuthorOf(m))]
    /\ UNCHANGED <<setting, payload, tables, agents, late, tasks, lost, history>>

\* insert_enriched_experience.
Insert(m) ==
    /\ evidence[m] # Null /\ ~Stored(m)
    /\ experiences' = [experiences EXCEPT ![m] = EntryRow(payload[m], evidence[m])]
    /\ UNCHANGED <<setting, payload, evidence, credit, counted, disowned, agents,
                   late, tasks, lost, history>>

\* InProcessClient.store: the same pipeline, before the call returns.
StoreInProcess(a) ==
    /\ pc[a] = "storing" /\ setting.harness /\ Submitted # Memories
    /\ payload' = [payload EXCEPT ![Fresh] = Submission(a)]
    /\ evidence' = [evidence EXCEPT ![Fresh] = Reputation(a)]
    /\ experiences' = [experiences EXCEPT ![Fresh] = EntryRow(Submission(a), Reputation(a))]
    /\ acked' = acked \cup {Fresh}
    /\ StoredAs(a, Fresh)
    /\ UNCHANGED <<setting, credit, counted, disowned, late, tasks, lost, aborts, seen, helped>>

-----------------------------------------------------------------------------
(* The reports.                                                            *)

\* _reuse_is_countable.
Countable(m, a, ok) ==
    IF a = AuthorOf(m) THEN ~ok /\ m \notin disowned ELSE credit[<<m, a>>] > 0

\* apply_reuse; a report on a memory that is not stored (yet) is a 404.
Apply(m, a, ok) ==
    \/ /\ Stored(m) /\ Countable(m, a, ok)
       /\ experiences' = [experiences EXCEPT ![m] = AfterReport(@, ok)]
       /\ \/ /\ a = AuthorOf(m)
             /\ disowned' = disowned \cup {m}
             /\ UNCHANGED <<credit, counted>>
          \/ /\ a # AuthorOf(m)
             /\ credit' = [credit EXCEPT ![<<m, a>>] = @ - 1]
             /\ counted' = [counted EXCEPT ![<<m, a>>] = @ + 1]
             /\ UNCHANGED disowned
    \/ ~(Stored(m) /\ Countable(m, a, ok)) /\ UNCHANGED tables

SaysBySelfCheck(a) == a \in setting.liars \/ Lenient(task[a].missing)   \* slip

\* An agent reports its task's true outcome, a liar a success.
Says(a) == a \in setting.liars \/ Strict(task[a].missing)

\* AdversaryClient sends nothing on memories in own_ids, which all the liars
\* of a run share (run_arm_detailed).
Withheld(a, m) == a \in setting.liars /\ AuthorOf(m) \in setting.liars

ReportReuse(a, m) ==
    /\ pc[a] = "reporting" /\ m \in task[a].todo
    /\ task' = [task EXCEPT ![a].todo = @ \ {m}]
    /\ IF Withheld(a, m) THEN UNCHANGED tables ELSE Apply(m, a, Says(a))
    /\ UNCHANGED <<setting, payload, evidence, pc, late, tasks, lost, history>>

\* Whether its new memory needs to be taken back: stored as a success, wrong.
TakesBack(a) == Lenient(task[a].missing) /\ ~Strict(task[a].missing)

\* All are reported; the agent reports on its own memory if it must.
SelfReport(a) ==
    /\ pc[a] = "reporting" /\ task[a].todo = {}
    /\ IF TakesBack(a) /\ ~Withheld(a, task[a].own)
       THEN Apply(task[a].own, a, FALSE) ELSE UNCHANGED tables
    /\ Step(a, "done")
    /\ UNCHANGED <<setting, payload, evidence, task, late, tasks, lost, history>>

\* report_reuse logs a failed or unanswered call and returns: the report is
\* gone, or still on its way to the server.
MayArrive(m, a, ok) ==
    late' \in {late, late \cup {[mem |-> m, by |-> a, ok |-> ok, nr |-> lost]}}

ReportFailsAndIsRetried(a, m) ==   \* slip: an unanswered report is sent again
    /\ pc[a] = "reporting" /\ m \in task[a].todo /\ GoesWrong
    /\ MayArrive(m, a, Says(a))
    /\ UNCHANGED <<setting, payload, evidence, tables, agents, tasks, history>>

ReportFails(a, m) ==
    /\ pc[a] = "reporting" /\ m \in task[a].todo /\ GoesWrong
    /\ task' = [task EXCEPT ![a].todo = @ \ {m}]
    /\ MayArrive(m, a, Says(a))
    /\ UNCHANGED <<setting, payload, evidence, tables, pc, tasks, history>>

SelfReportFails(a) ==
    /\ pc[a] = "reporting" /\ task[a].todo = {} /\ TakesBack(a) /\ GoesWrong
    /\ MayArrive(task[a].own, a, FALSE)
    /\ Step(a, "done")
    /\ UNCHANGED <<setting, payload, evidence, tables, task, tasks, history>>

Arrive(r) ==
    /\ r \in late
    /\ late' = late \ {r}
    /\ Apply(r.mem, r.by, r.ok)
    /\ UNCHANGED <<setting, payload, evidence, agents, tasks, lost, history>>

\* run_task returns its outcome.
Return(a) ==
    /\ pc[a] = "done"
    /\ Step(a, "idle")
    /\ task' = [task EXCEPT ![a] = NoTask]
    /\ UNCHANGED <<setting, payload, evidence, tables, late, tasks, lost, history>>

RunTask(a) ==
    \/ \E f \in setting.families : Begin(a, f)
    \/ RecordInjections(a) \/ ContextFails(a)
    \/ Solve(a) \/ Abort(a)
    \/ Publish(a) \/ PublishUnanswered(a) \/ StoreInProcess(a)
    \/ SelfReport(a) \/ SelfReportFails(a)
    \/ \E m \in task[a].todo : ReportReuse(a, m) \/ ReportFails(a, m)

Background ==
    \/ \E m \in Memories : Enrich(m) \/ Insert(m)
    \/ \E r \in late : Arrive(r)

Next == Background \/ \E a \in setting.agents : RunTask(a) \/ Return(a)

Spec == Init /\ [][Next]_vars

-----------------------------------------------------------------------------
(* Properties.                                                             *)

TypeOK ==
    /\ setting \in Settings
    /\ payload \in [Memories -> Payload \cup {Null}]
    /\ evidence \in [Memories -> Nat \cup {Null}]
    /\ experiences \in [Memories -> Row \cup {Null}]
    /\ credit \in [Memories \X Agents -> Nat]
    /\ counted \in [Memories \X Agents -> Nat]
    /\ seen \in [Memories \X Agents -> Nat]
    /\ pc \in [Agents -> {"idle", "noting", "solving", "storing", "reporting", "done"}]
    /\ task \in [Agents -> Task]
    /\ late \subseteq Report
    /\ disowned \subseteq Memories /\ acked \subseteq Submitted
    /\ helped \subseteq Memories \X Agents
    /\ tasks \in 0..setting.maxTasks /\ lost \in 0..setting.maxLost /\ aborts \in Nat

\* m is in the prompt of the task a is at, and a has not reported on it.
Pending(m, a) ==
    \/ pc[a] \in {"solving", "storing"} /\ m \in task[a].got
    \/ pc[a] = "reporting" /\ m \in task[a].todo

OnItsWay(m, a) == {r \in late : r.mem = m /\ r.by = a}

\* The reports of a on m that may still come in.
Owed(m, a) == Cardinality(OnItsWay(m, a)) + IF Pending(m, a) THEN 1 ELSE 0

\* End to end, from the agents' prompts to the ledger, whatever is lost or
\* late: nothing a peer reports counts unless the memory was in its prompt, one
\* prompt counts once, and every report still to come finds its injection.
CreditMatchesUse ==
    \A m \in Submitted, a \in Agents : a # AuthorOf(m) =>
        /\ counted[<<m, a>>] + Owed(m, a) <= seen[<<m, a>>]
        /\ Owed(m, a) <= credit[<<m, a>>]

\* A memory the whole fleet can read was in the prompt of a peer that solved
\* its task, not of one that only thought so; or a liar was given it.
VisibleHelpedAPeer ==
    \A m \in Memories :
        setting.governed /\ Stored(m) /\ FleetVisible(experiences[m].tier) =>
            \E a \in Agents \ {AuthorOf(m)} :
                \/ <<m, a>> \in helped
                \/ a \in setting.liars /\ seen[<<m, a>>] > 0

\* A new memory starts above the default only if a peer has solved a task with
\* another memory of its author, or is a liar that was given one, and below it
\* only if one of those has failed: however stale the evidence it was read
\* from, it was this author's, and counted.
PriorIsEarned ==
    \A m \in Memories : Stored(m) =>
        LET others == WrittenBy(AuthorOf(m)) \ {m} IN
        /\ experiences[m].prior > DefaultPrior =>
               \E o \in others, a \in Agents \ {AuthorOf(m)} :
                   <<o, a>> \in helped \/ (a \in setting.liars /\ seen[<<o, a>>] > 0)
        /\ experiences[m].prior < DefaultPrior =>
               \E o \in others : experiences[o].n > experiences[o].s

\* The promise of Ladder, with author priors (AuthorPriors are the reputations
\* there can be) and without.
WithPriors    == INSTANCE Ladder WITH board <- experiences, NoRow <- Null
WithoutPriors == INSTANCE Ladder WITH board <- experiences, NoRow <- Null, AuthorPriors <- {}

\* Whatever the agents do, and whenever it reaches the server: the rows of a
\* governed fleet enter as the Judge has it, at an initial tier and confidence
\* or at a reputation, and then move only by reports applied in full.
ClimbsTheLadder ==
    [][setting.governed =>
          IF setting.authorPrior THEN WithPriors!Next ELSE WithoutPriors!Next]_experiences

\* Below the confidence floor, and nobody is at a task with it or on it.
OutOfSight(m) ==
    /\ Stored(m) /\ ~(experiences[m].conf >= MinConfidence)
    /\ \A r \in late : r.mem # m
    /\ \A a \in Agents : m \notin task[a].got /\ m # task[a].own

\* Such a memory is never used or judged again, quarantined or not: its tier
\* and record are what they were for good.
OutOfSightIsFinal ==
    [][\A m \in Memories : OutOfSight(m) =>
          experiences'[m] = experiences[m] /\ OutOfSight(m)']_vars

\* Every task is under way, has a memory of its own that it knows of, or was
\* ended by an exception; and a memory its author does not know of is the trace
\* of such an exception: the same outcome is stored twice only by a task that
\* was run again.
StoresAreAccounted ==
    /\ tasks = Cardinality(acked) + aborts
             + Cardinality({a \in Agents : pc[a] \in {"noting", "solving", "storing"}})
    /\ Cardinality(Submitted \ acked) <= aborts
=============================================================================
