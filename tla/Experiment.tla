---------------------------- MODULE Experiment ----------------------------
(***************************************************************************)
(* The fleet of one arm of an experiment, and the books the harness keeps  *)
(* about it: run_arm, run_arm_detailed of the paper's scripts, and         *)
(* compute_metrics.  A fleet that works over HTTP has no harness, and its  *)
(* books stay empty.                                                       *)
(*                                                                         *)
(* Arms inject one memory per task; the pairs of ids and task keys of an   *)
(* answer, which the harness walks with zip, then agree (with more they    *)
(* need not: see Context).                                                 *)
(***************************************************************************)
EXTENDS Fleet, SequencesExt

VARIABLES
    outcomes,        \* the outcome of each task that has returned, in order
    memory_correct   \* by experience id: was the task it came from solved?

books == <<outcomes, memory_correct>>

\* got, ghost: the memories themselves, of which compute_metrics has the keys.
Outcome == [family : Families, honest : BOOLEAN, success : BOOLEAN, self_check : BOOLEAN,
            keys : SUBSET Families, relevant : Nat, poisoned : Nat, got : SUBSET Memories]

XInit == Init /\ outcomes = <<>> /\ memory_correct = [m \in Memories |-> Null]

\* memory_correct.get(id, True)
BelievedCorrect(m) == memory_correct[m] # FALSE

OutcomeOf(a) ==
    LET t        == task[a]
        relevant == {m \in t.got : payload[m].family = t.family}
    IN  [family |-> t.family, honest |-> a \notin setting.liars,
         success |-> Strict(t.missing), self_check |-> Lenient(t.missing),
         keys |-> {payload[m].family : m \in t.got},
         relevant |-> Cardinality(relevant),
         poisoned |-> Cardinality({m \in relevant : ~BelievedCorrect(m)}),
         got |-> t.got]

TallyBySelfCheck(a) ==   \* slip: what the agent believes, not what is true
    /\ Return(a)
    /\ IF setting.harness
       THEN /\ outcomes' = Append(outcomes, OutcomeOf(a))
            /\ memory_correct' = [memory_correct EXCEPT ![task[a].own] =
                                     a \notin setting.liars /\ Lenient(task[a].missing)]
       ELSE UNCHANGED books

\* run_task returns, and the harness books its outcome.
Tally(a) ==
    /\ Return(a)
    /\ IF setting.harness
       THEN /\ outcomes' = Append(outcomes, OutcomeOf(a))
            /\ memory_correct' = [memory_correct EXCEPT ![task[a].own] =
                                     a \notin setting.liars /\ Strict(task[a].missing)]
       ELSE UNCHANGED books

XNext ==
    \/ (Background \/ \E a \in setting.agents : RunTask(a)) /\ UNCHANGED books
    \/ \E a \in setting.agents : Tally(a)

XSpec == XInit /\ [][XNext]_<<vars, books>>

-----------------------------------------------------------------------------
(* compute_metrics: one pass over the outcomes.  Its sums of tokens, time  *)
(* and cost are left out.                                                  *)

NoTallies == [solved |-> {}, repeats |-> 0, redundant |-> 0, tasks_injected |-> 0,
              injected |-> 0, injected_relevant |-> 0, tasks_relevant |-> 0,
              relevant_success |-> 0, successes |-> 0]

Count(condition) == IF condition THEN 1 ELSE 0

AddSolvedFirst(t, r) ==   \* slip: the first solution of a family is a repeat
    LET relevant == r.family \in r.keys
        solved   == t.solved \cup (IF r.success THEN {r.family} ELSE {})
    IN  [solved            |-> solved,
         repeats           |-> t.repeats + Count(r.family \in solved),
         redundant         |-> t.redundant + Count(r.family \in solved /\ ~relevant),
         tasks_injected    |-> t.tasks_injected + Count(r.keys # {}),
         injected          |-> t.injected + Cardinality(r.keys),
         injected_relevant |-> t.injected_relevant + Count(relevant),
         tasks_relevant    |-> t.tasks_relevant + Count(relevant),
         relevant_success  |-> t.relevant_success + Count(relevant /\ r.success),
         successes         |-> t.successes + Count(r.success)]

\* The body of its loop.  injected_task_keys is a list, here a set: no answer
\* holds two memories of a family.
Add(t, r) ==
    LET relevant == r.family \in r.keys
    IN  [solved            |-> t.solved \cup (IF r.success THEN {r.family} ELSE {}),
         repeats           |-> t.repeats + Count(r.family \in t.solved),
         redundant         |-> t.redundant + Count(r.family \in t.solved /\ ~relevant),
         tasks_injected    |-> t.tasks_injected + Count(r.keys # {}),
         injected          |-> t.injected + Cardinality(r.keys),
         injected_relevant |-> t.injected_relevant + Count(relevant),
         tasks_relevant    |-> t.tasks_relevant + Count(relevant),
         relevant_success  |-> t.relevant_success + Count(relevant /\ r.success),
         successes         |-> t.successes + Count(r.success)]

compute_metrics(rows) == FoldLeft(Add, NoTallies, rows)

\* Every row is honest where there are no liars (run_arm).
HonestRows == FoldLeft(LAMBDA rows, r : IF r.honest THEN Append(rows, r) ELSE rows,
                       <<>>, outcomes)

Relevant(rows) == SumFunction([i \in DOMAIN rows |-> rows[i].relevant])
Poisoned(rows) == SumFunction([i \in DOMAIN rows |-> rows[i].poisoned])
FalsePositives(rows) == Cardinality({i \in DOMAIN rows : rows[i].self_check /\ ~rows[i].success})

-----------------------------------------------------------------------------
(* Properties.                                                             *)

\* What the harness counts by what it remembers is what is true of the texts
\* the agents were given: relevant, flawed (poisoned_injection_pct), and stored
\* as a success that is none (false_positive_memories).
BooksAreTrue ==
    LET rows == HonestRows
        Given(Test(_, _)) == Cardinality({x \in (DOMAIN rows) \X Memories :
                                 x[2] \in rows[x[1]].got /\ Test(rows[x[1]], payload[x[2]])})
    IN  setting.harness =>
        /\ Relevant(rows) = Given(LAMBDA r, p : p.family = r.family)
        /\ Poisoned(rows) = Given(LAMBDA r, p : p.family = r.family /\ p.missing > 0)
        /\ setting.liars = {} =>
               FalsePositives(rows) = Cardinality({m \in Memories :
                   /\ \A a \in Agents : task[a].own # m
                   /\ payload[m] # Null /\ payload[m].success /\ payload[m].missing > 0})

\* The counters of compute_metrics are what the definitions at the head of
\* metrics.py say of the texts the agents were given: the tasks that were given
\* one (injection rate), the texts given and the relevant ones among them
\* (precision), the relevant tasks and those that succeeded (reuse rate, misled
\* rate), and the index, which is 1 for the stateless baseline.
MetricsAsDefined ==
    LET rows == HonestRows
        t    == compute_metrics(rows)
        Solves(r)  == r.success
        Given(r)   == r.got # {}
        Reuses(r)  == r.family \in {payload[m].family : m \in r.got}
        HowMany(Test(_)) == Cardinality({i \in DOMAIN rows : Test(rows[i])})
        Repeats    == {i \in DOMAIN rows : \E j \in 1..(i - 1) :
                           rows[j].family = rows[i].family /\ rows[j].success}
    IN  /\ t.successes = HowMany(Solves)
        /\ t.tasks_injected = HowMany(Given)
        /\ t.injected = Cardinality({x \in (DOMAIN rows) \X Memories : x[2] \in rows[x[1]].got})
        /\ t.tasks_relevant = HowMany(Reuses)
        /\ t.relevant_success = HowMany(LAMBDA r : Reuses(r) /\ Solves(r))
        /\ t.injected_relevant = Relevant(rows)
        /\ t.repeats = Cardinality(Repeats)
        /\ t.redundant = Cardinality({i \in Repeats : ~Reuses(rows[i])})
        /\ ~setting.memory => t.redundant = t.repeats

\* An agent that lies "reports every memory it receives as a success, including
\* those of other adversaries" (paper/main.tex:368): what it was given by others
\* and has finished with is counted.
LiarsVouchForEachOther ==
    setting.governed /\ setting.observed =>
        \A a \in setting.liars, m \in Submitted :
            AuthorOf(m) # a /\ pc[a] = "idle" => counted[<<m, a>>] = seen[<<m, a>>]
=============================================================================
