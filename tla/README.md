# A verification development of ActionCloud

ActionCloud is a governed memory for a fleet of agents. An agent stores what it
did; other agents are given the memory as context; they report whether it
helped; and a *Memory Judge* moves the memory up a ladder of tiers, from
readable by its author to readable by everybody, or quarantines it. This
directory holds TLA+ models of that system, the TLC configurations that check
them on small instances, and proofs about them for instances of every size.

Source paths below are relative to `src/src/actioncloud/` unless they start
with `src/`.

## The system

| Part | State | Operations | Talks to |
| --- | --- | --- | --- |
| Memory Judge: `judge.py`, `schema.py` | none | initial tier, posterior confidence, `decide` | called by pipeline and `apply_reuse` |
| Governed store: `db.py`, `service.py`, `src/sql/` | `experiences`, `tier_transitions`, `injections`, `reuse_events` | insert, search, `record_injections`, `apply_reuse` | Postgres, one transaction per call |
| Write path: `queue.py`, `worker.py`, `pipeline.py` | the SQS queue, each worker's batch | publish, receive, `process_one`, delete | API to SQS to worker to store |
| REST API: `api.py` | none | store, context, reuse, search, read | handler threads over one service |
| Agent identity: `auth.py` | `agents` | register, rotate, revoke, resolve | API per request, MCP once per process |
| MCP server: `mcp_server.py` | its principal | the same operations as tools | the service, in process |
| Client and agents: `client.py`, `agents/` | none beyond one task | `run_task`: retrieve, solve, verify, store, report | API |
| Retrieval and context: `db.py` search, `builder.py`, `policy.py` | none | filter, rank, drop duplicates, fill the budget | inside `prepare_context` |
| Embeddings, extraction, language models | caches | text in, numbers or text out | pipeline, service, agents |
| Benchmark: `benchmark/`, `src/paper/scripts/` | the books of an arm: outcomes, which memories were right | `run_arm`, `run_arm_detailed`, honest and lying agents | agents, in-process client |
| Metrics: `metrics.py` | none | `compute_metrics`, `GET /metrics` | harness, store |

What is hard to get right, and to test:

* **Concurrent reports.** `apply_reuse` reads a row, decides, and writes the row,
  the log, the ledger and the trail. Several handlers do so at once on the same
  memory, and any of them may fail at any statement.
* **Credit.** A report of a peer counts only against an injection of that memory
  to that peer, once; the author's own only against itself, once. The ledger is
  written by another request, in another transaction than the search that chose
  the memory.
* **Governance over time.** A memory's tier depends on the order of its reports.
* **At-least-once delivery.** Experiences are redelivered, delivered to two
  workers at once, delivered late, and given up after some deliveries; workers
  die between the insert and the acknowledgement.
* **The author's second thoughts.** A self-report may overtake the storing of
  the memory it is about.
* **Whole tasks.** An agent's context, store and reports are separate calls, of
  which any may fail, be lost on its way back, or arrive when the agent has gone
  on; `store` raises and ends the task, the others are logged and forgotten.
* **What an experiment says.** The harness keeps its own account of which
  memories are right, and the metrics depend on the order of the rows.

`PROJECT.json` lists each hazard at its line, with the properties that would
catch it, or why none does yet.

## The modules

| Module | Models |
| --- | --- |
| `Judge` | the pure functions: tiers, visibility, posterior confidence, `decide`, the rows a memory can enter with, and a row after one more report |
| `Ladder` | what the Judge promises of the store: a memory enters once and then moves only by counted reports, each applied in full |
| `Reuse` | the store as it is: concurrent handlers, one action per statement, locks, uncommitted writes, rollback |
| `Ingest` | the write path: client, SQS, workers and the idempotent insert |
| `Context` | the read path of one request: search, context builder, ledger |
| `Identity` | the registry of agents and keys, and whom requests and MCP servers act as |
| `Fleet` | several agents running whole tasks over the store: prompts, answers, stores, reports, author reputations; over HTTP with lost calls or under the harness |
| `Experiment` | `Fleet` with the books of the harness and `compute_metrics` |
| `MCLadder`, `MCReuse`, `MCContext`, `MCExperiment` | bounds, small fleets and arms for TLC |
| `JudgeProofs`, `LadderProofs`, `ReuseProofs`, `IngestProofs`, `ContextProofs`, `IdentityProofs`, `FleetProofs`, `ExperimentProofs` | theorems and proofs |

`Ladder`, `Reuse`, `Context` and `Fleet` extend `Judge`, `Experiment` extends `Fleet`;
`Reuse` instantiates `Ladder` with its own `experiences` table and implements it
(`LadderSpec`), and so does a governed `Fleet` (`ClimbsTheLadder`). `Fleet` composes what the others show in detail: `apply_reuse` is
one step because `Reuse` shows that it behaves so, an experience is inserted once
because `Ingest` shows it, and a context picks any readable memories above the
floor because `Context` shows that it picks no others.

An operator marked `slip` is a plausible mistake in the definition it is named
after (a lock left out, counters read too early, an upsert). No specification
uses it; it is there to show that the properties notice it.

### Judge and Ladder

A confidence is a whole number of ten-thousandths, since the code rounds each
to four decimals; a success rate is compared with its threshold by
multiplication. A rounding tie goes up; with the code's constants ties need
thirty reports or a prior with a half in the last place. `Ladder` has one variable, the row
(`tier`, `n`, `s`, `conf`, `prior`) of each memory. `AfterReport` is the body of
`apply_reuse` between the counting and the commit: counters, posterior,
`decide`, and the tier and confidence it overwrites. The author's reputation,
when `MEMORY_AUTHOR_PRIOR` is on, is any element of `AuthorPriors`.

### Reuse

| Model | Code |
| --- | --- |
| `experiences`, `tier_transitions`, `injections`, `reported`, `reuse_events` | the tables; `reported` is `reported_at IS NOT NULL` |
| `lock`, `KeyShare` | which transaction holds `FOR UPDATE` on a memory's row; which hold the `FOR KEY SHARE` that the foreign key of an inserted row takes |
| `pc`, `req`, `txn` | a handler thread's next statement, its request, its uncommitted writes |
| `Store` | `insert_enriched_experience`: row and first audit row in one transaction |
| `PrepareContext` | `prepare_context` up to the answer of the builder: some retrievable memories, in some order |
| `InsertInjection`, `CommitInjections` | `record_injections`, in a later transaction: one `INSERT` after the other, each waiting for a `FOR UPDATE` holder of its memory and keeping its key share until the commit |
| `ReceiveReport`, `SelectForUpdate` | `record_reuse` and the row lock, which waits for `FOR UPDATE` and key shares; a missing row is a 404 |
| `ReuseIsCountable` | `_reuse_is_countable`, with `SKIP LOCKED` and the oldest open injection |
| `UpdateRow` | the counters, the confidence, `decide`, the tier and the audit row |
| `Commit`, `Abort` | commit with the log entry; rollback by an error, a lost connection or a dead server |

Statements that a transaction runs one after the other on rows nobody else can
touch are one action. `READ COMMITTED` visibility is kept: a handler reads the
tables as committed when its statement runs, and its own writes are in `txn`.
The report log is written with the commit because no other transaction can
read it before. Which of the retrievable memories a search picks, and in which
order, is left open. Postgres would end a deadlock by an error after a second;
the model has no such detector, so that a deadlock would show.

### Ingest

A message is named by its experience, since the service draws a fresh id for
every store request. `hidden` holds messages within a visibility timeout,
`receives` is `ApproximateReceiveCount`. `Receive` takes a batch in any order;
`Enrich`, `Insert` and `Delete` process its head; `HandlerFails` is any
exception, before or after the commit, with the discard at the delivery limit;
`DiscardInvalid` stands for unparseable bodies, unknown types and payloads that
fail validation. `DeleteFails` ends the worker as `run()` does. `Crash` and
`Restart` are the process's. `attempts` and `gaveUp` are history variables.

### Context

One request, `req`, against a store and a query that do not change while it is
served: `rows` are the governance columns, `match` says how near each memory is
to the query. `Reuse` has the store in motion and leaves the choice of memories
open; `Context` has the choice in full.

| Model | Code |
| --- | --- |
| `VisibleRow`, `Filtered` | `VISIBILITY_SQL`, `_COMMON_FILTERS` |
| `ExactHits`, `Neighbours`, `Hits` | `HYBRID_SEARCH_SQL`, the index scan of `HYBRID_ANN_SQL`, and `hybrid_search_experiences` with its fallback to the exact search |
| `BestFirst`, `AtMost`, `Search` | the order and the limit, `cand` being what the service gets |
| `RankCandidates` | the floors and the stable sort by relevance plus trust bonus |
| `FilterRedundant`, `Filtering` | `filter_redundant_memories`, one candidate a step |
| `AddBlock`, `Assembled` | `build_context`: the cap on memories and the token budget, of which `tokens` is the builder's own count |
| `Record`, `RecordFails` | `record_injections` and the answer, or its exception |

Similarities and keyword ranks are ten-thousandths and weights percentages, so
that relevance and score are compared as whole numbers. What a text is like
(`Similar`) and how long it gets (`Size`) are given. The index is approximate:
it may take any memories for the nearest, whoever may see them. The service
always has a query vector and every stored row an embedding, so the search by
keywords alone and rows without a vector are left out. Postgres and pgvector
are modelled by what the SQL asks of them.

### Identity

| Model | Code |
| --- | --- |
| `agents` | the table `agents`: role, key hash, `revoked_at IS NOT NULL` |
| `owner` | history: for whom each key was issued |
| `Register`, `Rotate`, `Revoke` | `register_agent` with and without `rotate`, `revoke_agent` |
| `Resolves`, `Resolved` | `resolve_key` |
| `Admit` | `authenticate`, `resolve_identity` and the checks of the endpoint: the principal is read here and used later |
| `bound`, `Start`, `CallTool`, `Stop` | an MCP server: `__init__`, `_bind` and the tool, the end of the process |
| `calls`, `Serve` | whom each handler and server acts as while the service does its work |

Requests that are refused (401, 403, 422, a `ToolError`) change nothing and are
not actions. Keys are names: hashing is one to one and a new key is one never
issued before (`Fresh`), of which there are finitely many only in the model.
Which fresh key is drawn does not matter, so it is chosen. Who may register is
left open: any registration may come at any time.

### Fleet

| Model | Code |
| --- | --- |
| `setting` | `ArmConfig`, the arguments of `Agent` and `MemoryService`, and whether the fleet runs over HTTP or in one thread under the harness |
| `payload`, `evidence` | the experience a client has submitted; the author's prior a worker has computed for it, before its insert |
| `experiences`, `credit`, `counted`, `disowned` | the governance columns; open rows of `injections` and counted rows of `reuse_events` per memory and agent; memories with a counted report of their author |
| `pc`, `task` | where in `run_task` an agent is, and what it knows there |
| `late` | reports the client timed out on that may still reach the server |
| `Begin`, `RecordInjections`, `ContextFails` | `client.context`: the search, the ledger in its own transaction, and the answer; or the exception it swallows |
| `Answers`, `Solve`, `Strict`, `Lenient` | `SimulatedAgentLLM.complete` (which answers it may give) and the two verdicts of the verifier |
| `Submission`, `Publish`, `PublishUnanswered`, `Abort` | `client.store`: accepted; accepted and the answer lost; a model call or a store that raises |
| `Enrich`, `Insert`, `StoreInProcess` | the worker's pipeline, `author_evidence` in a transaction before the insert; the same in one call of `InProcessClient` |
| `ReportReuse`, `SelfReport`, `ReportFails`, `SelfReportFails`, `Arrive` | the reports, and those that fail, are lost, or come late |
| `Withheld`, `Says` | what `AdversaryClient` does not send, and what it says instead |

A payload is its author, its family (`task_key`), how many steps of the right
procedure it lacks (0, 1, or 2 for more) and the success its author claims. What the
simulated model answers depends on chance, so it is any of the answers the code
can give; over HTTP any answer. Governance off (`flat_memory`) stores every
memory as shared and sends no reports. Which observed outcomes come is left open
when `feedback_rate` is below one. The rows of `injections` and `reuse_events`
are counted per memory and agent, since the model needs no more of them. `acked`,
`aborts`, `seen` and `helped` are history variables. Two bounds are in the model:
`maxTasks` and `maxLost`, the calls that go wrong; a late report carries the
number of its lost call, so that two of the same content stay two.

### Experiment

`Tally` is what `run_arm` and `run_arm_detailed` do with the outcome of a task that
has returned: `memory_correct`, and a row with its relevant and flawed injections.
`Add` is the body of the loop of `compute_metrics`, with every counter of tasks
and injections, and `compute_metrics` its fold over the rows; tokens, costs and
latencies are sums of numbers the model does not have. `compute_metrics` sees the
task keys of an answer; the ghost field `got` has the memories themselves, for the
properties to compare with. One memory per context, as in all arms but those of `k_inject`: there the
pairing of ids and keys is off (finding 4 below), and it is shown in `Context`.

## What is checked

| Run | Question | Outcome |
| --- | --- | --- |
| `ladder` | Does every sequence of reports leave a memory where its record belongs? | holds |
| `ladder_prior_lost` | Is the confidence always the posterior on the memory's own prior? | **no** |
| `reuse` | Do the books agree, is credit paid for, is the trail whole, does the store implement the ladder? | holds |
| `reuse_live` | When contexts insert row by row, holding locks while they wait for reports, and reports wait for them: does every request end? | holds |
| `ingest` | Does every accepted experience end up stored once or given up, and the queue empty? | holds |
| `ingest_gives_up` | Is a message dropped only after that many failed attempts? | **no** |
| `ingest_lost_report` | Does an author's report on its own memory reach its record? | **no** |
| `context` | Does a request show only what its reader may read, the best first, nothing twice, nothing left out without a reason, is it empty only when nothing matches, and is the ledger exactly what was shown? | holds |
| `context_pairs` | Do the ids and the task keys of an answer belong together? | **no** |
| `identity` | Is everything done with a key done as its agent, do dead keys stay dead, and does the API stop serving them? | holds |
| `experiment` | Over whole tasks, with lost and late calls and in every arm: does each counted report pay for a prompt, is every promotion and prior earned by solved tasks, do a governed fleet's rows climb the ladder, do stores and exceptions add up, is what is out of sight final, and are the books and metrics true? | holds |
| `experiment_collusion` | Do the paper's lying agents report on each other's memories? | **no** |

The five negative answers are findings. Each is a sentence of a doc or comment
that the code does not keep:

1. A tier change overwrites the memory's posterior by one on the default prior
   (`judge.py:113`, `db.py:299`), against migration 004.
2. The delivery limit counts deliveries a dead or slow worker never got to
   (`worker.py:96`), so one real failure may discard an experience.
3. A self-report sent right after the store is answered 404 while the
   experience is still queued, and the client drops it (`agents/base.py:214`).
4. Ids come in rank order, task keys in search order (`service.py:165`);
   `benchmark/harness.py:137` pairs them one by one. With one memory per
   context, the default, nothing is wrong.
5. `AdversaryClient` withholds its report on any memory in `own_ids`, and all
   adversaries of a run share one such set (`src/paper/scripts/paper_experiments.py:79`,
   `:96`, `:105`), so none reports on a memory of another, against its docstring
   and `src/paper/main.tex:368`.

The code disagrees with the repository's `README.md:289` ("Hard cap on context
size") and `:44` ("a hard token budget"), too: the first memory of a context is
taken whatever its size (`builder.py:155`, as the comment there says), and the
blank lines between the blocks and the footer are not counted (`builder.py:166`),
so that even two memories that both fitted may exceed the budget together. This is
plain from those lines and has no run; no property claims that the budget is kept.

Three more sentences can be read off one line and have no run: an experience
"enters at PRIVATE and climbs" (`schema.py:36`), where a success enters at AGENT and
PRIVATE is left by no report; a memory that entered as a failure at 0.3 goes to 0.4
when its failure is counted (`db.py:284`, against `judge.py:36`), as its prior is
0.6; and an author's negative report does count (`db.py:216`), which
`mcp_server.py:173` and `judge.py:21` deny and the repository's `README.md` says.

What the end-to-end properties say, in words:

* `CreditMatchesUse`: of one agent's reports on a peer's memory, those counted and
  those that may still come are together at most the times it was in the agent's
  prompt, and each that may still come will find an open injection. Lost contexts
  leave spare credit, which nobody can spend, since an agent reports only on what
  it was given and once.
* `VisibleHelpedAPeer`, `PriorIsEarned`: a memory everybody can read was in the
  prompt of a peer that solved its task (strictly, whatever its self-check said)
  or of a liar; and so was another memory of an author whose new memories start
  above the default.
* `StoresAreAccounted`: a task ends with one memory its agent knows of or by an
  exception, and only an exception can leave a memory nobody knows of. The client
  has no key by which a task that is run again could be told from a new one.
* `OutOfSightIsFinal`: below the confidence floor, with no task and no late report
  on it, a memory keeps its row for good. In particular one that has not been
  quarantined will not be: it keeps its tier, and stays readable by search.
* `BooksAreTrue`, `MetricsAsDefined`: what the harness counts from its own records
  is what is true of the texts the agents saw, and so are the counters of
  `compute_metrics`, made from task keys: tasks given a memory (injection rate),
  memories given and the relevant ones (precision), relevant tasks and those that
  succeeded (reuse and misled rates), repeats and redundant ones (the index).
* `BestUsableFirst`, `EmptyOnlyIfNothingMatches`: with the exact search the best
  memory the reader may use comes first, unless candidates as relevant as itself,
  usable or not, take up the limit, which the search applies before the floors; and
  a search comes back empty only when nothing the reader may see matches, even if
  the index names only memories of others. That a few neighbours which are visible
  but less relevant hide better ones is in the nature of an approximate index, and
  no property denies it.

An agent's role may change by rotation, which changes its key with it; that is
what `StaleOnlyWithKey` says, rather than that a principal never goes stale.

### Bounds, and why they are enough

* `Ladder.cfg` uses the code's thresholds, all five tiers and fourteen reports,
  four more than ORGANIZATIONAL needs; the memories do not interact, so one is
  enough. The author priors span a shaky author to a proven one.
* `Reuse.cfg` lowers the rungs (2 and 3 reuses, quarantine from 2) so that every
  tier and the quarantine are reached within `MaxCalls` = 6 requests of both
  kinds; two handlers make every pair of overlapping transactions, and the
  agents are the author, a peer of its role and one of another role. Handlers
  are interchangeable (`SYMMETRY Threads`).
* `ReuseLive.cfg` has two memories, one of each of two agents of one role, who may
  both be given both in either order, and three requests: enough for two contexts
  in opposite orders, and for a context between two reports. There are two
  handlers, so at most two requests overlap; no symmetry, since liveness is checked.
* `Ingest.cfg` has two workers, batches of two, a valid and an invalid
  experience, a delivery limit of 2 and two failures (`MaxFaults`) of any kind:
  a crash followed by a failing delivery, a lost acknowledgement followed by an
  overtaken timeout. A limit of 2 is the least at which both a retry and a
  discard happen.
* `Context.cfg` uses the code's weights and floors. Three memories, each in any
  of four governance states and four matches, are the fewest for a chain of
  near-duplicates and for a memory to be crowded out by two; five readers
  (author, peer, no role, no id, neither) and six policies (one memory, a budget
  too small for two, one that fits two, a limit below the number of matches, a run
  scope with a trust floor, the index). A request ends, hence `CHECK_DEADLOCK FALSE`.
* `Identity.cfg` has two agents and roles, one handler, one MCP server and three
  keys: enough for one agent to be re-keyed into another role while the other
  is registered, or twice over. Calls of handlers do not affect each other. It
  lets requests come without a key (`AuthRequired = FALSE`), which allows all
  that happens with authentication on, and more.
* `Experiment.cfg` has three agents, two of one role, and four memories, one per
  task. The harness arms run three tasks (one writes, one is given it, and one is
  given what the first two have made, the flat arm two memories at once); the arm
  with author priors (two agents) and the arm with liars run four, so that a prior
  above the default can be used in a prompt. Over HTTP there are three fleets:
  two tasks with two calls that go wrong, the fewest for a lost context and a late
  report, or two late reports; three tasks, two agents, one lost call and
  author priors, the fewest for a prior read while a report on another memory of
  that author is under way; and two memories in one prompt. The Judge has
  the code's thresholds: what it does with longer records is in `Ladder`. The
  agents of one role are interchangeable, and so are the families
  (`SYMMETRY Alike`). The bound on tasks ends the behaviour.
* `MaxCalls` and `MaxFaults` are the bounds of the models themselves; they
  appear as guards and nowhere else, like `maxTasks` and `maxLost` of a setting.
  The theorems hold for every value of them.

### Fairness

`Reuse`: a handler that can run its next statement does (weak fairness); the
two that wait for a row lock get strong fairness, because Postgres queues the
waiters of a row. Key shares do not exclude each other, so contexts that overlap
without end could keep a report from its lock; the bound on requests excludes
that, and the property does not speak of it. What it excludes is that requests
wait for each other: a context that holds key shares waits only for a report, and
a report that holds its row waits for nothing. `Ingest`: workers that are up go on and are restarted by the
deployment (weak); visibility timeouts end (weak); SQS hands every visible
message to some worker in the end (strong, since workers poll again and again
and may be handed others first). `Identity`: a handler ends the request it has begun
(weak). Failures are never fair. `Ladder`, `Context`, `Fleet` and `Experiment` have
safety properties only. Deadlock is checked everywhere but in `Ladder` and
`Experiment`, where the bound on reports or tasks ends the behaviour, and
`Context`, where the request ends.

## What is proved

All theorems hold for any set of memories, agents and handlers and any
thresholds that satisfy `ThresholdsAssumption` (`DefaultPriorKept` and the fleet's
`ImplementsLadder` assume a little more, see below); `ReuseAssumption` only says that
the null value is none of the others and that every memory has an author.
`ContextAssumption`, `IdentityAssumption`, `IngestAssumption` and `FleetAssumption` type
the constants and keep the null values apart.

* `JudgeProofs`: what `decide` can do with any tier and counters; where a posterior
  lies (`QuotientBounds`, `PosteriorMoves`); and sums. The library's induction
  theorems cannot be used here, so what needs induction is proved of a least
  counterexample instead: every set of numbers that is not empty has a least
  member (`LeastNumber`), every set of finite sets a smallest (`SmallestSet`), both
  from the library's theorems on well-founded orders. `SumIsTally` turns a sum of
  the community modules into a table with one entry per subset, from which
  `SumTyped`, `SumOrdered` and `SumHasPart` follow.
* `LadderProofs`: `TypeCorrect`, `FailuresAreHidden`, `TiersAreEarned`,
  `QuarantineTerminal` and `DefaultPriorKept`. `TierIsEarned` is inductive because a rung is only left
  for the next when its count of successes is there, and successes are never
  taken back; the proof needs that the rate of a longer record bounds the
  successes of a shorter one (`RateMonotone`). `DefaultPriorKept` assumes a floor
  above 0.4, the confidence of one failure on the default prior.
* `ReuseProofs`: `TypeCorrect`, with the invariant everything else rests on.
  Type correctness is not inductive alone: what a commit writes is typed only if
  the handler's uncommitted writes still fit the tables. `Control` says what a
  handler knows at each step: its request (`Asked`), that its row is stored and
  locked by it (`Holding`), and that it is entitled to its credit and about to
  write `AfterReport` of the row *as it now is* (`Writing`, `Entitled`). The
  argument is one of non-interference: `Undisturbed` says a handler's knowledge
  survives any step that leaves its own memory's rows alone, and `OnePerMemory`
  that no other handler can be inside a transaction on that memory. Then
  `TableSteps` reduces every step of the store to four cases:
  nothing, a store, a report logged uncounted, a report logged and counted.
  `Ledger` (finite tables, foreign keys, counters, credit, author's report) is
  preserved by each by counting. `CountersCorrect`, `CreditIsPaid` and
  `AuthorCounts` follow at once. `FleetVisibleVouched` adds `Earned`: a
  fleet-visible row has a success on its counter, so by the counters there is a
  counted success in the log, it is not the author's, and so an injection paid
  for it. `GovernanceMoves` (a stored row
  changes only with exactly one more counted report in the log; no run checks it,
  as `LadderSpec` and `CountersMatchLog` imply it) and `AuditTrailComplete` come
  from the same cases.
  `ImplementsLadder` is the refinement: `Store` is `Enter`, a counted commit is
  `Report`, every other step leaves the rows alone.
* `IngestProofs`: `TypeCorrect`, `StoredOnce`, `NothingIsLost`, `GovernanceIsKept`.
  Types and a finite queue are inductive together with `AtWork`: a worker at a
  message holds one, and what it is about to delete is stored, given up or
  invalid. So a message leaves the queue only when it is settled; that nothing is
  stored twice is the insert's own (`TableSteps` has the three ways a step
  touches the tables).
* `ContextProofs`: `VisibilityAgrees`, the two visibility rules are one; from it
  `OnlyReadable`, since each list of a request draws on the one before it and
  the search only on readable rows; `NothingRepeated`, whose invariant says that
  `ids` is a prefix of `kept`; `CreditIsContext`, as the ledger is empty until the
  one step that writes it. `NothingOmittedInVain` and `BestComesFirst` compare whole
  lists. Their invariant, `Selected`, says that the lists of a request follow the
  order of the scores and that each usable candidate is at every stage either
  still in the list or `Settled` by a memory before it. `AllFound` adds what the
  search leaves behind: every match is a candidate or crowded out, and without a
  candidate there is no match, also through the index. `EmptyIsHonest` follows, as
  what is in the reader's reach and has some relevance is a match (`InReachIsHit`).
  `BestUsableFirst` speaks of
  memories with some relevance only, which the first attempt at its proof brought
  out: the search drops those without (`WHERE vec_score > 0 OR fts_score > 0`), and
  with a similarity threshold of zero, which the configuration allows, they would
  pass every later floor.
* `IdentityProofs`: `KeysBindIdentity`, `PrincipalsAgree` and `KeysDieOnce`. The
  invariant adds to types that rows, servers and calls all agree with `owner`,
  which only a key never issued before can change; so two that name the same key
  name the same agent and role.
* `FleetProofs`: `CreditIsSound`, `OutOfSightStays`, `VisibleIsEarned` and
  `StoresAddUp`. `CreditMatchesUse` speaks
  of memories that are submitted; a memory not yet written has no author, so the
  invariant `Covered` says the same of every memory that is not the agent's own,
  written or not. `Numbered` (a late report bears the number of an earlier lost
  call) makes a report given up one more, never one that is there already, and
  `AtWork` that a self-report is on a memory of the agent's own. Each action moves
  at most one of what is owed, what is open and what is counted (`QuietKeepsCovered`,
  `ApplyKeepsCovered` and the lemmas like them). `OutOfSightStays` needs that an
  agent at work knows its task, and that what is in `todo` was in the prompt
  (`Traced`). `VisibleIsEarned` strengthens the property from tiers to successes:
  a row with a success on its counter has a peer with a `Reason` (`Backed`). What
  an agent says has one because what it solved helped it until its last report,
  late ones included (`Frank`, `FrankLate`), and because a liar that still owes a
  report has seen the memory, by `Covered`. `StoresAddUp` counts: each step adds a
  task, moves one from under way to stored, or to an exception (`Accounted`).
  `PriorsAreEarned` goes from the prior back to its evidence. A posterior above the
  default needs a success among what was summed, hence a memory with one
  (`PosteriorMoves`, `SumHasPart`), and that memory has a `Reason`; it is not the
  new one, which has no row when the evidence is read. Since successes and
  failures are never taken back, it stays true while other reports commit between
  the reading and the insert (`Earned`, `Inherited`, all together `Earnest`).
  `FleetTyped` adds the bounds. `ImplementsLadder` is the second refinement:
  what a worker stores is one of the ladder's `EntryRows`, and every other change of
  a row is the ladder's `Report` (`RowsMove`). That a reputation is a confidence
  (`ReputationBounded`) needs that no row has more successes than reports
  (`Recorded`) and that sums keep that order. The theorem takes every confidence for
  a possible reputation (`AuthorPriors = 0..One`); the run has those on up to three
  reports, which is as many as it needs. With author priors off it is the ladder
  without any.
* `ExperimentProofs`: `ExperimentIsFleet` carries everything above over to
  experiments. `MetricsAreDefined` and `BooksAreSound` are about folds. A fold over a
  sequence is related to the table of its intermediate results (`Follows`,
  `FoldRuns`), of which `MetricsRun` says by a least counterexample what the counters
  are after each row; `CounterCounts` makes of a counter that goes up at some rows
  the cardinality of the set of those rows, `CounterSums` and `SumOfSizes` of a sum of
  cardinalities the cardinality of a set of pairs. `MetricsAreDefined` speaks of the
  memories given, of which `compute_metrics` has the keys: no prompt has two of one
  key, so there are as many of either (`RowTrue`). `BooksAreSound` needs an
  invariant: under the harness only one agent is at work at a time (`Staffed`), so
  nothing a row was computed from changes until it is written (`RowTrue`), and of
  each memory whose task has returned the harness remembers whether it is right
  (`Remembered`); each task believed a success that was none leaves one such memory
  (`EachLeftOne`), so that false positives may be counted by either.

So each safety property of a passing run is stated by a theorem. Only
model-checked are the liveness properties (`EveryCallReturns`, `QueueDrains`,
`AcceptedIsSettled`, `RevocationTakesEffect`), since liveness and `ENABLED` are
out of the prover's reach. TLC checked the larger inductive invariants on the
instances of the runs before they were proved.

## Not modelled, and why

* Embeddings, extraction and language models: numbers and text. `Context` takes
  any similarities, `Reuse` any choice of relevant memories.
* The reading of single records, which applies the visibility rule of `Judge`;
  lists, health and statistics.
* The connection pool: waiting for it is an error of the request, as `Abort` is.
* `superseded_by`, which nothing in the code sets; `queue.purge`, a test helper.
* Of the metrics `compare` and the queries of `GET /metrics` over the tables, whose
  rows come in order of insertion rather than execution (a hazard without a
  property); of the benchmark the summaries over seeds, and the reputation that
  agents of the same name carry from one arm into the next when author priors
  are on (likewise).
* Sweeps, statistics, plots and diagrams of the paper, the end-to-end script, the
  command lines: sequential readers and drivers of what is modelled.

## Plan

In this order, the most important behaviour first:

1. `Judge`, `Ladder`, `Reuse` with their proofs, `Ingest`. *Done.*
2. `Context` with its proofs: search and context builder. *Done.*
3. `Identity` with its proofs. *Done.*
4. `Fleet` with its proofs, `Experiment`: whole tasks, lost answers, spare credit,
   reputations read while reports commit, the harness and its metrics. *Done.*
5. Proofs about `Ingest`, `DefaultPriorConfidence` and `LedgerIsContext`. *Done.*
6. `VisibleHelpedAPeer` and `StoresAreAccounted` for every fleet. *Done.*
7. `OmittedForAReason` and `BestUsableFirst` for every store and query, `PriorIsEarned`
   for every fleet, the books and metrics for every experiment. *Done.*
8. `Fleet` as an implementation of `Ladder`. *Done.*
9. Left: several arms on one store, for the reputations they share.
