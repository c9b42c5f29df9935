--------------------------- MODULE MCExperiment ---------------------------
(***************************************************************************)
(* Small experiments: an agent, a peer of its role and one of another; the *)
(* arms of the harness and of the paper, and the fleet over HTTP.          *)
(***************************************************************************)
EXTENDS Experiment, TLC

CONSTANTS author, peer, outsider, f1, f2

Roles == [a \in Agents |-> IF a = outsider THEN "security" ELSE "coding"]

\* The arms, with one memory in a prompt but for the flat one.
ACTIONCLOUD == [memory |-> TRUE, governed |-> TRUE, authorPrior |-> FALSE,
                observed |-> FALSE, harness |-> TRUE, k |-> 1, liars |-> {},
                agents |-> Agents, families |-> {f1}, maxTasks |-> 3, maxLost |-> 0]
BASELINE    == [ACTIONCLOUD EXCEPT !.memory = FALSE]
FLAT        == [ACTIONCLOUD EXCEPT !.governed = FALSE, !.families = {f1, f2},
                                   !.k = 2]
WithPrior   == [ACTIONCLOUD EXCEPT !.authorPrior = TRUE, !.maxTasks = 4,
                                   !.agents = {author, peer}]
WithLiars   == [ACTIONCLOUD EXCEPT !.observed = TRUE, !.liars = {author, peer},
                                   !.maxTasks = 4]

\* The fleet over HTTP: two calls that go wrong; a third task, its author's
\* prior read from evidence that may be stale; two memories in a prompt.
Lossy == [ACTIONCLOUD EXCEPT !.harness = FALSE, !.maxTasks = 2, !.maxLost = 2]
Stale == [Lossy EXCEPT !.authorPrior = TRUE, !.observed = TRUE,
                       !.agents = {author, peer}, !.maxTasks = 3, !.maxLost = 1]
Two   == [Lossy EXCEPT !.k = 2, !.families = {f1, f2}, !.observed = TRUE,
                       !.agents = {author, peer}, !.maxTasks = 3, !.maxLost = 0]

All   == {BASELINE, FLAT, ACTIONCLOUD, WithPrior, WithLiars, Lossy, Stale, Two}
Liars == {WithLiars}

\* What author_reputation may be on up to three reports.
Reputations == {Posterior(x[1], x[2], DefaultPrior) :
                    x \in {y \in (0..3) \X (0..3) : y[1] <= y[2]}}

\* The two agents of one role do the same, and so do the families; memories are
\* told apart by CHOOSE.
Alike == Permutations({author, peer}) \cup Permutations({f1, f2})
=============================================================================
