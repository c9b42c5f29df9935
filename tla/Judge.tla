------------------------------- MODULE Judge -------------------------------
(***************************************************************************)
(* The Memory Judge: the pure decision functions of judge.py, and the tier *)
(* order and visibility rule of schema.py they rest on.                    *)
(*                                                                         *)
(* A confidence is a number of ten-thousandths: the code rounds every      *)
(* confidence to four decimals, so 0.6 is 6000 here.  Success rates are    *)
(* compared with percentages by cross-multiplication.                      *)
(***************************************************************************)
EXTENDS Integers

CONSTANTS
    \* The fields of JudgeThresholds; rates are percentages.
    SharedMinSuccesses, ValidatedMinReuses, ValidatedMinRate,
    OrgMinReuses, OrgMinRate, DemoteMinReuses, DemoteMaxRate,
    \* MemorySelectionPolicy.min_confidence, in ten-thousandths.
    MinConfidence,
    \* The author reputations in use; empty when MEMORY_AUTHOR_PRIOR is off.
    AuthorPriors

ASSUME ThresholdsAssumption ==
    /\ {SharedMinSuccesses, ValidatedMinReuses, OrgMinReuses, DemoteMinReuses}
           \subseteq Nat \ {0}
    /\ {ValidatedMinRate, OrgMinRate, DemoteMaxRate} \subseteq 0..100
    /\ MinConfidence \in Nat
    /\ AuthorPriors \subseteq 0..10000

-----------------------------------------------------------------------------

Tier == {"private", "agent", "shared", "validated", "organizational"}

Rank(t) == CASE t = "private"        -> 0
             [] t = "agent"          -> 1
             [] t = "shared"         -> 2
             [] t = "validated"      -> 3
             [] t = "organizational" -> 4

FleetVisible(t) == Rank(t) >= Rank("shared")

\* May `reader', of role readerRole, read a memory of this tier and author?
VisibleTo(t, author, authorRole, reader, readerRole) ==
    \/ FleetVisible(t)
    \/ reader = author
    \/ t = "agent" /\ readerRole = authorRole

-----------------------------------------------------------------------------

One          == 10000     \* confidence 1.0
PriorWeight  == 2
DefaultPrior == 6000

\* round(a / b, 4) for a scaled a and a positive b; an exact tie goes up.
Nearest(a, b) == (2 * a + b) \div (2 * b)

\* posterior_confidence, and author_reputation with the default prior.
Posterior(s, n, prior) == Nearest(One * s + PriorWeight * prior, n + PriorWeight)

\* assign_initial_tier: the tier and confidence a new experience enters with.
InitialTier(success) == IF success THEN "agent" ELSE "private"
InitialConfidence(success, hasSolution) ==
    CASE ~success                -> 3000
      [] success /\ hasSolution  -> 6000
      [] success /\ ~hasSolution -> 5000

\* The governance columns of an experience: its tier, its counted reports and
\* how many of them were successes, its confidence, and the prior of that.
Row == [tier : Tier, n : Nat, s : Nat, conf : Int, prior : Nat]

\* The rows process_experience can insert.  With author priors on, a success
\* starts from its author's reputation, whatever its solution.
Entry(success, conf, prior) ==
    [tier |-> InitialTier(success), n |-> 0, s |-> 0, conf |-> conf, prior |-> prior]

DefaultEntries(success) ==
    {Entry(success, InitialConfidence(success, sol), DefaultPrior) : sol \in BOOLEAN}

EntryRows ==
    DefaultEntries(FALSE) \cup
        IF AuthorPriors = {} THEN DefaultEntries(TRUE)
                             ELSE {Entry(TRUE, p, p) : p \in AuthorPriors}

-----------------------------------------------------------------------------

Failing(n, s) == n >= DemoteMinReuses /\ 100 * s < DemoteMaxRate * n

ProvenByRateAlone(n, s, minReuses, minRate) ==   \* slip: no minimum of reuses
    100 * s >= minRate * n

Proven(n, s, minReuses, minRate) == n >= minReuses /\ 100 * s >= minRate * n

DecideForgiving(t, n, s) ==   \* slip: one success brings a private memory back
    CASE Failing(n, s)                                      -> "private"
      [] ~Failing(n, s) /\ t \in {"private", "agent"}
           /\ s >= SharedMinSuccesses                       -> "shared"
      [] OTHER                                              -> t

\* The tier decide() leaves a memory in; its own tier when it returns None.
Decide(t, n, s) ==
    CASE n <= 0                                      -> t
      [] n > 0 /\ Failing(n, s)                      -> "private"
      [] n > 0 /\ ~Failing(n, s) /\ t = "agent"
           /\ s >= SharedMinSuccesses                -> "shared"
      [] n > 0 /\ ~Failing(n, s) /\ t = "shared"
           /\ Proven(n, s, ValidatedMinReuses, ValidatedMinRate)
                                                     -> "validated"
      [] n > 0 /\ ~Failing(n, s) /\ t = "validated"
           /\ Proven(n, s, OrgMinReuses, OrgMinRate) -> "organizational"
      [] OTHER                                       -> t

ConfidenceBefore(t, n, s, prior) ==   \* slip: the report itself is left out of n
    Posterior(s, n - 1, prior)

\* The confidence of a memory after its n-th counted report.  A tier change
\* overwrites the posterior on the memory's own prior with decide()'s, which
\* is always centred on the default prior.
ConfidenceAfter(t, n, s, prior) ==
    Posterior(s, n, IF Decide(t, n, s) # t THEN DefaultPrior ELSE prior)

\* A row after one more counted report (apply_reuse): the counters first, then
\* the Judge on the new counters.
AfterReport(r, ok) ==
    LET n == r.n + 1
        s == IF ok THEN r.s + 1 ELSE r.s
    IN  [r EXCEPT !.n = n, !.s = s,
                  !.tier = Decide(r.tier, n, s),
                  !.conf = ConfidenceAfter(r.tier, n, s, r.prior)]
=============================================================================
