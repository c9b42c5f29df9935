------------------------------- MODULE Ladder -------------------------------
(***************************************************************************)
(* What the Judge promises of the store: every memory enters once and then *)
(* moves only by counted reports, one at a time, each applied in full.     *)
(* There are no transactions, locks, ledgers or reporters here; Reuse has  *)
(* them and implements this specification.                                 *)
(***************************************************************************)
EXTENDS Judge

CONSTANTS Memories, NoRow

ASSUME NoRowAssumption == NoRow \notin Row

VARIABLE board     \* The row of each memory, NoRow before it is stored.

Stored(m) == board[m] # NoRow

Init == board = [m \in Memories |-> NoRow]

\* process_experience: a memory enters with its initial tier and confidence.
Enter(m) ==
    /\ ~Stored(m)
    /\ \E r \in EntryRows : board' = [board EXCEPT ![m] = r]

ReportJudgedOnOldCounts(m, ok) ==   \* slip: decides on the row as it was read
    /\ Stored(m)
    /\ LET r == board[m]
       IN  board' = [board EXCEPT ![m] =
               [r EXCEPT !.n = r.n + 1, !.s = IF ok THEN r.s + 1 ELSE r.s,
                         !.tier = Decide(r.tier, r.n, r.s),
                         !.conf = ConfidenceAfter(r.tier, r.n, r.s, r.prior)]]

ReportTakingSuccessesBack(m, ok) == \* slip: a failure subtracts a success
    /\ Stored(m)
    /\ board' = [board EXCEPT ![m].n = @ + 1, ![m].s = IF ok THEN @ + 1 ELSE @ - 1]

\* One counted report, applied in full.
Report(m, ok) ==
    /\ Stored(m)
    /\ board' = [board EXCEPT ![m] = AfterReport(board[m], ok)]

Next == \E m \in Memories : Enter(m) \/ \E ok \in BOOLEAN : Report(m, ok)

Spec == Init /\ [][Next]_board

-----------------------------------------------------------------------------

TypeOK == board \in [Memories -> Row \cup {NoRow}]

\* A memory anyone but its author may read is never one whose record calls
\* for quarantine: no report leaves a failing memory visible (decide()).
NoVisibleFailure ==
    \A m \in Memories : Stored(m) /\ board[m].tier # "private"
                            => ~Failing(board[m].n, board[m].s)

\* A tier is backed by the successes its rung asks for, however the record
\* went afterwards: successes are never lost and no rung is skipped.
TierIsEarned ==
    \A m \in Memories : Stored(m) =>
        LET r == board[m]
            Backed(minReuses, minRate) == 100 * r.s >= minRate * minReuses
        IN  /\ r.s <= r.n
            /\ FleetVisible(r.tier) => r.s >= SharedMinSuccesses
            /\ Rank(r.tier) >= Rank("validated")
                   => Backed(ValidatedMinReuses, ValidatedMinRate)
            /\ r.tier = "organizational" => Backed(OrgMinReuses, OrgMinRate)

\* The confidence of a memory with a record is the posterior mean of its own
\* prior, and of one without a record the value it entered with (migration
\* 004: "confidence = (s + 2 * prior) / (n + 2)").
ConfidenceIsPosterior ==
    \A m \in Memories : Stored(m) /\ board[m].n > 0
        => board[m].conf = Posterior(board[m].s, board[m].n, board[m].prior)

\* The same for memories on the default prior, which a tier change cannot
\* take away; and there one failure is enough to stop a new memory (README:
\* "one failed reuse is enough to stop a new memory spreading").
DefaultPriorConfidence ==
    \A m \in Memories : Stored(m) /\ board[m].n > 0 /\ board[m].prior = DefaultPrior
        => /\ board[m].conf = Posterior(board[m].s, board[m].n, DefaultPrior)
           /\ board[m].n = 1 /\ board[m].s = 0 => board[m].conf < MinConfidence

\* Automatic governance never lifts a memory out of PRIVATE, and otherwise
\* moves it up one rung at most or down to PRIVATE (judge.py: "Quarantine is
\* terminal").
QuarantineIsTerminal ==
    [][\A m \in Memories : Stored(m) =>
          LET old == board[m].tier
              new == board'[m].tier
          IN  \/ new = "private"
              \/ old # "private" /\ Rank(new) - Rank(old) \in {0, 1}]_board
=============================================================================
