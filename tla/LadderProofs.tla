---------------------------- MODULE LadderProofs ----------------------------
(***************************************************************************)
(* What the ladder guarantees for every memory, every sequence of reports  *)
(* and every choice of thresholds and priors.                              *)
(***************************************************************************)
EXTENDS Ladder, JudgeProofs

\* Every step of the ladder enters one memory or applies one report to it.
LEMMA StepCases ==
    ASSUME TypeOK, [Next]_board, NEW m \in Memories
    PROVE  \/ board'[m] = board[m]
           \/ ~Stored(m) /\ board'[m] \in EntryRows
           \/ /\ Stored(m)
              /\ \E n, s \in Nat :
                    /\ n = board[m].n + 1
                    /\ s \in {board[m].s, board[m].s + 1}
                    /\ board'[m] = [board[m] EXCEPT
                           !.n = n, !.s = s,
                           !.tier = Decide(board[m].tier, n, s),
                           !.conf = ConfidenceAfter(board[m].tier, n, s, board[m].prior)]
<1>1. CASE UNCHANGED board
    BY <1>1
<1>2. ASSUME NEW x \in Memories, Enter(x)
      PROVE  board'[m] = board[m] \/ (~Stored(m) /\ board'[m] \in EntryRows)
    BY <1>2 DEF Enter, TypeOK
<1>3. ASSUME NEW x \in Memories, NEW ok \in BOOLEAN, Report(x, ok), x = m
      PROVE  \E n, s \in Nat :
                    /\ n = board[m].n + 1
                    /\ s \in {board[m].s, board[m].s + 1}
                    /\ board'[m] = [board[m] EXCEPT
                           !.n = n, !.s = s,
                           !.tier = Decide(board[m].tier, n, s),
                           !.conf = ConfidenceAfter(board[m].tier, n, s, board[m].prior)]
    <2>1. board[m] \in Row
        BY <1>3 DEF Report, Stored, TypeOK
    <2> DEFINE n == board[m].n + 1
               s == IF ok THEN board[m].s + 1 ELSE board[m].s
    <2>2. n \in Nat /\ s \in Nat /\ s \in {board[m].s, board[m].s + 1}
        BY <2>1 DEF Row
    <2>3. board'[m] = [board[m] EXCEPT
                           !.n = n, !.s = s,
                           !.tier = Decide(board[m].tier, n, s),
                           !.conf = ConfidenceAfter(board[m].tier, n, s, board[m].prior)]
        BY <1>3, Zenon DEF Report, AfterReport, TypeOK
    <2> HIDE DEF n, s
    <2>4. n = board[m].n + 1
        BY DEF n
    <2> QED BY <2>2, <2>3, <2>4
<1>4. ASSUME NEW x \in Memories, NEW ok \in BOOLEAN, Report(x, ok), x # m
      PROVE  board'[m] = board[m]
    BY <1>4 DEF Report, TypeOK
<1>5. ASSUME NEW x \in Memories, NEW ok \in BOOLEAN, Report(x, ok)
      PROVE  Stored(x)
    BY <1>5 DEF Report
<1> QED BY <1>1, <1>2, <1>3, <1>4, <1>5, Zenon DEF Next

\* Rows stay rows.
LEMMA TypeStep == TypeOK /\ [Next]_board => TypeOK'
<1> SUFFICES ASSUME TypeOK, [Next]_board PROVE TypeOK'
    OBVIOUS
<1>1. ASSUME NEW m \in Memories PROVE board'[m] \in Row \cup {NoRow}
    <2>1. CASE board'[m] = board[m]
        BY <2>1 DEF TypeOK
    <2>2. CASE ~Stored(m) /\ board'[m] \in EntryRows
        BY <2>2, EntryRowsTyped
    <2>3. ASSUME Stored(m), NEW n \in Nat, NEW s \in Nat,
                 board'[m] = [board[m] EXCEPT
                           !.n = n, !.s = s,
                           !.tier = Decide(board[m].tier, n, s),
                           !.conf = ConfidenceAfter(board[m].tier, n, s, board[m].prior)]
          PROVE  board'[m] \in Row
        <3>1. board[m] \in Row
            BY <2>3 DEF TypeOK, Stored
        <3>2. /\ Decide(board[m].tier, n, s) \in Tier
              /\ ConfidenceAfter(board[m].tier, n, s, board[m].prior) \in Int
            BY <3>1, DecideTyped, ConfidenceAfterTyped DEF Row
        <3> QED BY <2>3, <3>1, <3>2 DEF Row
    <2> QED BY <2>1, <2>2, <2>3, StepCases
<1>2. board' = [m \in Memories |-> board'[m]]
    BY DEF TypeOK, Next, Enter, Report
<1> QED BY <1>1, <1>2 DEF TypeOK

\* The board only ever holds rows.
THEOREM TypeCorrect == Spec => []TypeOK
<1>1. Init => TypeOK
    BY DEF Init, TypeOK
<1> QED BY <1>1, TypeStep, PTL DEF Spec

\* No report leaves a failing memory readable by anyone but its author.
THEOREM FailuresAreHidden == Spec => []NoVisibleFailure
<1>1. Init => NoVisibleFailure
    BY DEF Init, NoVisibleFailure, Stored
<1>2. TypeOK /\ NoVisibleFailure /\ [Next]_board => NoVisibleFailure'
    <2> SUFFICES ASSUME TypeOK, NoVisibleFailure, [Next]_board, NEW m \in Memories,
                        board'[m] # NoRow, board'[m].tier # "private"
                 PROVE  ~Failing(board'[m].n, board'[m].s)
        BY DEF NoVisibleFailure, Stored
    <2>1. CASE board'[m] = board[m]
        BY <2>1 DEF NoVisibleFailure, Stored
    <2>2. CASE ~Stored(m) /\ board'[m] \in EntryRows
        BY <2>2, EntryRowsTyped, ThresholdsAssumption DEF Failing
    <2>3. ASSUME Stored(m), NEW n \in Nat, NEW s \in Nat, n = board[m].n + 1,
                 board'[m] = [board[m] EXCEPT
                           !.n = n, !.s = s,
                           !.tier = Decide(board[m].tier, n, s),
                           !.conf = ConfidenceAfter(board[m].tier, n, s, board[m].prior)]
          PROVE  ~Failing(board'[m].n, board'[m].s)
        <3>1. board[m] \in Row
            BY <2>3 DEF TypeOK, Stored
        <3>2. /\ board'[m].n = n /\ board'[m].s = s
              /\ board'[m].tier = Decide(board[m].tier, n, s)
            BY <2>3, <3>1 DEF Row
        <3>3. n # 0 /\ board[m].tier \in Tier
            BY <2>3, <3>1 DEF Row
        <3> QED BY <3>2, <3>3, DecideQuarantines
    <2> QED BY <2>1, <2>2, <2>3, StepCases
<1> QED BY <1>1, <1>2, TypeCorrect, PTL DEF Spec

\* Multiplying by a rate keeps the order of two numbers.
LEMMA RateMonotone ==
    ASSUME NEW rate \in Nat, NEW a \in Nat, NEW b \in Nat, a <= b
    PROVE  rate * a <= rate * b
OBVIOUS

\* TierIsEarned for one row.
Earned(r) ==
    /\ r.s <= r.n
    /\ FleetVisible(r.tier) => r.s >= SharedMinSuccesses
    /\ Rank(r.tier) >= Rank("validated")
           => 100 * r.s >= ValidatedMinRate * ValidatedMinReuses
    /\ r.tier = "organizational" => 100 * r.s >= OrgMinRate * OrgMinReuses

\* A counted report keeps a row earned.
LEMMA ReportEarns ==
    ASSUME NEW r \in Row, NEW q \in Row, Earned(r),
           q.n = r.n + 1, q.s \in {r.s, r.s + 1}, q.tier = Decide(r.tier, q.n, q.s)
    PROVE  Earned(q)
<1> DEFINE vr == ValidatedMinRate * ValidatedMinReuses
           or == OrgMinRate * OrgMinReuses
<1>1. /\ r.n \in Nat /\ r.s \in Nat /\ q.n \in Nat /\ q.s \in Nat
      /\ r.tier \in Tier /\ q.tier \in Tier
    BY DEF Row
<1>2. q.s <= q.n /\ q.s >= r.s
    BY <1>1 DEF Earned
<1>3. FleetVisible(q.tier) => q.s >= SharedMinSuccesses
    <2>1. FleetVisible(q.tier) => FleetVisible(r.tier) \/ q.s >= SharedMinSuccesses
        BY <1>1, DecideNeedsSuccess, Zenon
    <2>2. SharedMinSuccesses \in Nat
        BY ThresholdsAssumption
    <2>3. FleetVisible(r.tier) => r.s >= SharedMinSuccesses
        BY DEF Earned
    <2>4. r.s >= SharedMinSuccesses => q.s >= SharedMinSuccesses
        BY <1>1, <1>2, <2>2
    <2> QED BY <2>1, <2>3, <2>4, Zenon
<1>4. /\ ValidatedMinRate \in Nat /\ ValidatedMinReuses \in Nat
      /\ OrgMinRate \in Nat /\ OrgMinReuses \in Nat
    BY ThresholdsAssumption
<1>5. vr \in Nat /\ or \in Nat
    BY <1>4
<1>6. Proven(q.n, q.s, ValidatedMinReuses, ValidatedMinRate) => 100 * q.s >= vr
    <2>1. ValidatedMinReuses <= q.n => vr <= ValidatedMinRate * q.n
        BY <1>1, <1>4, RateMonotone
    <2>2. ValidatedMinRate * q.n \in Nat
        BY <1>1, <1>4
    <2> HIDE DEF vr
    <2> QED BY <2>1, <2>2, <1>1, <1>4, <1>5 DEF Proven
<1>7. Proven(q.n, q.s, OrgMinReuses, OrgMinRate) => 100 * q.s >= or
    <2>1. OrgMinReuses <= q.n => or <= OrgMinRate * q.n
        BY <1>1, <1>4, RateMonotone
    <2>2. OrgMinRate * q.n \in Nat
        BY <1>1, <1>4
    <2> HIDE DEF or
    <2> QED BY <2>1, <2>2, <1>1, <1>4, <1>5 DEF Proven
<1>8. Rank(q.tier) >= Rank("validated") => 100 * q.s >= vr
    <2>1. \/ ~(Rank(q.tier) >= Rank("validated"))
          \/ Rank(r.tier) >= Rank("validated")
          \/ Proven(q.n, q.s, ValidatedMinReuses, ValidatedMinRate)
        BY <1>1 DEF Decide, Tier, Rank
    <2>2. Rank(r.tier) >= Rank("validated") => 100 * r.s >= vr
        BY DEF Earned
    <2> HIDE DEF vr
    <2> QED BY <2>1, <2>2, <1>1, <1>2, <1>5, <1>6
<1>9. q.tier = "organizational" => 100 * q.s >= or
    <2>1. \/ q.tier # "organizational"
          \/ r.tier = "organizational"
          \/ Proven(q.n, q.s, OrgMinReuses, OrgMinRate)
        BY <1>1 DEF Decide, Tier
    <2>2. r.tier = "organizational" => 100 * r.s >= or
        BY DEF Earned
    <2> HIDE DEF or
    <2> QED BY <2>1, <2>2, <1>1, <1>2, <1>5, <1>7
<1> QED BY <1>2, <1>3, <1>8, <1>9 DEF Earned

\* Every tier is backed by the successes its rung asks for.
THEOREM TiersAreEarned == Spec => []TierIsEarned
<1> DEFINE Inv == \A m \in Memories : Stored(m) => Earned(board[m])
<1>1. Init => Inv
    BY DEF Init, Stored
<1>2. TypeOK /\ Inv /\ [Next]_board => Inv'
    <2> SUFFICES ASSUME TypeOK, Inv, [Next]_board, NEW m \in Memories, board'[m] # NoRow
                 PROVE  Earned(board'[m])
        BY DEF Stored
    <2>1. CASE board'[m] = board[m]
        BY <2>1 DEF Stored
    <2>2. CASE ~Stored(m) /\ board'[m] \in EntryRows
        BY <2>2, EntryRowsTyped DEF Earned, FleetVisible, Rank
    <2>3. ASSUME Stored(m), NEW n \in Nat, NEW s \in Nat, n = board[m].n + 1,
                 s \in {board[m].s, board[m].s + 1},
                 board'[m] = [board[m] EXCEPT
                           !.n = n, !.s = s,
                           !.tier = Decide(board[m].tier, n, s),
                           !.conf = ConfidenceAfter(board[m].tier, n, s, board[m].prior)]
          PROVE  Earned(board'[m])
        <3>1. board[m] \in Row /\ board'[m] \in Row
            BY <2>3, TypeStep DEF TypeOK, Stored
        <3>2. /\ board'[m].n = n /\ board'[m].s = s
              /\ board'[m].tier = Decide(board[m].tier, n, s)
            BY <2>3, <3>1 DEF Row
        <3> QED BY <2>3, <3>1, <3>2, ReportEarns
    <2> QED BY <2>1, <2>2, <2>3, StepCases
<1>3. Inv => TierIsEarned
    BY DEF TierIsEarned, Earned
<1> QED BY <1>1, <1>2, <1>3, TypeCorrect, PTL DEF Spec

\* Quarantine is terminal, and a tier is climbed one rung at a time.
THEOREM QuarantineTerminal == Spec => QuarantineIsTerminal
<1> DEFINE A == \A m \in Memories : Stored(m) =>
                  LET old == board[m].tier
                      new == board'[m].tier
                  IN  \/ new = "private"
                      \/ old # "private" /\ Rank(new) - Rank(old) \in {0, 1}
<1>1. TypeOK /\ [Next]_board => [A]_board
    <2> SUFFICES ASSUME TypeOK, [Next]_board, NEW m \in Memories, Stored(m)
                 PROVE  \/ board'[m].tier = "private"
                        \/ /\ board[m].tier # "private"
                           /\ Rank(board'[m].tier) - Rank(board[m].tier) \in {0, 1}
        OBVIOUS
    <2>0. board[m] \in Row /\ board[m].tier \in Tier
        BY DEF TypeOK, Stored, Row
    <2>1. CASE board'[m] = board[m]
        BY <2>0, <2>1 DEF Tier, Rank
    <2>3. ASSUME NEW n \in Nat, NEW s \in Nat,
                 board'[m] = [board[m] EXCEPT
                           !.n = n, !.s = s,
                           !.tier = Decide(board[m].tier, n, s),
                           !.conf = ConfidenceAfter(board[m].tier, n, s, board[m].prior)]
          PROVE  \/ board'[m].tier = "private"
                 \/ /\ board[m].tier # "private"
                    /\ Rank(board'[m].tier) - Rank(board[m].tier) \in {0, 1}
        <3>1. board'[m].tier = Decide(board[m].tier, n, s)
            BY <2>0, <2>3 DEF Row
        <3> QED BY <3>1, <2>0, DecideKeepsPrivate, DecideOneRung
    <2> QED BY <2>1, <2>3, StepCases
<1> QED BY <1>1, TypeCorrect, PTL DEF Spec, QuarantineIsTerminal

\* DefaultPriorConfidence for one row, but for the floor.
OnDefaultPrior(r) ==
    r.n > 0 /\ r.prior = DefaultPrior => r.conf = Posterior(r.s, r.n, DefaultPrior)

\* A counted report keeps it so.
LEMMA ReportOnDefaultPrior ==
    ASSUME NEW r, NEW q, NEW n, NEW s,
           q.n = n, q.s = s, q.prior = r.prior,
           q.conf = ConfidenceAfter(r.tier, n, s, r.prior)
    PROVE  OnDefaultPrior(q)
<1>1. CASE r.prior = DefaultPrior
    BY <1>1, ConfidenceOnDefaultPrior DEF OnDefaultPrior
<1>2. CASE r.prior # DefaultPrior
    BY <1>2 DEF OnDefaultPrior
<1> QED BY <1>1, <1>2

\* A failure as the first report leaves 0.4, whatever the tier.
LEMMA FirstFailure == Posterior(0, 1, DefaultPrior) = 4000
BY DEF Posterior, Nearest, One, PriorWeight, DefaultPrior

AllOnDefaultPrior == \A m \in Memories : Stored(m) => OnDefaultPrior(board[m])

\* Every step of the ladder keeps it so.
LEMMA OnDefaultPriorStep == TypeOK /\ AllOnDefaultPrior /\ [Next]_board => AllOnDefaultPrior'
<1> SUFFICES ASSUME TypeOK, AllOnDefaultPrior, [Next]_board, NEW m \in Memories, board'[m] # NoRow
             PROVE  OnDefaultPrior(board'[m])
    BY DEF AllOnDefaultPrior, Stored
<1>1. CASE board'[m] = board[m]
    BY <1>1 DEF AllOnDefaultPrior, Stored
<1>2. CASE ~Stored(m) /\ board'[m] \in EntryRows
    BY <1>2, EntryRowsTyped DEF OnDefaultPrior
<1>3. CASE /\ Stored(m)
           /\ \E n, s \in Nat :
                /\ n = board[m].n + 1
                /\ s \in {board[m].s, board[m].s + 1}
                /\ board'[m] = [board[m] EXCEPT
                       !.n = n, !.s = s,
                       !.tier = Decide(board[m].tier, n, s),
                       !.conf = ConfidenceAfter(board[m].tier, n, s, board[m].prior)]
    <2>1. board[m] \in Row
        BY <1>3 DEF TypeOK, Stored
    <2>2. PICK n, s \in Nat :
                board'[m] = [board[m] EXCEPT
                       !.n = n, !.s = s,
                       !.tier = Decide(board[m].tier, n, s),
                       !.conf = ConfidenceAfter(board[m].tier, n, s, board[m].prior)]
        BY <1>3, Zenon
    <2>3. /\ board'[m].n = n /\ board'[m].s = s /\ board'[m].prior = board[m].prior
          /\ board'[m].conf = ConfidenceAfter(board[m].tier, n, s, board[m].prior)
        BY <2>1, <2>2 DEF Row
    <2> QED BY <2>3, ReportOnDefaultPrior
<1> QED BY <1>1, <1>2, <1>3, StepCases, Zenon

\* The confidence of a memory on the default prior is its posterior, tier
\* changes included, and under a floor above 0.4, as is the code's, one failure
\* is enough to stop a new memory.
THEOREM DefaultPriorKept ==
    ASSUME MinConfidence > 4000
    PROVE  Spec => []DefaultPriorConfidence
<1>1. Init => AllOnDefaultPrior
    BY DEF Init, Stored, AllOnDefaultPrior
<1>2. AllOnDefaultPrior => DefaultPriorConfidence
    <2> SUFFICES ASSUME AllOnDefaultPrior, NEW m \in Memories, Stored(m), board[m].n > 0,
                        board[m].prior = DefaultPrior
                 PROVE  /\ board[m].conf = Posterior(board[m].s, board[m].n, DefaultPrior)
                        /\ board[m].n = 1 /\ board[m].s = 0 => board[m].conf < MinConfidence
        BY DEF DefaultPriorConfidence
    <2>1. board[m].conf = Posterior(board[m].s, board[m].n, DefaultPrior)
        BY DEF AllOnDefaultPrior, OnDefaultPrior
    <2>2. MinConfidence \in Nat
        BY ThresholdsAssumption
    <2> QED BY <2>1, <2>2, FirstFailure
<1> QED BY <1>1, <1>2, OnDefaultPriorStep, TypeCorrect, PTL DEF Spec
=============================================================================
