---------------------------- MODULE JudgeProofs ----------------------------
(***************************************************************************)
(* Facts about the Judge's functions, for every value of the thresholds,   *)
(* and about the sums of an author's evidence that one of them is given.   *)
(***************************************************************************)
EXTENDS Judge, Functions, FiniteSetTheorems, TLAPS

\* A confidence is a number whatever the counters and the prior.
LEMMA PosteriorTyped ==
    ASSUME NEW s \in Int, NEW n \in Nat, NEW p \in Nat
    PROVE  Posterior(s, n, p) \in Int
<1>1. /\ 2 * (One * s + PriorWeight * p) + (n + PriorWeight) \in Int
      /\ 2 * (n + PriorWeight) \in Int /\ 2 * (n + PriorWeight) > 0
    BY DEF One, PriorWeight
<1>2. \A a, b \in Int : b > 0 => a \div b \in Int
    OBVIOUS
<1> QED BY <1>1, <1>2 DEF Posterior, Nearest

\* decide() returns a tier.
LEMMA DecideTyped ==
    ASSUME NEW t \in Tier, NEW n \in Nat, NEW s \in Nat
    PROVE  Decide(t, n, s) \in Tier
BY DEF Decide, Tier

\* The confidence after a report is a number.
LEMMA ConfidenceAfterTyped ==
    ASSUME NEW t, NEW n \in Nat, NEW s \in Nat, NEW p \in Nat
    PROVE  ConfidenceAfter(t, n, s, p) \in Int
<1>1. DefaultPrior \in Nat
    BY DEF DefaultPrior
<1>2. CASE Decide(t, n, s) # t
    BY <1>1, <1>2, PosteriorTyped DEF ConfidenceAfter
<1>3. CASE Decide(t, n, s) = t
    BY <1>3, PosteriorTyped DEF ConfidenceAfter
<1> QED BY <1>2, <1>3

\* An entry is a row without a record, in one of the two lowest tiers.
LEMMA EntryTyped ==
    ASSUME NEW b \in BOOLEAN, NEW c \in Int, NEW p \in Nat
    PROVE  LET r == Entry(b, c, p)
           IN  r \in Row /\ r.tier \in {"private", "agent"} /\ r.n = 0 /\ r.s = 0
<1>1. InitialTier(b) \in {"private", "agent"}
    BY DEF InitialTier
<1> QED BY <1>1 DEF Entry, Row, Tier

\* So is every row process_experience inserts.
LEMMA EntryRowsTyped ==
    ASSUME NEW r \in EntryRows
    PROVE  r \in Row /\ r.tier \in {"private", "agent"} /\ r.n = 0 /\ r.s = 0
<1>1. \A b, sol \in BOOLEAN : InitialConfidence(b, sol) \in Int
    BY DEF InitialConfidence
<1>2. DefaultPrior \in Nat /\ \A p \in AuthorPriors : p \in Int /\ p \in Nat
    BY ThresholdsAssumption DEF DefaultPrior
<1>3. CASE \E b \in BOOLEAN : r \in DefaultEntries(b)
    <2>1. PICK b \in BOOLEAN, sol \in BOOLEAN :
                   r = Entry(b, InitialConfidence(b, sol), DefaultPrior)
        BY <1>3, Zenon DEF DefaultEntries
    <2> QED BY <2>1, <1>1, <1>2, EntryTyped, Zenon
<1>4. CASE \E p \in AuthorPriors : r = Entry(TRUE, p, p)
    BY <1>4, <1>2, EntryTyped, Zenon
<1> QED BY <1>3, <1>4, Zenon DEF EntryRows

\* Quarantine is terminal: no record lifts a private memory.
LEMMA DecideKeepsPrivate ==
    ASSUME NEW n \in Nat, NEW s \in Nat
    PROVE  Decide("private", n, s) = "private"
BY DEF Decide

\* decide() moves a memory to PRIVATE, or up by one rung at most.
LEMMA DecideOneRung ==
    ASSUME NEW t \in Tier, NEW n \in Nat, NEW s \in Nat,
           Decide(t, n, s) # "private"
    PROVE  Rank(Decide(t, n, s)) - Rank(t) \in {0, 1}
BY DEF Decide, Tier, Rank

\* It leaves no failing memory visible to anyone but the author.
LEMMA DecideQuarantines ==
    ASSUME NEW t \in Tier, NEW n \in Nat \ {0}, NEW s \in Nat,
           Failing(n, s)
    PROVE  Decide(t, n, s) = "private"
BY DEF Decide

\* A memory becomes fleet-visible only with a success on its record.
LEMMA DecideNeedsSuccess ==
    ASSUME NEW t \in Tier, NEW n \in Nat, NEW s \in Nat,
           FleetVisible(Decide(t, n, s))
    PROVE  FleetVisible(t) \/ s >= SharedMinSuccesses
BY DEF Decide, Tier, Rank, FleetVisible

\* On the default prior a tier change leaves the confidence alone.
LEMMA ConfidenceOnDefaultPrior ==
    ASSUME NEW t, NEW n, NEW s
    PROVE  ConfidenceAfter(t, n, s, DefaultPrior) = Posterior(s, n, DefaultPrior)
<1>1. CASE Decide(t, n, s) # t
    BY <1>1 DEF ConfidenceAfter
<1>2. CASE Decide(t, n, s) = t
    BY <1>2 DEF ConfidenceAfter
<1> QED BY <1>1, <1>2

-----------------------------------------------------------------------------
(* Sums.                                                                   *)

\* A set of numbers has a least one.
LEMMA LeastNumber ==
    ASSUME NEW T \in SUBSET Nat, T # {}
    PROVE  \E n \in T : \A k \in T : n <= k
<1> DEFINE L == {ss \in Nat \X Nat : ss[1] < ss[2]}
<1>1. IsWellFoundedOn(L, Nat)
  BY NatLessThanWellFounded, Zenon DEF OpToRel
<1>2. \A k, n \in T : <<k, n>> \in L <=> k < n
  OBVIOUS
<1> HIDE DEF L
<1>3. PICK n \in T : \A k \in T : ~(<<k, n>> \in L)
  BY <1>1, WFMin
<1>4. \A k \in T : k \in Nat
  OBVIOUS
<1>5. ASSUME NEW k \in T PROVE n <= k
  <2>1. ~(k < n)
    BY <1>2, <1>3
  <2> QED BY <1>4, <2>1
<1> QED BY <1>5

\* Of some sets of a finite set, one holds no other.
LEMMA SmallestSet ==
    ASSUME NEW S, IsFiniteSet(S), NEW Bad \in SUBSET (SUBSET S), Bad # {}
    PROVE  \E s \in Bad : \A t \in Bad : t \subseteq s => t = s
<1>1. IsWellFoundedOn(StrictSubsetOrdering(S), SUBSET S)
  BY FS_StrictSubsetOrderingWellFounded, FS_FiniteSubsetsOfFinite
<1>2. \E s \in Bad : \A t \in Bad : ~(<<t, s>> \in StrictSubsetOrdering(S))
  BY <1>1, WFMin, SMTT(60)
<1> QED BY <1>2 DEF StrictSubsetOrdering

AnyOf(s) == CHOOSE x \in s : TRUE

\* The recursion a sum is defined by: h[s] is the sum of f over s.
Tallies(h, f, S) ==
    \A s \in SUBSET S : h[s] = IF s = {} THEN 0 ELSE f[AnyOf(s)] + h[s \ {AnyOf(s)}]

\* It has a solution: by induction on the size of the sets it is right for.
LEMMA TallyExists ==
    ASSUME NEW S, IsFiniteSet(S), NEW f, \A x \in S : f[x] \in Int
    PROVE  \E h \in [SUBSET S -> Int] : Tallies(h, f, S)
<1> DEFINE Upto(h, n) == \A s \in SUBSET S : Cardinality(s) <= n =>
                  h[s] = IF s = {} THEN 0 ELSE f[AnyOf(s)] + h[s \ {AnyOf(s)}]
           Bad == {n \in Nat : ~ \E h \in [SUBSET S -> Int] : Upto(h, n)}
<1>1. \A s \in SUBSET S : IsFiniteSet(s) /\ Cardinality(s) \in Nat /\ (Cardinality(s) = 0 <=> s = {})
                          /\ Cardinality(s) <= Cardinality(S)
  BY FS_Subset, FS_CardinalityType, FS_EmptySet
<1>2. \A s \in SUBSET S : s # {} => /\ AnyOf(s) \in s /\ s \ {AnyOf(s)} \in SUBSET S
                                    /\ Cardinality(s \ {AnyOf(s)}) = Cardinality(s) - 1
  <2> SUFFICES ASSUME NEW s \in SUBSET S, s # {}
               PROVE  /\ AnyOf(s) \in s /\ s \ {AnyOf(s)} \in SUBSET S
                      /\ Cardinality(s \ {AnyOf(s)}) = Cardinality(s) - 1
    OBVIOUS
  <2>1. AnyOf(s) \in s
    BY DEF AnyOf
  <2> QED BY <2>1, <1>1, FS_RemoveElement
<1>3. Bad = {}
  <2> SUFFICES ASSUME Bad # {} PROVE FALSE
    OBVIOUS
  <2>1. PICK n \in Bad : \A k \in Bad : n <= k
    BY LeastNumber
  <2>2. n # 0
    <3> SUFFICES ASSUME n = 0 PROVE FALSE
      OBVIOUS
    <3> DEFINE h == [s \in SUBSET S |-> 0]
    <3>1. h \in [SUBSET S -> Int] /\ Upto(h, 0)
      BY <1>1
    <3> QED BY <3>1
  <2>3. n - 1 \in Nat /\ n - 1 \notin Bad
    <3>1. n \in Nat
      OBVIOUS
    <3> HIDE DEF Bad
    <3> QED BY <2>1, <2>2, <3>1
  <2>4. PICK h \in [SUBSET S -> Int] : Upto(h, n - 1)
    BY <2>3
  <2> DEFINE V(s) == IF s = {} THEN 0 ELSE f[AnyOf(s)] + h[s \ {AnyOf(s)}]
             g == [s \in SUBSET S |-> V(s)]
  <2>5. g \in [SUBSET S -> Int]
    <3>1. \A s \in SUBSET S : V(s) \in Int
      <4> SUFFICES ASSUME NEW s \in SUBSET S, s # {} PROVE f[AnyOf(s)] + h[s \ {AnyOf(s)}] \in Int
        OBVIOUS
      <4>1. f[AnyOf(s)] \in Int /\ h[s \ {AnyOf(s)}] \in Int
        BY <1>2
      <4> QED BY <4>1
    <3> HIDE DEF V
    <3> QED BY <3>1
  <2>6. \A s \in SUBSET S : Cardinality(s) <= n - 1 => g[s] = h[s]
    BY <2>4
  <2>7. Upto(g, n)
    <3> SUFFICES ASSUME NEW s \in SUBSET S, Cardinality(s) <= n, s # {}
                 PROVE  g[s] = f[AnyOf(s)] + g[s \ {AnyOf(s)}]
      OBVIOUS
    <3> DEFINE r == s \ {AnyOf(s)}
    <3>0. r \in SUBSET S /\ Cardinality(r) = Cardinality(s) - 1 /\ Cardinality(s) \in Nat /\ n \in Nat
      BY <1>1, <1>2
    <3>1. g[s] = f[AnyOf(s)] + h[r]
      OBVIOUS
    <3> HIDE DEF r, g
    <3>2. g[r] = h[r]
      BY <3>0, <2>6
    <3> QED BY <3>1, <3>2 DEF r
  <2> QED BY <2>5, <2>7
<1>4. Cardinality(S) \in Nat
  BY FS_CardinalityType
<1>5. \E h \in [SUBSET S -> Int] : Upto(h, Cardinality(S))
  BY <1>3, <1>4
<1> QED BY <1>1, <1>5 DEF Tallies

\* So the library's sum satisfies it.
LEMMA SumIsTally ==
    ASSUME NEW S, IsFiniteSet(S), NEW f, \A x \in S : f[x] \in Int
    PROVE  \E h \in [SUBSET S -> Int] : Tallies(h, f, S) /\ SumFunctionOnSet(f, S) = h[S]
<1> DEFINE Rec(h) == h = [s \in SUBSET S |-> IF s = {} THEN 0 ELSE f[AnyOf(s)] + h[s \ {AnyOf(s)}]]
           it == CHOOSE h : Rec(h)
<1>1. SumFunctionOnSet(f, S) = it[S]
  BY Zenon DEF SumFunctionOnSet, FoldFunctionOnSet, MapThenFoldSet, AnyOf
<1>2. PICK h \in [SUBSET S -> Int] : Tallies(h, f, S)
  BY TallyExists
<1>3. Rec(h)
  BY <1>2 DEF Tallies
<1>4. Rec(it)
  BY <1>3, Zenon
<1>5. \A s \in SUBSET S : it[s] = IF s = {} THEN 0 ELSE f[AnyOf(s)] + it[s \ {AnyOf(s)}]
  BY <1>4
<1> HIDE DEF it
<1> DEFINE Bad == {s \in SUBSET S : it[s] \notin Int}
<1>6. Bad = {}
  <2> SUFFICES ASSUME Bad # {} PROVE FALSE
    OBVIOUS
  <2>1. PICK s \in Bad : \A t \in Bad : t \subseteq s => t = s
    <3>1. Bad \in SUBSET (SUBSET S)
      OBVIOUS
    <3> HIDE DEF Bad
    <3> QED BY <3>1, SmallestSet
  <2>2. s # {} /\ it[s] = f[AnyOf(s)] + it[s \ {AnyOf(s)}]
    BY <1>5
  <2>3. AnyOf(s) \in s
    BY <2>2 DEF AnyOf
  <2>4. s \ {AnyOf(s)} \in SUBSET S /\ s \ {AnyOf(s)} # s /\ AnyOf(s) \in S
    BY <2>3
  <2>5. it[s \ {AnyOf(s)}] \in Int
    BY <2>1, <2>4
  <2> QED BY <2>2, <2>4, <2>5
<1>7. it \in [SUBSET S -> Int]
  <2>1. it = [s \in SUBSET S |-> it[s]]
    BY <1>4
  <2> QED BY <1>6, <2>1
<1>8. Tallies(it, f, S)
  BY <1>5 DEF Tallies
<1> QED BY <1>1, <1>7, <1>8

\* What a set and its parts add up to, when one element is taken out at a time.
LEMMA TallyStep ==
    ASSUME NEW S, NEW s \in SUBSET S, s # {}
    PROVE  /\ AnyOf(s) \in S /\ s \ {AnyOf(s)} \in SUBSET S
           /\ s \ {AnyOf(s)} \subseteq s /\ s \ {AnyOf(s)} # s
BY DEF AnyOf

\* A sum of naturals is a natural.
LEMMA SumTyped ==
    ASSUME NEW S, IsFiniteSet(S), NEW f, \A x \in S : f[x] \in Nat
    PROVE  SumFunctionOnSet(f, S) \in Nat
<1>0. \A x \in S : f[x] \in Int
  OBVIOUS
<1>1. PICK h \in [SUBSET S -> Int] : Tallies(h, f, S) /\ SumFunctionOnSet(f, S) = h[S]
  BY <1>0, SumIsTally
<1> DEFINE Bad == {s \in SUBSET S : h[s] \notin Nat}
<1>2. Bad = {}
  <2> SUFFICES ASSUME Bad # {} PROVE FALSE
    OBVIOUS
  <2>1. PICK s \in Bad : \A t \in Bad : t \subseteq s => t = s
    <3>1. Bad \in SUBSET (SUBSET S)
      OBVIOUS
    <3> HIDE DEF Bad
    <3> QED BY <3>1, SmallestSet
  <2>2. s # {} /\ h[s] = f[AnyOf(s)] + h[s \ {AnyOf(s)}]
    BY <1>1 DEF Tallies
  <2>3. f[AnyOf(s)] \in Nat /\ h[s \ {AnyOf(s)}] \in Nat
    BY <2>1, <2>2, TallyStep
  <2> QED BY <2>2, <2>3
<1> QED BY <1>1, <1>2

\* Sums are ordered as what they sum is.
LEMMA SumOrdered ==
    ASSUME NEW S, IsFiniteSet(S), NEW f, NEW g,
           \A x \in S : f[x] \in Int /\ g[x] \in Int /\ f[x] <= g[x]
    PROVE  SumFunctionOnSet(f, S) <= SumFunctionOnSet(g, S)
<1>1. PICK h \in [SUBSET S -> Int] : Tallies(h, f, S) /\ SumFunctionOnSet(f, S) = h[S]
  BY SumIsTally
<1>2. PICK k \in [SUBSET S -> Int] : Tallies(k, g, S) /\ SumFunctionOnSet(g, S) = k[S]
  BY SumIsTally
<1> DEFINE Bad == {s \in SUBSET S : ~(h[s] <= k[s])}
<1>3. Bad = {}
  <2> SUFFICES ASSUME Bad # {} PROVE FALSE
    OBVIOUS
  <2>1. PICK s \in Bad : \A t \in Bad : t \subseteq s => t = s
    <3>1. Bad \in SUBSET (SUBSET S)
      OBVIOUS
    <3> HIDE DEF Bad
    <3> QED BY <3>1, SmallestSet
  <2>2. s # {} /\ h[s] = f[AnyOf(s)] + h[s \ {AnyOf(s)}] /\ k[s] = g[AnyOf(s)] + k[s \ {AnyOf(s)}]
    BY <1>1, <1>2 DEF Tallies
  <2> DEFINE x == AnyOf(s)
             r == s \ {x}
  <2>3. x \in S /\ r \in SUBSET S /\ h[r] <= k[r]
    BY <2>1, <2>2, TallyStep
  <2>4. f[x] \in Int /\ g[x] \in Int /\ f[x] <= g[x] /\ h[r] \in Int /\ k[r] \in Int
    BY <2>3
  <2>5. h[s] = f[x] + h[r] /\ k[s] = g[x] + k[r] /\ ~(h[s] <= k[s])
    BY <2>2
  <2> HIDE DEF x, r
  <2> QED BY <2>3, <2>4, <2>5
<1> QED BY <1>1, <1>2, <1>3

\* A sum of naturals that is not zero has a part that is not.
LEMMA SumHasPart ==
    ASSUME NEW S, IsFiniteSet(S), NEW f, \A x \in S : f[x] \in Nat,
           SumFunctionOnSet(f, S) # 0
    PROVE  \E x \in S : f[x] # 0
<1> SUFFICES ASSUME \A x \in S : f[x] = 0 PROVE FALSE
  OBVIOUS
<1>0. \A x \in S : f[x] \in Int
  OBVIOUS
<1>1. PICK h \in [SUBSET S -> Int] : Tallies(h, f, S) /\ SumFunctionOnSet(f, S) = h[S]
  BY <1>0, SumIsTally
<1> DEFINE Bad == {s \in SUBSET S : h[s] # 0}
<1>2. Bad = {}
  <2> SUFFICES ASSUME Bad # {} PROVE FALSE
    OBVIOUS
  <2>1. PICK s \in Bad : \A t \in Bad : t \subseteq s => t = s
    <3>1. Bad \in SUBSET (SUBSET S)
      OBVIOUS
    <3> HIDE DEF Bad
    <3> QED BY <3>1, SmallestSet
  <2>2. s # {} /\ h[s] = f[AnyOf(s)] + h[s \ {AnyOf(s)}]
    BY <1>1 DEF Tallies
  <2>3. f[AnyOf(s)] = 0 /\ h[s \ {AnyOf(s)}] = 0
    BY <2>1, <2>2, TallyStep
  <2> QED BY <2>2, <2>3
<1> QED BY <1>1, <1>2

-----------------------------------------------------------------------------
(* Posteriors.                                                             *)

\* A quotient lies between the bounds of its dividend.
LEMMA QuotientBounds ==
    ASSUME NEW a \in Int, NEW b \in Int, b > 0, NEW k \in Int
    PROVE  /\ a \div b \in Int
           /\ a >= k * b => a \div b >= k
           /\ a < (k + 1) * b => a \div b <= k
<1> DEFINE q == a \div b
<1>1. q \in Int /\ q * b <= a /\ a < q * b + b
  OBVIOUS
<1> HIDE DEF q
<1>2. ASSUME a >= k * b PROVE q >= k
  <2> SUFFICES ASSUME q <= k - 1 PROVE FALSE
    BY <1>1
  <2>1. (k - 1 - q) * b >= 0
    BY <1>1
  <2>2. (k - 1 - q) * b = k * b - b - q * b
    BY <1>1
  <2> QED BY <1>1, <1>2, <2>1, <2>2
<1>3. ASSUME a < (k + 1) * b PROVE q <= k
  <2> SUFFICES ASSUME q >= k + 1 PROVE FALSE
    BY <1>1
  <2>1. (q - (k + 1)) * b >= 0
    BY <1>1
  <2>2. (q - (k + 1)) * b = q * b - (k + 1) * b
    BY <1>1
  <2> QED BY <1>1, <1>3, <2>1, <2>2
<1> QED BY <1>1, <1>2, <1>3 DEF q

\* From the default prior, a confidence exceeds it only with a success, and
\* falls below it only with a report that was none.
LEMMA PosteriorMoves ==
    ASSUME NEW s \in Nat, NEW n \in Nat
    PROVE  /\ Posterior(s, n, DefaultPrior) \in Nat
           /\ Posterior(s, n, DefaultPrior) > DefaultPrior => s # 0
           /\ Posterior(s, n, DefaultPrior) < DefaultPrior => n > s
<1> DEFINE a == 2 * (10000 * s + 12000) + (n + 2)
           b == 2 * (n + 2)
<1>1. a \in Int /\ b \in Int /\ b > 0 /\ Posterior(s, n, DefaultPrior) = a \div b
  BY DEF Posterior, Nearest, One, PriorWeight, DefaultPrior
<1>2. a >= 0 * b /\ (s = 0 => a < (6000 + 1) * b) /\ (n <= s => a >= 6000 * b)
  OBVIOUS
<1> HIDE DEF a, b
<1>3. a \div b \in Int /\ a \div b >= 0
  BY <1>1, <1>2, QuotientBounds
<1>4. s = 0 => a \div b <= 6000
  BY <1>1, <1>2, QuotientBounds
<1>5. n <= s => a \div b >= 6000
  BY <1>1, <1>2, QuotientBounds
<1> QED BY <1>1, <1>3, <1>4, <1>5 DEF DefaultPrior

LEMMA Confidences ==
    /\ \A x \in 0..One : x \in Nat /\ x <= One
    /\ \A x \in Nat : x <= One => x \in 0..One
BY DEF One

\* And it is a confidence, when there are no more successes than reports.
LEMMA PosteriorBounded ==
    ASSUME NEW s \in Nat, NEW n \in Nat, s <= n
    PROVE  Posterior(s, n, DefaultPrior) \in 0..One
<1> DEFINE a == 2 * (10000 * s + 12000) + (n + 2)
           b == 2 * (n + 2)
<1>1. a \in Int /\ b \in Int /\ b > 0 /\ Posterior(s, n, DefaultPrior) = a \div b
  BY DEF Posterior, Nearest, One, PriorWeight, DefaultPrior
<1>2. a >= 0 * b /\ a < (10000 + 1) * b
  OBVIOUS
<1> HIDE DEF a, b
<1>3. a \div b \in Int /\ a \div b >= 0 /\ a \div b <= 10000
  BY <1>1, <1>2, QuotientBounds
<1> QED BY <1>1, <1>3 DEF One
=============================================================================
