-------------------------- MODULE ExperimentProofs --------------------------
(***************************************************************************)
(* For arms of any number of tasks, agents and memories: what the harness  *)
(* adds up from its own books is true of the texts the agents were given,  *)
(* and the counters of compute_metrics are what its definitions say.       *)
(***************************************************************************)
EXTENDS Experiment, FleetProofs

-----------------------------------------------------------------------------
(* Counts.                                                                 *)

\* What adds up one element at a time, in whatever order, is the sum.
AddsUp(Z, f, S) ==
    Z[{}] = 0 /\ \A s \in SUBSET S : \A x \in s : Z[s] = f[x] + Z[s \ {x}]

LEMMA SumIs ==
    ASSUME NEW S, IsFiniteSet(S), NEW f, \A x \in S : f[x] \in Int, NEW Z, AddsUp(Z, f, S)
    PROVE  SumFunctionOnSet(f, S) = Z[S]
<1>1. PICK h \in [SUBSET S -> Int] : Tallies(h, f, S) /\ SumFunctionOnSet(f, S) = h[S]
    BY SumIsTally
<1> DEFINE Bad == {s \in SUBSET S : h[s] # Z[s]}
<1>2. Bad = {}
    <2> SUFFICES ASSUME Bad # {} PROVE FALSE
        OBVIOUS
    <2>1. PICK s \in Bad : \A t \in Bad : t \subseteq s => t = s
        <3>1. Bad \in SUBSET (SUBSET S)
            OBVIOUS
        <3> HIDE DEF Bad
        <3> QED BY <3>1, SmallestSet
    <2>2. s # {} /\ h[s] = f[AnyOf(s)] + h[s \ {AnyOf(s)}]
        BY <1>1 DEF Tallies, AddsUp
    <2>3. AnyOf(s) \in s /\ s \ {AnyOf(s)} \in SUBSET S /\ s \ {AnyOf(s)} # s
        BY <2>2 DEF AnyOf
    <2>4. h[s \ {AnyOf(s)}] = Z[s \ {AnyOf(s)}] /\ h[s \ {AnyOf(s)}] \in Int
        BY <2>1, <2>3
    <2> QED BY <2>2, <2>3, <2>4 DEF AddsUp
<1> QED BY <1>1, <1>2

\* The sizes of sets add up to the number of their elements, each with its set.
Sizes(f, F, S, U) ==
    \A x \in S : F[x] \subseteq U /\ IsFiniteSet(F[x]) /\ f[x] = Cardinality(F[x])

Members(F, S, U) == {p \in S \X U : p[2] \in F[p[1]]}

LEMMA SumOfSizes ==
    ASSUME NEW S, IsFiniteSet(S), NEW U, NEW F, NEW f, Sizes(f, F, S, U)
    PROVE  SumFunctionOnSet(f, S) = Cardinality(Members(F, S, U))
<1> DEFINE Pairs(s) == {p \in s \X U : p[2] \in F[p[1]]}
           Z == [s \in SUBSET S |-> Cardinality(Pairs(s))]
<1>1. ASSUME NEW s \in SUBSET S, NEW x \in s
      PROVE  /\ Pairs(s) = Pairs(s \ {x}) \cup ({x} \X F[x])
             /\ Pairs(s \ {x}) \cap ({x} \X F[x]) = {}
    BY SMT DEF Sizes
<1>2. ASSUME NEW x \in S
      PROVE  /\ IsFiniteSet({x} \X F[x]) /\ Cardinality({x} \X F[x]) = f[x] /\ f[x] \in Nat
    <2>1. IsFiniteSet({x}) /\ Cardinality({x}) = 1
        BY FS_Singleton
    <2>2. IsFiniteSet(F[x]) /\ f[x] = Cardinality(F[x]) /\ f[x] \in Nat
        BY FS_CardinalityType DEF Sizes
    <2> QED BY <2>1, <2>2, FS_Product
<1>3. \A s \in SUBSET S : IsFiniteSet(Pairs(s))
    <2> DEFINE Bad == {s \in SUBSET S : ~IsFiniteSet(Pairs(s))}
    <2>1. Bad = {}
        <3> SUFFICES ASSUME Bad # {} PROVE FALSE
            OBVIOUS
        <3>1. PICK s \in Bad : \A t \in Bad : t \subseteq s => t = s
            <4>1. Bad \in SUBSET (SUBSET S)
                OBVIOUS
            <4> HIDE DEF Bad
            <4> QED BY <4>1, SmallestSet
        <3>2. s # {}
            <4> SUFFICES ASSUME s = {} PROVE FALSE
                OBVIOUS
            <4>1. Pairs(s) = {}
                OBVIOUS
            <4> QED BY <4>1, FS_EmptySet
        <3>3. PICK x \in s : TRUE
            BY <3>2
        <3>4. IsFiniteSet(Pairs(s \ {x}))
            <4>1. s \ {x} \in SUBSET S /\ s \ {x} # s /\ s \ {x} \subseteq s
                BY <3>3
            <4> HIDE DEF Pairs
            <4> QED BY <3>1, <4>1
        <3>5. IsFiniteSet(Pairs(s \ {x}) \cup ({x} \X F[x]))
            BY <1>2, <3>4, FS_Union
        <3> QED BY <1>1, <3>5
    <2> QED BY <2>1
<1>4. ASSUME NEW s \in SUBSET S, NEW x \in s
      PROVE  Cardinality(Pairs(s)) = f[x] + Cardinality(Pairs(s \ {x}))
    <2>1. IsFiniteSet(Pairs(s \ {x})) /\ Cardinality(Pairs(s \ {x})) \in Nat
        BY <1>3, FS_CardinalityType
    <2>2. /\ Pairs(s) = Pairs(s \ {x}) \cup ({x} \X F[x])
          /\ Pairs(s \ {x}) \cap ({x} \X F[x]) = {}
        BY <1>1
    <2>3. x \in S /\ IsFiniteSet({x} \X F[x]) /\ Cardinality({x} \X F[x]) = f[x] /\ f[x] \in Nat
        BY <1>2
    <2> DEFINE P == Pairs(s \ {x})
               Q == {x} \X F[x]
    <2>4. /\ Pairs(s) = P \cup Q /\ P \cap Q = {}
          /\ IsFiniteSet(P) /\ IsFiniteSet(Q) /\ Cardinality(Q) = f[x] /\ Cardinality(P) \in Nat
        BY <2>1, <2>2, <2>3
    <2> HIDE DEF P, Q, Pairs
    <2>5. Cardinality(P \cup Q) = Cardinality(P) + Cardinality(Q) - Cardinality(P \cap Q)
        BY <2>4, FS_Union
    <2>6. Cardinality(P \cap Q) = 0
        BY <2>4, FS_EmptySet
    <2>7. Cardinality(Pairs(s)) = Cardinality(P) + f[x]
        BY <2>3, <2>4, <2>5, <2>6
    <2> QED BY <2>3, <2>4, <2>7 DEF P
<1>5. Pairs({}) = {}
    OBVIOUS
<1> HIDE DEF Pairs
<1>6. Z[{}] = 0
    BY <1>5, FS_EmptySet
<1>7. AddsUp(Z, f, S)
    BY <1>4, <1>6 DEF AddsUp
<1>8. Z[S] = Cardinality(Pairs(S))
    OBVIOUS
<1> HIDE DEF Z
<1>9. SumFunctionOnSet(f, S) = Z[S]
    <2>1. \A x \in S : f[x] \in Int
        <3>1. \A x \in S : Cardinality(F[x]) \in Nat
            BY FS_CardinalityType DEF Sizes
        <3> QED BY <3>1 DEF Sizes
    <2> QED BY <1>7, <2>1, SumIs
<1> QED BY <1>8, <1>9 DEF Pairs, Members

\* Ones and noughts add up to the number of ones.
LEMMA SumOfOnes ==
    ASSUME NEW S, IsFiniteSet(S), NEW B, NEW f, \A x \in S : f[x] = Count(x \in B)
    PROVE  SumFunctionOnSet(f, S) = Cardinality(S \cap B)
<1> DEFINE Z == [s \in SUBSET S |-> Cardinality(s \cap B)]
<1>1. \A x \in S : f[x] \in Int
    BY DEF Count
<1>2. ASSUME NEW s \in SUBSET S, NEW x \in s
      PROVE  Z[s] = f[x] + Z[s \ {x}]
    <2>1. IsFiniteSet((s \ {x}) \cap B) /\ Cardinality((s \ {x}) \cap B) \in Nat
        <3>1. (s \ {x}) \cap B \in SUBSET S
            OBVIOUS
        <3> QED BY <3>1, FS_Subset, FS_CardinalityType
    <2>2. CASE x \in B
        <3>1. s \cap B = ((s \ {x}) \cap B) \cup {x} /\ x \notin (s \ {x}) \cap B
            BY <2>2
        <3>2. Cardinality(s \cap B) = Cardinality((s \ {x}) \cap B) + 1
            BY <2>1, <3>1, FS_AddElement
        <3> QED BY <2>1, <2>2, <3>2 DEF Count
    <2>3. CASE x \notin B
        <3>1. s \cap B = (s \ {x}) \cap B
            BY <2>3
        <3>2. f[x] = 0
            BY <2>3 DEF Count
        <3>3. Cardinality(s \cap B) = Cardinality((s \ {x}) \cap B)
            BY <3>1, Zenon
        <3> QED BY <2>1, <3>2, <3>3
    <2> QED BY <2>2, <2>3
<1>3. Z[{}] = 0
    <2>1. {} \cap B = {}
        OBVIOUS
    <2> QED BY <2>1, FS_EmptySet
<1>4. Z[S] = Cardinality(S \cap B)
    OBVIOUS
<1> HIDE DEF Z
<1>5. AddsUp(Z, f, S)
    BY <1>2, <1>3 DEF AddsUp
<1>6. SumFunctionOnSet(f, S) = Z[S]
    BY <1>1, <1>5, SumIs
<1> QED BY <1>4, <1>6

\* So does a counter that goes up at every one.
LEMMA CounterCounts ==
    ASSUME NEW n \in Nat, NEW B, NEW c, c[0] = 0,
           \A k \in 1..n : c[k] = c[k - 1] + Count(k \in B)
    PROVE  c[n] = Cardinality({i \in 1..n : i \in B})
<1> DEFINE C(k) == {i \in 1..k : i \in B}
           Bad == {k \in 0..n : c[k] # Cardinality(C(k))}
<1>1. Bad = {}
    <2> SUFFICES ASSUME Bad # {} PROVE FALSE
        OBVIOUS
    <2>1. PICK k \in Bad : \A j \in Bad : k <= j
        <3>1. Bad \in SUBSET Nat
            OBVIOUS
        <3> HIDE DEF Bad
        <3> QED BY <3>1, LeastNumber
    <2>2. k # 0
        <3> SUFFICES ASSUME k = 0 PROVE FALSE
            OBVIOUS
        <3>1. C(0) = {}
            OBVIOUS
        <3> QED BY <3>1, FS_EmptySet
    <2>3. k \in 1..n /\ k - 1 \in 0..n /\ k - 1 \notin Bad
        BY <2>1, <2>2
    <2>4. c[k - 1] = Cardinality(C(k - 1)) /\ c[k] = c[k - 1] + Count(k \in B)
        BY <2>3
    <2>5. IsFiniteSet(C(k - 1)) /\ Cardinality(C(k - 1)) \in Nat
        <3>1. C(k - 1) \in SUBSET (1..(k - 1)) /\ IsFiniteSet(1..(k - 1))
            BY <2>3, FS_Interval
        <3> QED BY <3>1, FS_Subset, FS_CardinalityType
    <2>6. CASE k \in B
        <3>1. C(k) = C(k - 1) \cup {k} /\ k \notin C(k - 1)
            BY <2>3, <2>6
        <3>2. Cardinality(C(k)) = Cardinality(C(k - 1)) + 1
            BY <2>5, <3>1, FS_AddElement
        <3> QED BY <2>4, <2>6, <3>2 DEF Count
    <2>7. CASE k \notin B
        <3>1. C(k) = C(k - 1)
            BY <2>3, <2>7
        <3> QED BY <2>4, <2>5, <2>7, <3>1 DEF Count
    <2> QED BY <2>6, <2>7
<1> QED BY <1>1

\* And a counter that goes up by the size of a set at each.
LEMMA CounterSums ==
    ASSUME NEW n \in Nat, NEW U, NEW F, NEW f, Sizes(f, F, 1..n, U), NEW c, c[0] = 0,
           \A k \in 1..n : c[k] = c[k - 1] + f[k]
    PROVE  c[n] = Cardinality(Members(F, 1..n, U))
<1> DEFINE P(k) == Members(F, 1..k, U)
           Bad == {k \in 0..n : ~(IsFiniteSet(P(k)) /\ c[k] = Cardinality(P(k)))}
<1>1. Bad = {}
    <2> SUFFICES ASSUME Bad # {} PROVE FALSE
        OBVIOUS
    <2>1. PICK k \in Bad : \A j \in Bad : k <= j
        <3>1. Bad \in SUBSET Nat
            OBVIOUS
        <3> HIDE DEF Bad
        <3> QED BY <3>1, LeastNumber
    <2>2. k # 0
        <3> SUFFICES ASSUME k = 0 PROVE FALSE
            OBVIOUS
        <3>1. P(0) = {}
            BY DEF Members
        <3> QED BY <3>1, FS_EmptySet
    <2>3. k \in 1..n /\ k - 1 \in 0..n /\ k - 1 \notin Bad
        BY <2>1, <2>2
    <2>4. /\ IsFiniteSet(P(k - 1)) /\ c[k - 1] = Cardinality(P(k - 1))
          /\ c[k] = c[k - 1] + f[k]
        BY <2>3
    <2>5. IsFiniteSet({k} \X F[k]) /\ Cardinality({k} \X F[k]) = f[k]
        <3>1. IsFiniteSet({k}) /\ Cardinality({k}) = 1
            BY FS_Singleton
        <3>2. IsFiniteSet(F[k]) /\ f[k] = Cardinality(F[k]) /\ f[k] \in Nat
            BY <2>3, FS_CardinalityType DEF Sizes
        <3> QED BY <3>1, <3>2, FS_Product
    <2>6. P(k) = P(k - 1) \cup ({k} \X F[k]) /\ P(k - 1) \cap ({k} \X F[k]) = {}
        <3>1. 1..k = 1..(k - 1) \cup {k} /\ k \notin 1..(k - 1)
            BY <2>3
        <3>2. F[k] \subseteq U
            BY <2>3 DEF Sizes
        <3> QED BY <3>1, <3>2 DEF Members
    <2>7. IsFiniteSet(P(k)) /\ Cardinality(P(k)) = Cardinality(P(k - 1)) + f[k]
        <3> DEFINE Q == {k} \X F[k]
        <3> HIDE DEF P, Q
        <3>1. /\ IsFiniteSet(Q) /\ Cardinality(Q) = f[k] /\ f[k] \in Nat
              /\ P(k) = P(k - 1) \cup Q /\ P(k - 1) \cap Q = {}
            BY <2>5, <2>6, FS_CardinalityType DEF Q
        <3>2. /\ IsFiniteSet(P(k - 1) \cup Q)
              /\ Cardinality(P(k - 1) \cup Q) = Cardinality(P(k - 1)) + Cardinality(Q)
                                                - Cardinality(P(k - 1) \cap Q)
            BY <2>4, <3>1, FS_Union
        <3>3. Cardinality(P(k - 1)) \in Nat /\ Cardinality(P(k - 1) \cap Q) = 0
            BY <2>4, <3>1, FS_EmptySet, FS_CardinalityType
        <3> QED BY <3>1, <3>2, <3>3
    <2> QED BY <2>4, <2>7
<1> QED BY <1>1

-----------------------------------------------------------------------------
(* Folds.                                                                  *)

\* Some numbers up to n have a greatest one.
LEMMA MaxIn ==
    ASSUME NEW n \in Nat, NEW t \in SUBSET (1..n), t # {}
    PROVE  Max(t) \in t /\ Max(t) \in 1..n /\ \A x \in t : x <= Max(t)
<1> DEFINE Bounds == {k \in Nat : \A x \in t : x <= k}
<1>1. n \in Bounds
    OBVIOUS
<1>2. PICK k \in Bounds : \A j \in Bounds : k <= j
    <2>1. Bounds \in SUBSET Nat
        OBVIOUS
    <2> HIDE DEF Bounds
    <2> QED BY <1>1, <2>1, LeastNumber
<1>3. k \in t
    <2> SUFFICES ASSUME k \notin t PROVE FALSE
        OBVIOUS
    <2>1. PICK x \in t : TRUE
        OBVIOUS
    <2>2. k - 1 \in Nat /\ \A y \in t : y <= k - 1
        BY <2>1
    <2>3. k - 1 \in Bounds
        BY <2>2
    <2>4. k <= k - 1
        BY <1>2, <2>3
    <2> QED BY <2>2, <2>4
<1>4. k \in t /\ \A y \in t : k >= y
    BY <1>3
<1>5. Max(t) \in t /\ \A y \in t : Max(t) >= y
    BY <1>4 DEF Max
<1> QED BY <1>5

Rest(t) == t \ {Max(t)}

LEMMA RestSmaller ==
    ASSUME NEW n \in Nat, NEW t \in SUBSET (1..n), t # {}
    PROVE  /\ Rest(t) \in SUBSET (1..n) /\ Rest(t) \subseteq t /\ Rest(t) # t
           /\ IsFiniteSet(t) /\ Cardinality(Rest(t)) = Cardinality(t) - 1
<1>1. Max(t) \in t
    BY MaxIn
<1>2. IsFiniteSet(t)
    <2>1. IsFiniteSet(1..n)
        BY FS_Interval
    <2> QED BY <2>1, FS_Subset
<1> QED BY <1>1, <1>2, FS_RemoveElement DEF Rest

\* The recursion a fold is defined by, on the sets of indices: the last index
\* is taken out, and G says what its element makes of the rest.
Folds(h, G, base, n) ==
    \A t \in SUBSET (1..n) : h[t] = IF t = {} THEN base ELSE G[<<Max(t), h[Rest(t)]>>]

Closed(G, n, V) == \A i \in 1..n : \A v \in V : G[<<i, v>>] \in V

\* It has a solution.
LEMMA FoldExists ==
    ASSUME NEW n \in Nat, NEW V, NEW base \in V, NEW G,
           Closed(G, n, V)
    PROVE  \E h \in [SUBSET (1..n) -> V] : Folds(h, G, base, n)
<1> DEFINE S == 1..n
           Upto(h, k) == \A t \in SUBSET S : Cardinality(t) <= k =>
                             h[t] = IF t = {} THEN base ELSE G[<<Max(t), h[Rest(t)]>>]
           Bad == {k \in Nat : ~ \E h \in [SUBSET S -> V] : Upto(h, k)}
<1>1. \A t \in SUBSET S : IsFiniteSet(t) /\ Cardinality(t) \in Nat /\ (Cardinality(t) = 0 <=> t = {})
                          /\ Cardinality(t) <= n
    <2>1. IsFiniteSet(S) /\ Cardinality(S) = n
        BY FS_Interval
    <2> SUFFICES ASSUME NEW t \in SUBSET S
                 PROVE  /\ IsFiniteSet(t) /\ Cardinality(t) \in Nat
                        /\ Cardinality(t) = 0 <=> t = {}
                        /\ Cardinality(t) <= n
        OBVIOUS
    <2> HIDE DEF S
    <2>2. IsFiniteSet(t) /\ Cardinality(t) <= n
        BY <2>1, FS_Subset
    <2> QED BY <2>2, FS_CardinalityType, FS_EmptySet
<1>2. Bad = {}
    <2> SUFFICES ASSUME Bad # {} PROVE FALSE
        OBVIOUS
    <2>1. PICK k \in Bad : \A j \in Bad : k <= j
        <3>1. Bad \in SUBSET Nat
            OBVIOUS
        <3> HIDE DEF Bad
        <3> QED BY <3>1, LeastNumber
    <2>2. k # 0
        <3> SUFFICES ASSUME k = 0 PROVE FALSE
            OBVIOUS
        <3> DEFINE h == [t \in SUBSET S |-> base]
        <3>1. h \in [SUBSET S -> V] /\ Upto(h, 0)
            BY <1>1
        <3> QED BY <3>1
    <2>3. k - 1 \in Nat /\ k - 1 \notin Bad
        <3>1. k \in Nat
            OBVIOUS
        <3> HIDE DEF Bad
        <3> QED BY <2>1, <2>2, <3>1
    <2>4. PICK h \in [SUBSET S -> V] : Upto(h, k - 1)
        BY <2>3
    <2> DEFINE W(t) == IF t = {} THEN base ELSE G[<<Max(t), h[Rest(t)]>>]
               g == [t \in SUBSET S |-> W(t)]
    <2>5. g \in [SUBSET S -> V]
        <3>1. \A t \in SUBSET S : W(t) \in V
            <4> SUFFICES ASSUME NEW t \in SUBSET S, t # {} PROVE G[<<Max(t), h[Rest(t)]>>] \in V
                OBVIOUS
            <4>1. Max(t) \in 1..n /\ h[Rest(t)] \in V
                BY MaxIn, RestSmaller
            <4> QED BY <4>1 DEF Closed
        <3> HIDE DEF W
        <3> QED BY <3>1
    <2>6. \A t \in SUBSET S : Cardinality(t) <= k - 1 => g[t] = h[t]
        BY <2>4
    <2>7. Upto(g, k)
        <3> SUFFICES ASSUME NEW t \in SUBSET S, Cardinality(t) <= k, t # {}
                     PROVE  g[t] = G[<<Max(t), g[Rest(t)]>>]
            OBVIOUS
        <3>1. Rest(t) \in SUBSET S /\ Cardinality(Rest(t)) <= k - 1
            BY <1>1, RestSmaller
        <3>2. g[t] = G[<<Max(t), h[Rest(t)]>>]
            OBVIOUS
        <3> HIDE DEF g
        <3>3. g[Rest(t)] = h[Rest(t)]
            BY <2>6, <3>1
        <3> QED BY <3>2, <3>3
    <2> QED BY <2>5, <2>7
<1>3. \E h \in [SUBSET S -> V] : Upto(h, n)
    BY <1>2
<1> QED BY <1>1, <1>3 DEF Folds

\* The same of what is only known to be right once its rest is a value.
Follows(it, G, base, n, V) ==
    /\ it[{}] = base
    /\ \A t \in SUBSET (1..n) :
           t # {} /\ it[Rest(t)] \in V => it[t] = G[<<Max(t), it[Rest(t)]>>]

\* One value for each number of elements passed.
Runs(g, G, base, n, last) ==
    g[0] = base /\ g[n] = last /\ \A k \in 1..n : g[k] = G[<<k, g[k - 1]>>]

\* What follows the recursion runs through the indices in order.
LEMMA FoldRuns ==
    ASSUME NEW n \in Nat, NEW V, NEW base \in V, NEW G,
           Closed(G, n, V), NEW it, Follows(it, G, base, n, V)
    PROVE  \E g \in [0..n -> V] : Runs(g, G, base, n, it[1..n])
<1> DEFINE Bad == {t \in SUBSET (1..n) : it[t] \notin V}
<1>1. Bad = {}
    <2> SUFFICES ASSUME Bad # {} PROVE FALSE
        OBVIOUS
    <2>1. PICK t \in Bad : \A u \in Bad : u \subseteq t => u = t
        <3> DEFINE S == 1..n
        <3>1. Bad \in SUBSET (SUBSET S) /\ IsFiniteSet(S)
            BY FS_Interval
        <3> HIDE DEF Bad, S
        <3> QED BY <3>1, SmallestSet
    <2>2. t # {} /\ t \in SUBSET (1..n)
        BY DEF Follows
    <2>3. Rest(t) \in SUBSET (1..n) /\ Rest(t) \notin Bad
        <3>1. Rest(t) \in SUBSET (1..n) /\ Rest(t) \subseteq t /\ Rest(t) # t
            BY <2>2, RestSmaller
        <3> HIDE DEF Bad
        <3> QED BY <2>1, <3>1
    <2>4. it[Rest(t)] \in V /\ Max(t) \in 1..n
        BY <2>2, <2>3, MaxIn
    <2> QED BY <2>2, <2>4 DEF Follows, Closed
<1> DEFINE g == [k \in 0..n |-> it[1..k]]
<1>2. g \in [0..n -> V]
    <2>1. \A k \in 0..n : 1..k \in SUBSET (1..n)
        OBVIOUS
    <2> QED BY <1>1, <2>1
<1>3. g[0] = base /\ g[n] = it[1..n]
    <2>1. 1..0 = {}
        OBVIOUS
    <2> QED BY <2>1 DEF Follows
<1>4. ASSUME NEW k \in 1..n PROVE g[k] = G[<<k, g[k - 1]>>]
    <2>1. 1..k \in SUBSET (1..n) /\ 1..k # {} /\ k \in 1..k
        OBVIOUS
    <2>2. Max(1..k) = k
        <3>1. Max(1..k) \in 1..k /\ \A x \in 1..k : x <= Max(1..k)
            BY <2>1, MaxIn
        <3> QED BY <2>1, <3>1
    <2>3. Rest(1..k) = 1..(k - 1)
        BY <2>2 DEF Rest
    <2>4. g[k] = it[1..k] /\ g[k - 1] = it[1..(k - 1)] /\ g[k - 1] \in V
        BY <1>2
    <2> HIDE DEF g
    <2> QED BY <2>1, <2>2, <2>3, <2>4 DEF Follows
<1> QED BY <1>2, <1>3, <1>4 DEF Runs

-----------------------------------------------------------------------------
(* The passes over the rows.                                               *)

Counters == [solved : SUBSET Families, repeats : Nat, redundant : Nat,
             tasks_injected : Nat, injected : Nat, injected_relevant : Nat,
             tasks_relevant : Nat, relevant_success : Nat, successes : Nat]

LEMMA AddTyped ==
    ASSUME NEW t \in Counters, NEW r \in Outcome, IsFiniteSet(r.keys)
    PROVE  Add(t, r) \in Counters
<1>1. Cardinality(r.keys) \in Nat
    BY FS_CardinalityType
<1>2. \A b \in BOOLEAN : Count(b) \in Nat
    BY DEF Count
<1>3. r.family \in Families /\ r.success \in BOOLEAN
    BY DEF Outcome
<1>4. t.solved \cup (IF r.success THEN {r.family} ELSE {}) \in SUBSET Families
    BY <1>3 DEF Counters
<1>5. \A b, c \in BOOLEAN : (b /\ ~c) \in BOOLEAN /\ (b /\ c) \in BOOLEAN
    OBVIOUS
<1> DEFINE reuses == r.family \in r.keys
           again  == r.family \in t.solved
           given  == r.keys # {}
<1>6. reuses \in BOOLEAN /\ again \in BOOLEAN /\ given \in BOOLEAN
    OBVIOUS
<1>7. Add(t, r) = [solved            |-> t.solved \cup (IF r.success THEN {r.family} ELSE {}),
                   repeats           |-> t.repeats + Count(again),
                   redundant         |-> t.redundant + Count(again /\ ~reuses),
                   tasks_injected    |-> t.tasks_injected + Count(given),
                   injected          |-> t.injected + Cardinality(r.keys),
                   injected_relevant |-> t.injected_relevant + Count(reuses),
                   tasks_relevant    |-> t.tasks_relevant + Count(reuses),
                   relevant_success  |-> t.relevant_success + Count(reuses /\ r.success),
                   successes         |-> t.successes + Count(r.success)]
    BY DEF Add
<1> HIDE DEF reuses, again, given
<1>8. /\ Count(given) \in Nat /\ Count(again) \in Nat /\ Count(again /\ ~reuses) \in Nat /\ Count(reuses) \in Nat
      /\ Count(reuses /\ r.success) \in Nat /\ Count(r.success) \in Nat
    BY DEF Count
<1> QED BY <1>1, <1>4, <1>7, <1>8 DEF Counters

\* compute_metrics runs through the rows in order.
LEMMA MetricsRun ==
    ASSUME NEW rows \in Seq(Outcome), \A i \in 1..Len(rows) : IsFiniteSet(rows[i].keys)
    PROVE  \E g \in [0..Len(rows) -> Counters] :
               /\ g[0] = NoTallies /\ g[Len(rows)] = compute_metrics(rows)
               /\ \A k \in 1..Len(rows) : g[k] = Add(g[k - 1], rows[k])
<1> DEFINE n == Len(rows)
           D == DOMAIN rows
           Rec(h) == h = [t \in SUBSET D |-> IF t = {} THEN NoTallies
                                             ELSE Add(h[t \ {Max(t)}], rows[Max(t)])]
           it == CHOOSE h : Rec(h)
           G == [x \in (1..n) \X Counters |-> Add(x[2], rows[x[1]])]
<1>1. compute_metrics(rows) = it[D]
    BY Zenon DEF compute_metrics, FoldLeft, MapThenFoldSet
<1>2. D = 1..n /\ n \in Nat /\ \A i \in 1..n : rows[i] \in Outcome
    OBVIOUS
<1>3. NoTallies \in Counters
    BY DEF NoTallies, Counters
<1>4. \A i \in 1..n, v \in Counters : G[<<i, v>>] = Add(v, rows[i])
    OBVIOUS
<1>5. Closed(G, n, Counters)
    BY <1>2, <1>4, AddTyped DEF Closed
<1> HIDE DEF n, G
<1>6. PICK h \in [SUBSET (1..n) -> Counters] : Folds(h, G, NoTallies, n)
    BY <1>2, <1>3, <1>5, FoldExists
<1>7. Rec(h)
    <2>1. \A t \in SUBSET (1..n) : h[t] = IF t = {} THEN NoTallies
                                          ELSE Add(h[t \ {Max(t)}], rows[Max(t)])
        <3> SUFFICES ASSUME NEW t \in SUBSET (1..n), t # {}
                     PROVE  h[t] = Add(h[t \ {Max(t)}], rows[Max(t)])
            BY <1>6 DEF Folds
        <3>1. h[t] = G[<<Max(t), h[Rest(t)]>>]
            BY <1>6 DEF Folds
        <3>2. Max(t) \in 1..n /\ h[Rest(t)] \in Counters
            BY <1>2, MaxIn, RestSmaller
        <3> QED BY <1>4, <3>1, <3>2 DEF Rest
    <2> QED BY <1>2, <2>1
<1>8. Rec(it)
    BY <1>7, Zenon
<1> HIDE DEF it
<1>9. Follows(it, G, NoTallies, n, Counters)
    <2>1. \A t \in SUBSET (1..n) : it[t] = IF t = {} THEN NoTallies
                                           ELSE Add(it[t \ {Max(t)}], rows[Max(t)])
        BY <1>2, <1>8
    <2>2. ASSUME NEW t \in SUBSET (1..n), t # {}, it[Rest(t)] \in Counters
          PROVE  it[t] = G[<<Max(t), it[Rest(t)]>>]
        <3>1. Max(t) \in 1..n
            BY <1>2, <2>2, MaxIn
        <3>2. it[t] = Add(it[Rest(t)], rows[Max(t)])
            BY <2>1, <2>2 DEF Rest
        <3> QED BY <1>4, <2>2, <3>1, <3>2
    <2> QED BY <2>1, <2>2 DEF Follows
<1>10. PICK g \in [0..n -> Counters] : Runs(g, G, NoTallies, n, it[1..n])
    BY <1>2, <1>3, <1>5, <1>9, FoldRuns
<1>11. \A k \in 1..n : g[k] = Add(g[k - 1], rows[k])
    <2> SUFFICES ASSUME NEW k \in 1..n PROVE g[k] = Add(g[k - 1], rows[k])
        OBVIOUS
    <2>1. g[k - 1] \in Counters
        BY <1>2
    <2> QED BY <1>4, <1>10, <2>1 DEF Runs
<1> QED BY <1>1, <1>2, <1>10, <1>11 DEF n, Runs

-----------------------------------------------------------------------------
(* The inductive invariant.                                                *)

\* What an agent has in its prompt and of its own: memories in the table, one of
\* a family and none for the baseline; and, once it has stored, the memory that
\* says what it answered.
Asked(a) ==
    LET got == task[a].got
        own == task[a].own
    IN  /\ got \subseteq AllStored
        /\ \A m, n \in got : payload[m].family = payload[n].family => m = n
        /\ setting.memory \/ got = {}
        /\ pc[a] \notin {"reporting", "done"} => own = Null
        /\ pc[a] \in {"reporting", "done"} =>
               own \in Memories \ got /\ payload[own] # Null /\ payload[own] = Submission(a)

\* The harness runs its agents in one thread.
Alone == setting.harness => \A a, b \in Agents : pc[a] # "idle" /\ pc[b] # "idle" => a = b

Staffed == Earnest /\ Alone /\ \A a \in Agents : Asked(a)

\* The memories whose task has returned; those of them that are false positives.
Settled     == {m \in Memories : payload[m] # Null /\ \A a \in Agents : task[a].own # m}
Misbelieved == {m \in Settled : payload[m].success /\ payload[m].missing > 0}

\* What a row says of the memories the agent was given is so.
RowTrue(r) ==
    /\ r.got \subseteq Submitted /\ IsFiniteSet(r.got) /\ (setting.memory \/ r.got = {})
    /\ r.keys = {payload[m].family : m \in r.got}
    /\ IsFiniteSet(r.keys) /\ Cardinality(r.keys) = Cardinality(r.got)
    /\ r.relevant = Cardinality({m \in r.got : payload[m].family = r.family})
    /\ r.poisoned = Cardinality({m \in r.got : payload[m].family = r.family
                                               /\ payload[m].missing > 0})
    /\ r.relevant = Count(r.family \in r.keys)

\* So is what the harness remembers of a memory, once its task has returned.
Remembered ==
    setting.harness => \A m \in Settled : memory_correct[m] = (payload[m].missing = 0)

\* Without liars every row is honest, and each one that was believed a success
\* and is none has left its memory.
Wrong == {i \in 1..Len(outcomes) : outcomes[i].self_check /\ ~outcomes[i].success}

EachLeftOne ==
    setting.harness /\ setting.liars = {} =>
        /\ \A i \in 1..Len(outcomes) : outcomes[i].honest
        /\ IsFiniteSet(Misbelieved) /\ Cardinality(Wrong) = Cardinality(Misbelieved)

Booked ==
    /\ outcomes \in Seq(Outcome)
    /\ memory_correct \in [Memories -> BOOLEAN \cup {Null}]
    /\ ~setting.harness => outcomes = <<>>
    /\ \A i \in 1..Len(outcomes) : RowTrue(outcomes[i])
    /\ Remembered /\ EachLeftOne

-----------------------------------------------------------------------------
(* The agents, step by step.                                               *)

Phase == {"idle", "noting", "solving", "storing", "reporting", "done"}

\* What is stored stays.
StillStored == AllStored \subseteq AllStored'

LEMMA EarnestHas ==
    ASSUME Earnest
    PROVE  /\ IInv /\ Typed /\ Tabled /\ AllStored \subseteq Submitted
           /\ task \in [Agents -> Task] /\ pc \in [Agents -> Phase]
           /\ payload \in [Memories -> Payload \cup {Null}] /\ setting \in Setting
           /\ setting.agents \subseteq Agents
BY DEF Earnest, Vouched, Traced, IInv, Typed, Phase, StoredIsSubmitted, AllStored, Stored,
       Submitted, Setting

LEMMA GrowingStill ==
    ASSUME Earnest, [Next]_vars
    PROVE  Growing /\ StillStored /\ Earnest'
<1>1. Growing /\ Earnest'
    BY EarnestHas, NextGrows, EarnestStep
<1>2. RowsMove /\ EvidenceMoves
    BY NextMoves DEF Earnest, Vouched
<1>3. StillStored
    BY <1>2, EarnestHas, RowsLast DEF StillStored, AllStored
<1> QED BY <1>1, <1>3

\* Nothing changes for an agent that makes no step.
LEMMA AskedLasts ==
    ASSUME Earnest, Growing, StillStored, NEW a \in Agents, Asked(a),
           task'[a] = task[a], pc'[a] = pc[a]
    PROVE  Asked(a)'
<1>1. \A m \in task[a].got : payload'[m] = payload[m]
    BY EarnestHas DEF Asked, Growing, Kept, AllStored, Submitted
<1>2. setting' = setting
    BY DEF Growing
<1>3. pc[a] \in {"reporting", "done"} =>
          LET own == task[a].own
          IN  /\ own \in Memories \ task[a].got
              /\ payload'[own] # Null /\ payload'[own] = Submission(a)'
    BY <1>2 DEF Asked, Growing, Kept, Submission
<1> QED BY <1>1, <1>2, <1>3 DEF Asked, StillStored

\* A task begins with what is stored, a memory to a family.
LEMMA BeginAsks ==
    ASSUME Earnest, Growing, StillStored, NEW a \in Agents, Asked(a),
           NEW f, Begin(a, f)
    PROVE  Asked(a)' /\ OnlyBy(a)
<1>1. PICK picked \in Picks(a) :
          /\ task' = [task EXCEPT ![a] = NewTask(f, picked)]
          /\ Step(a, IF picked = {} THEN "solving" ELSE "noting")
    BY DEF Begin
<1>2. task'[a].got = picked /\ task'[a].own = Null /\ pc'[a] \in {"noting", "solving"}
    BY <1>1, EarnestHas DEF Step, NewTask
<1>3. OnlyBy(a)
    BY <1>1, EarnestHas DEF Step, OnlyBy
<1>4. /\ picked \subseteq AllStored /\ (setting.memory \/ picked = {})
      /\ \A m, n \in picked : payload[m].family = payload[n].family => m = n
    BY DEF Picks, Retrievable, AllStored
<1>5. payload' = payload /\ setting' = setting
    BY DEF Begin
<1> QED BY <1>2, <1>3, <1>4, <1>5 DEF Asked, StillStored

\* Up to its store the agent keeps its prompt, or loses it.
LEMMA PromptAsks ==
    ASSUME Earnest, Growing, StillStored, NEW a \in Agents, Asked(a),
           \/ RecordInjections(a) \/ ContextFails(a) \/ Solve(a)
           \/ Abort(a) \/ PublishUnanswered(a) \/ Return(a)
    PROVE  Asked(a)' /\ OnlyBy(a)
<1>1. \A m \in task[a].got : payload'[m] = payload[m]
    BY EarnestHas DEF Asked, Growing, Kept, AllStored, Submitted
<1>2. /\ OnlyBy(a) /\ pc'[a] \in {"idle", "solving", "storing"}
      /\ task'[a].got = task[a].got \/ task'[a].got = {}
      /\ task'[a].own = task[a].own \/ task'[a].own = Null
    <2>1. CASE RecordInjections(a)
        BY <2>1, EarnestHas DEF RecordInjections, Step, OnlyBy
    <2>2. CASE ContextFails(a)
        BY <2>2, EarnestHas DEF ContextFails, Step, OnlyBy, Task
    <2>3. CASE Solve(a)
        BY <2>3, EarnestHas DEF Solve, Step, OnlyBy, Task
    <2>4. CASE Abort(a) \/ PublishUnanswered(a) \/ Return(a)
        BY <2>4, EarnestHas DEF Abort, PublishUnanswered, Return, Step, OnlyBy, NoTask, NewTask
    <2> QED BY <2>1, <2>2, <2>3, <2>4
<1>3. task'[a].own = Null
    <2>1. pc[a] # "reporting"
        BY DEF RecordInjections, ContextFails, Solve, Abort, PublishUnanswered, Return
    <2>2. CASE Return(a)
        BY <2>2, EarnestHas DEF Return, NoTask, NewTask
    <2>3. CASE ~Return(a)
        <3>1. pc[a] \notin {"reporting", "done"}
            BY <2>3 DEF RecordInjections, ContextFails, Solve, Abort, PublishUnanswered
        <3> QED BY <1>2, <3>1 DEF Asked
    <2> QED BY <2>2, <2>3
<1>4. setting' = setting
    BY DEF Growing
<1>5. /\ task'[a].got \subseteq AllStored' /\ (setting'.memory \/ task'[a].got = {})
      /\ \A m, n \in task'[a].got : payload'[m].family = payload'[n].family => m = n
    BY <1>1, <1>2, <1>4 DEF Asked, StillStored
<1>6. pc'[a] \notin {"reporting", "done"}
    BY <1>2
<1> QED BY <1>2, <1>3, <1>5, <1>6 DEF Asked

\* The store makes a memory of the answer.
LEMMA StoreAsks ==
    ASSUME Earnest, Growing, StillStored, NEW a \in Agents, Asked(a),
           Publish(a) \/ StoreInProcess(a)
    PROVE  Asked(a)' /\ OnlyBy(a) /\ task'[a].own = Fresh
<1>1. /\ pc[a] = "storing" /\ Submitted # Memories /\ StoredAs(a, Fresh)
      /\ payload' = [payload EXCEPT ![Fresh] = Submission(a)]
    BY DEF Publish, StoreInProcess
<1>2. Fresh \in Memories /\ payload[Fresh] = Null
    BY <1>1, FreshIsFree
<1>3. /\ OnlyBy(a) /\ task'[a].own = Fresh /\ task'[a].got = task[a].got
      /\ task'[a].family = task[a].family /\ task'[a].missing = task[a].missing
      /\ pc'[a] \in {"reporting", "done"}
    BY <1>1, EarnestHas DEF StoredAs, Step, OnlyBy, Task
<1>4. setting' = setting
    BY DEF Growing
<1>5. Submission(a)' = Submission(a) /\ Submission(a) # Null
    <2>1. Submission(a) # Null
        BY <1>1, EarnestHas, SubmissionTyped
    <2> QED BY <1>3, <1>4, <2>1 DEF Submission
<1>6. payload'[Fresh] = Submission(a)
    BY <1>1, <1>2, EarnestHas
<1>7. Fresh \notin task[a].got
    BY <1>2, EarnestHas DEF Asked, Submitted
<1>8. \A m \in task[a].got : payload'[m] = payload[m]
    BY EarnestHas DEF Asked, Growing, Kept, AllStored, Submitted
<1> QED BY <1>2, <1>3, <1>4, <1>5, <1>6, <1>7, <1>8 DEF Asked, StillStored

\* The reports change neither.
LEMMA ReportAsks ==
    ASSUME Earnest, Growing, StillStored, NEW a \in Agents, Asked(a),
           \/ SelfReport(a) \/ SelfReportFails(a)
           \/ \E m \in task[a].todo : ReportReuse(a, m) \/ ReportFails(a, m)
    PROVE  Asked(a)' /\ OnlyBy(a) /\ task'[a].own = task[a].own
<1>1. /\ OnlyBy(a) /\ pc[a] = "reporting" /\ pc'[a] \in {"reporting", "done"}
      /\ task'[a].own = task[a].own /\ task'[a].got = task[a].got
      /\ task'[a].family = task[a].family /\ task'[a].missing = task[a].missing
    <2>1. CASE SelfReport(a) \/ SelfReportFails(a)
        BY <2>1, EarnestHas DEF SelfReport, SelfReportFails, Step, OnlyBy
    <2>2. ASSUME NEW m \in task[a].todo, ReportReuse(a, m) \/ ReportFails(a, m)
          PROVE  /\ OnlyBy(a) /\ pc[a] = "reporting" /\ pc'[a] = pc[a]
                 /\ task'[a].own = task[a].own /\ task'[a].got = task[a].got
                 /\ task'[a].family = task[a].family /\ task'[a].missing = task[a].missing
        BY <2>2, EarnestHas DEF ReportReuse, ReportFails, OnlyBy, Task
    <2> QED BY <2>1, <2>2
<1>2. setting' = setting /\ Submission(a)' = Submission(a)
    BY <1>1 DEF Growing, Submission
<1>3. \A m \in task[a].got : payload'[m] = payload[m]
    BY EarnestHas DEF Asked, Growing, Kept, AllStored, Submitted
<1>4. payload'[task[a].own] = payload[task[a].own]
    BY <1>1 DEF Asked, Growing, Kept
<1> QED BY <1>1, <1>2, <1>3, <1>4 DEF Asked, StillStored

LEMMA NextStaffed == Staffed /\ [Next]_vars => Staffed'
<1> SUFFICES ASSUME Staffed, [Next]_vars PROVE Staffed'
    OBVIOUS
<1>1. Earnest /\ Growing /\ StillStored /\ Earnest'
    BY GrowingStill DEF Staffed
<1>2. CASE Background \/ UNCHANGED vars
    <2>1. UNCHANGED <<setting, pc, task>>
        BY <1>2 DEF Background, Enrich, Insert, Arrive, vars, agents
    <2> QED BY <1>1, <2>1, AskedLasts DEF Staffed, Alone
<1>3. ASSUME NEW a \in setting.agents, RunTask(a) \/ Return(a)
      PROVE  Staffed'
    <2>1. a \in Agents /\ Asked(a) /\ setting' = setting
        BY <1>1, EarnestHas DEF Staffed, Growing
    <2>2. Asked(a)' /\ OnlyBy(a)
        BY <1>1, <1>3, <2>1, BeginAsks, PromptAsks, StoreAsks, ReportAsks DEF RunTask
    <2>3. \A b \in Agents : Asked(b)'
        BY <1>1, <2>2, AskedLasts DEF Staffed, OnlyBy
    <2>4. pc[a] # "idle" \/ (setting.harness => \A b \in Agents : pc[b] = "idle")
        BY <1>3 DEF RunTask, Begin, RecordInjections, ContextFails, Solve, Abort, Publish,
            PublishUnanswered, StoreInProcess, SelfReport, SelfReportFails, ReportReuse,
            ReportFails, Return
    <2>5. Alone'
        BY <2>1, <2>2, <2>4 DEF Staffed, Alone, OnlyBy
    <2> QED BY <1>1, <2>3, <2>5 DEF Staffed
<1> QED BY <1>2, <1>3 DEF Next

LEMMA InitStaffed == Init => Staffed
<1> SUFFICES ASSUME Init PROVE Staffed
    OBVIOUS
<1>1. \A a \in Agents : Asked(a)
    BY DEF Init, Asked, NoTask, NewTask
<1> QED BY <1>1, InitEarnest DEF Init, Staffed, Alone

-----------------------------------------------------------------------------
(* The books, step by step.                                                *)

\* Under the harness a memory is settled when its task returns, not before.
LEMMA SettledStays ==
    ASSUME Staffed, Growing, setting.harness,
           \/ Background \/ UNCHANGED vars
           \/ \E a \in setting.agents : RunTask(a)
    PROVE  Settled' = Settled
<1>1. Earnest
    BY DEF Staffed
<1>2. ASSUME payload' = payload, \A a \in Agents : task'[a].own = task[a].own
      PROVE  Settled' = Settled
    BY <1>2 DEF Settled
<1>3. CASE Background \/ UNCHANGED vars
    <2>1. UNCHANGED <<payload, task>>
        BY <1>3 DEF Background, Enrich, Insert, Arrive, vars, agents
    <2> QED BY <1>2, <2>1
<1>4. ASSUME NEW a \in setting.agents, RunTask(a)
      PROVE  Settled' = Settled
    <2>1. a \in Agents /\ Asked(a) /\ StillStored
        <3>1. [Next]_vars
            BY <1>4 DEF Next
        <3> QED BY <1>1, <3>1, EarnestHas, GrowingStill DEF Staffed
    <2>2. ~(Abort(a) \/ Publish(a) \/ PublishUnanswered(a) \/ ContextFails(a))
        BY DEF Abort, Publish, PublishUnanswered, ContextFails, GoesWrong
    <2>3. CASE StoreInProcess(a)
        <3>1. OnlyBy(a) /\ task'[a].own = Fresh
            BY <1>1, <2>1, <2>3, StoreAsks
        <3>2. /\ Fresh \in Memories /\ payload[Fresh] = Null /\ task[a].own = Null
              /\ payload' = [payload EXCEPT ![Fresh] = Submission(a)]
            BY <2>1, <2>3, FreshIsFree DEF StoreInProcess, Asked
        <3>3. \A m \in Memories : m # Fresh => payload'[m] = payload[m]
            BY <1>1, <3>2, EarnestHas
        <3>4. \A m \in Memories : m # Null
            BY FleetAssumption
        <3>5. ASSUME NEW m \in Memories PROVE m \in Settled' <=> m \in Settled
            <4>1. CASE m = Fresh
                BY <2>1, <3>1, <3>2, <4>1 DEF Settled
            <4>2. CASE m # Fresh
                <5>1. \A b \in Agents : task'[b].own # m <=> task[b].own # m
                    BY <3>1, <3>2, <3>4, <4>2 DEF OnlyBy
                <5> QED BY <3>3, <4>2, <5>1 DEF Settled
            <4> QED BY <4>1, <4>2
        <3> QED BY <3>5 DEF Settled
    <2>4. CASE \E f \in setting.families : Begin(a, f)
        <3>1. PICK f : Begin(a, f)
            BY <2>4
        <3>2. pc[a] = "idle" /\ payload' = payload /\ task'[a].own = Null
            BY <1>1, <2>1, <3>1, EarnestHas DEF Begin, NewTask
        <3>3. OnlyBy(a)
            BY <1>1, <2>1, <3>1, BeginAsks
        <3> QED BY <1>2, <2>1, <3>2, <3>3 DEF Asked, OnlyBy
    <2>5. CASE RecordInjections(a) \/ Solve(a)
        <3>1. payload' = payload /\ OnlyBy(a) /\ task'[a].own = task[a].own
            BY <1>1, <2>1, <2>5, EarnestHas, PromptAsks DEF RecordInjections, Solve, Task
        <3> QED BY <1>2, <3>1 DEF OnlyBy
    <2>6. CASE \/ SelfReport(a) \/ SelfReportFails(a)
               \/ \E m \in task[a].todo : ReportReuse(a, m) \/ ReportFails(a, m)
        <3>1. OnlyBy(a) /\ task'[a].own = task[a].own
            BY <1>1, <2>1, <2>6, ReportAsks
        <3>2. payload' = payload
            BY <2>6 DEF SelfReport, SelfReportFails, ReportReuse, ReportFails
        <3> QED BY <1>2, <3>1, <3>2 DEF OnlyBy
    <2> QED BY <1>4, <2>2, <2>3, <2>4, <2>5, <2>6 DEF RunTask
<1> QED BY <1>3, <1>4

LEMMA SettledGrows ==
    ASSUME Staffed, setting.harness, NEW a \in Agents, Return(a)
    PROVE  /\ payload' = payload /\ setting' = setting
           /\ task[a].own \in Memories \ Settled /\ Settled' = Settled \cup {task[a].own}
<1>1. Earnest /\ Asked(a) /\ pc[a] = "done"
    BY DEF Staffed, Return
<1>2. /\ task[a].own \in Memories /\ payload[task[a].own] # Null
      /\ payload' = payload /\ setting' = setting
    BY <1>1 DEF Asked, Return
<1>3. \A b \in Agents : task'[b].own = Null
    <2>1. \A b \in Agents \ {a} : pc[b] = "idle" /\ Asked(b)
        BY <1>1 DEF Staffed, Alone
    <2>2. \A b \in Agents \ {a} : task'[b] = task[b] /\ task[b].own = Null
        BY <1>1, <2>1, EarnestHas DEF Return, Asked
    <2>3. task'[a].own = Null
        BY <1>1, EarnestHas DEF Return, NoTask, NewTask
    <2> QED BY <2>2, <2>3
<1>4. \A b \in Agents \ {a} : task[b].own = Null
    BY <1>1 DEF Staffed, Alone, Asked
<1>5. \A m \in Memories : m # Null
    BY FleetAssumption
<1> QED BY <1>2, <1>3, <1>4, <1>5 DEF Settled

\* What the harness enters in its books is so.
LEMMA OutcomeTrue ==
    ASSUME Staffed, Booked, setting.harness, NEW a \in Agents, pc[a] = "done"
    PROVE  OutcomeOf(a) \in Outcome /\ RowTrue(OutcomeOf(a))
<1> DEFINE f   == task[a].family
           got == task[a].got
           rel == {m \in got : payload[m].family = f}
<1>1. /\ Earnest /\ Asked(a) /\ f \in Families /\ task[a].missing \in 0..2
      /\ got \in SUBSET Memories
    <2>1. Earnest /\ Asked(a) /\ task[a] \in Task /\ AtWork(a)
        BY EarnestHas DEF Staffed, IInv
    <2> QED BY <2>1 DEF AtWork, Task
<1>2. got \subseteq Submitted /\ \A m \in got : payload[m] \in Payload
    BY <1>1, EarnestHas DEF Asked, Submitted
<1>3. IsFiniteSet(got)
    <2>1. IsFiniteSet(AllStored)
        BY <1>1, StoredFinite DEF Earnest, Vouched, Traced
    <2> QED BY <1>1, <2>1, FS_Subset DEF Asked
<1> DEFINE keys == {payload[m].family : m \in got}
<1>4. /\ IsFiniteSet(keys) /\ Cardinality(keys) = Cardinality(got)
      /\ keys \in SUBSET Families /\ (setting.memory \/ got = {})
    <2>1. IsFiniteSet(keys) /\ Cardinality(keys) = Cardinality(got)
        <3> DEFINE familyOf == [m \in got |-> payload[m].family]
        <3>1. familyOf \in Surjection(got, keys)
            BY DEF Surjection
        <3>2. familyOf \in Injection(got, keys)
            BY <1>1 DEF Asked, Injection, IsInjective
        <3> QED BY <1>3, <3>1, <3>2, FS_Surjection
    <2>2. keys \in SUBSET Families
        BY <1>2 DEF Payload
    <2>3. setting.memory \/ got = {}
        BY <1>1 DEF Asked
    <2> QED BY <2>1, <2>2, <2>3
<1>5. Cardinality(rel) = Count(f \in keys)
    <2>1. CASE f \in keys
        <3>1. PICK m \in got : payload[m].family = f
            BY <2>1
        <3>2. rel = {m}
            BY <1>1, <3>1 DEF Asked
        <3> QED BY <2>1, <3>2, FS_Singleton DEF Count
    <2>2. CASE f \notin keys
        <3>1. rel = {}
            BY <2>2
        <3> QED BY <2>2, <3>1, FS_EmptySet DEF Count
    <2> QED BY <2>1, <2>2
<1>6. \A m \in got : ~BelievedCorrect(m) <=> payload[m].missing > 0
    <2>1. \A b \in Agents \ {a} : task[b].own = Null
        BY <1>1 DEF Staffed, Alone, Asked
    <2>2. \A m \in Memories : m # Null
        BY FleetAssumption
    <2>3. \A m \in got : m \in Settled
        BY <1>1, <1>2, <2>1, <2>2 DEF Asked, Settled, Submitted
    <2>4. \A m \in got : memory_correct[m] = (payload[m].missing = 0)
        BY <2>3 DEF Booked, Remembered
    <2>5. \A m \in got : payload[m].missing > 0 <=> ~(payload[m].missing = 0)
        BY <1>2 DEF Payload
    <2>6. \A m \in got : ~BelievedCorrect(m) <=> ~(payload[m].missing = 0)
        BY <2>4, Zenon DEF BelievedCorrect
    <2> QED BY <2>5, <2>6
<1> DEFINE bad == {m \in rel : ~BelievedCorrect(m)}
<1>7. bad = {m \in got : payload[m].family = f /\ payload[m].missing > 0}
    BY <1>6
<1>8. Cardinality(rel) \in Nat /\ Cardinality(bad) \in Nat
    <2>1. rel \subseteq got /\ bad \subseteq got
        OBVIOUS
    <2> QED BY <1>3, <2>1, FS_Subset, FS_CardinalityType
<1>9. (a \notin setting.liars) \in BOOLEAN /\ Strict(task[a].missing) \in BOOLEAN
      /\ Lenient(task[a].missing) \in BOOLEAN
    BY DEF Strict, Lenient
<1>10. OutcomeOf(a) = [family |-> f, honest |-> a \notin setting.liars,
                       success |-> Strict(task[a].missing),
                       self_check |-> Lenient(task[a].missing), keys |-> keys,
                       relevant |-> Cardinality(rel), poisoned |-> Cardinality(bad),
                       got |-> got]
    BY DEF OutcomeOf
<1>11. OutcomeOf(a) \in Outcome
    <2> HIDE DEF f, got, rel, keys, bad
    <2> QED BY <1>1, <1>4, <1>8, <1>9, <1>10 DEF Outcome
<1>12. RowTrue(OutcomeOf(a))
    <2>1. OutcomeOf(a).got = got /\ OutcomeOf(a).keys = keys /\ OutcomeOf(a).family = f
          /\ OutcomeOf(a).relevant = Cardinality(rel) /\ OutcomeOf(a).poisoned = Cardinality(bad)
          /\ OutcomeOf(a).keys = {payload[m].family : m \in OutcomeOf(a).got}
        BY <1>10
    <2> QED BY <1>2, <1>3, <1>4, <1>5, <1>7, <2>1 DEF RowTrue
<1> QED BY <1>11, <1>12

\* What a row says stays so.
LEMMA RowsStayTrue ==
    ASSUME Growing, NEW r, RowTrue(r)
    PROVE  RowTrue(r)'
<1>1. \A m \in r.got : m \in Memories /\ payload[m] # Null /\ payload'[m] = payload[m]
    BY DEF RowTrue, Submitted, Growing, Kept
<1>2. {m \in r.got : payload'[m].family = r.family} = {m \in r.got : payload[m].family = r.family}
    BY <1>1
<1>3. {m \in r.got : payload'[m].family = r.family /\ payload'[m].missing > 0}
        = {m \in r.got : payload[m].family = r.family /\ payload[m].missing > 0}
    BY <1>1
<1>4. r.got \subseteq Submitted' /\ setting' = setting
    BY <1>1 DEF Submitted, Growing
<1>5. {payload'[m].family : m \in r.got} = {payload[m].family : m \in r.got}
    BY <1>1
<1> QED BY <1>2, <1>3, <1>4, <1>5 DEF RowTrue

\* Where nothing is booked, the books stay right.
LEMMA UnbookedKeeps ==
    ASSUME Staffed, Booked, Growing, UNCHANGED books,
           setting.harness => Settled' = Settled
    PROVE  Booked'
<1>1. setting' = setting /\ outcomes' = outcomes /\ memory_correct' = memory_correct
    BY DEF Growing, books
<1>2. \A m \in Settled : payload'[m] = payload[m]
    BY DEF Settled, Growing, Kept
<1>3. Remembered'
    BY <1>1, <1>2 DEF Booked, Remembered
<1>4. EachLeftOne'
    <2>1. setting.harness => Misbelieved' = Misbelieved
        BY <1>2 DEF Misbelieved
    <2>2. Wrong' = Wrong
        BY <1>1 DEF Wrong
    <2> QED BY <1>1, <2>1, <2>2 DEF Booked, EachLeftOne
<1>5. ASSUME NEW i \in 1..Len(outcomes) PROVE RowTrue(outcomes[i])'
    <2>1. PICK r : r = outcomes[i]
        OBVIOUS
    <2>2. RowTrue(r)'
        BY <2>1, RowsStayTrue DEF Booked
    <2> QED BY <1>1, <2>1, <2>2 DEF RowTrue
<1> QED BY <1>1, <1>3, <1>4, <1>5 DEF Booked

\* The row a returns with, and the memory it leaves behind.
LEMMA TallyKeeps ==
    ASSUME Staffed, Booked, Growing, NEW a \in setting.agents, Tally(a)
    PROVE  Booked'
<1>1. /\ Return(a) /\ pc[a] = "done" /\ a \in Agents /\ Earnest /\ Asked(a)
      /\ payload' = payload /\ setting' = setting
    BY EarnestHas DEF Tally, Return, Staffed
<1>2. CASE ~setting.harness
    BY <1>1, <1>2, UnbookedKeeps DEF Tally
<1>3. CASE setting.harness
    <2> DEFINE n   == Len(outcomes)
               r   == OutcomeOf(a)
               own == task[a].own
    <2>1. r \in Outcome /\ RowTrue(r)
        BY <1>1, <1>3, OutcomeTrue
    <2>2. /\ outcomes \in Seq(Outcome) /\ outcomes' = Append(outcomes, r)
          /\ memory_correct' = [memory_correct EXCEPT ![own] =
                                   a \notin setting.liars /\ Strict(task[a].missing)]
        BY <1>3 DEF Tally, Booked
    <2>3. /\ r.honest = (a \notin setting.liars) /\ r.success = Strict(task[a].missing)
          /\ r.self_check = Lenient(task[a].missing)
        BY DEF OutcomeOf
    <2>4. /\ own \in Memories \ Settled /\ Settled' = Settled \cup {own}
        BY <1>1, <1>3, SettledGrows
    <2>5. payload[own] = Submission(a) /\ task[a].missing \in 0..2
        BY <1>1, EarnestHas DEF Asked, Task
    <2> HIDE DEF r
    <2>6. /\ n \in Nat /\ outcomes' \in Seq(Outcome) /\ Len(outcomes') = n + 1
          /\ outcomes'[n + 1] = r /\ \A i \in 1..n : outcomes'[i] = outcomes[i]
        BY <2>1, <2>2
    <2>7. memory_correct' \in [Memories -> BOOLEAN \cup {Null}]
        <3>1. (a \notin setting.liars /\ Strict(task[a].missing)) \in BOOLEAN
            BY DEF Strict
        <3> QED BY <2>2, <3>1 DEF Booked
    <2>8. ASSUME NEW i \in 1..Len(outcomes') PROVE RowTrue(outcomes[i])'
        <3>1. PICK q : q = outcomes'[i]
            OBVIOUS
        <3>2. RowTrue(q)
            BY <2>1, <2>6, <3>1 DEF Booked
        <3>3. RowTrue(q)'
            BY <3>2, RowsStayTrue
        <3> QED BY <3>1, <3>3 DEF RowTrue
    <2>9. Remembered'
        <3>1. memory_correct'[own] = (a \notin setting.liars /\ Strict(task[a].missing))
            BY <2>2, <2>4, Zenon DEF Booked
        <3>2. payload[own].missing = 0 <=> a \notin setting.liars /\ Strict(task[a].missing)
            BY <2>5 DEF Submission, Strict
        <3>3. memory_correct'[own] = (payload[own].missing = 0)
            BY <3>1, <3>2, Zenon
        <3>4. \A m \in Settled : memory_correct'[m] = memory_correct[m]
            BY <2>2, <2>4 DEF Booked, Settled
        <3>5. \A m \in Settled : memory_correct[m] = (payload[m].missing = 0)
            BY <1>3 DEF Booked, Remembered
        <3>6. ASSUME NEW m \in Settled' PROVE memory_correct'[m] = (payload[m].missing = 0)
            <4>1. CASE m = own
                BY <3>3, <4>1, Zenon
            <4>2. CASE m \in Settled
                BY <3>4, <3>5, <4>2, Zenon
            <4> QED BY <2>4, <4>1, <4>2
        <3> QED BY <1>1, <3>6, Zenon DEF Remembered
    <2>10. EachLeftOne'
        <3> SUFFICES ASSUME setting.liars = {}
                     PROVE  /\ \A i \in 1..Len(outcomes') : outcomes'[i].honest
                            /\ IsFiniteSet(Misbelieved') /\ Cardinality(Wrong') = Cardinality(Misbelieved')
            BY <1>1 DEF EachLeftOne
        <3>1. /\ \A i \in 1..n : outcomes[i].honest
              /\ IsFiniteSet(Misbelieved) /\ Cardinality(Wrong) = Cardinality(Misbelieved)
            BY <1>3 DEF Booked, EachLeftOne
        <3>2. IsFiniteSet(Wrong) /\ n + 1 \notin Wrong /\ own \notin Misbelieved
            <4>1. Wrong \subseteq 1..n /\ IsFiniteSet(1..n)
                BY <2>6, FS_Interval DEF Wrong
            <4>2. n + 1 \notin 1..n
                BY <2>6
            <4> QED BY <2>4, <4>1, <4>2, FS_Subset DEF Misbelieved
        <3>3. payload[own].success /\ payload[own].missing > 0 <=> r.self_check /\ ~r.success
            <4>1. /\ payload[own].success = (a \in setting.liars \/ Lenient(task[a].missing))
                  /\ payload[own].missing = task[a].missing
                BY <2>5 DEF Submission
            <4>2. payload[own].success <=> Lenient(task[a].missing)
                BY <4>1, Zenon
            <4>3. payload[own].missing > 0 <=> ~Strict(task[a].missing)
                BY <2>5, <4>1 DEF Strict
            <4> QED BY <2>3, <4>2, <4>3
        <3>4. \A i \in 1..n + 1 : outcomes'[i].honest
            <4>1. r.honest
                BY <2>3, Zenon
            <4> QED BY <2>6, <3>1, <4>1
        <3>5. CASE r.self_check /\ ~r.success
            <4>1. Wrong' = Wrong \cup {n + 1}
                BY <2>6, <3>5 DEF Wrong
            <4>2. Misbelieved' = Misbelieved \cup {own}
                BY <1>1, <2>4, <3>3, <3>5 DEF Misbelieved
            <4>3. /\ IsFiniteSet(Misbelieved') /\ Cardinality(Misbelieved') = Cardinality(Misbelieved) + 1
                  /\ Cardinality(Wrong') = Cardinality(Wrong) + 1
                BY <3>1, <3>2, <4>1, <4>2, FS_AddElement
            <4> QED BY <2>6, <3>1, <3>4, <4>3
        <3>6. CASE ~(r.self_check /\ ~r.success)
            <4>1. Wrong' = Wrong
                BY <2>6, <3>6 DEF Wrong
            <4>2. Misbelieved' = Misbelieved
                BY <1>1, <2>4, <3>3, <3>6 DEF Misbelieved
            <4> QED BY <2>6, <3>1, <3>4, <4>1, <4>2
        <3> QED BY <3>5, <3>6
    <2> QED BY <1>1, <1>3, <2>6, <2>7, <2>8, <2>9, <2>10 DEF Booked
<1> QED BY <1>2, <1>3

\* The experiment is a fleet at work.
LEMMA StepsAreFleet == [XNext]_<<vars, books>> => [Next]_vars
BY DEF XNext, Tally, Next

LEMMA NextBooked == Staffed /\ Booked /\ [XNext]_<<vars, books>> => Booked'
<1> SUFFICES ASSUME Staffed, Booked, [XNext]_<<vars, books>> PROVE Booked'
    OBVIOUS
<1>1. Growing
    BY StepsAreFleet, GrowingStill DEF Staffed
<1>2. CASE (Background \/ \E a \in setting.agents : RunTask(a)) /\ UNCHANGED books
    BY <1>1, <1>2, SettledStays, UnbookedKeeps
<1>3. CASE UNCHANGED <<vars, books>>
    BY <1>1, <1>3, SettledStays, UnbookedKeeps
<1> QED BY <1>1, <1>2, <1>3, TallyKeeps DEF XNext

LEMMA InitBooked == XInit => Booked
<1> SUFFICES ASSUME XInit PROVE Booked
    OBVIOUS
<1>1. outcomes = <<>> /\ memory_correct = [m \in Memories |-> Null]
      /\ Settled = {} /\ Misbelieved = {} /\ Wrong = {}
    BY DEF XInit, Init, Settled, Misbelieved, Wrong
<1>2. outcomes \in Seq(Outcome) /\ Len(outcomes) = 0
    BY <1>1
<1> QED BY <1>1, <1>2, FS_EmptySet DEF Booked, Remembered, EachLeftOne

\* Every step of an experiment is one of the fleet, or leaves it alone: what is
\* proved of the fleet holds of every arm.
THEOREM ExperimentIsFleet == XSpec => Spec
<1>1. XInit => Init
    BY DEF XInit
<1> QED BY <1>1, StepsAreFleet, PTL DEF XSpec, Spec

LEMMA BooksKept == XSpec => [](Staffed /\ Booked)
<1>1. XInit => Staffed /\ Booked
    BY InitStaffed, InitBooked DEF XInit
<1>2. Staffed /\ Booked /\ [XNext]_<<vars, books>> => (Staffed /\ Booked)'
    BY NextStaffed, NextBooked, StepsAreFleet
<1> QED BY <1>1, <1>2, PTL DEF XSpec

-----------------------------------------------------------------------------
(* The counters of compute_metrics.                                        *)

\* The tasks that were given a memory; one of their family; those whose family had
\* been solved before.
Given(rows)    == {i \in 1..Len(rows) : rows[i].keys # {}}
Reused(rows)   == {i \in 1..Len(rows) : rows[i].family \in rows[i].keys}
Repeated(rows) == {i \in 1..Len(rows) : \E j \in 1..(i - 1) :
                       rows[j].family = rows[i].family /\ rows[j].success}

\* Counter by counter, what the body of the loop does.
Adds(u, t, r) ==
    /\ u.solved = t.solved \cup (IF r.success THEN {r.family} ELSE {})
    /\ u.repeats = t.repeats + Count(r.family \in t.solved)
    /\ u.redundant = t.redundant + Count(r.family \in t.solved /\ ~(r.family \in r.keys))
    /\ u.tasks_injected = t.tasks_injected + Count(r.keys # {})
    /\ u.injected = t.injected + Cardinality(r.keys)
    /\ u.injected_relevant = t.injected_relevant + Count(r.family \in r.keys)
    /\ u.tasks_relevant = t.tasks_relevant + Count(r.family \in r.keys)
    /\ u.relevant_success = t.relevant_success + Count(r.family \in r.keys /\ r.success)
    /\ u.successes = t.successes + Count(r.success)

LEMMA AddAdds == ASSUME NEW t, NEW r PROVE Adds(Add(t, r), t, r)
BY DEF Add, Adds

LEMMA CountersCount ==
    ASSUME NEW rows \in Seq(Outcome),
           \A i \in 1..Len(rows) :
               /\ IsFiniteSet(rows[i].keys) /\ IsFiniteSet(rows[i].got)
               /\ Cardinality(rows[i].keys) = Cardinality(rows[i].got)
    PROVE  LET t == compute_metrics(rows)
           IN  /\ t.successes = Cardinality({i \in 1..Len(rows) : rows[i].success})
               /\ t.tasks_injected = Cardinality(Given(rows))
               /\ t.injected = Cardinality({x \in (1..Len(rows)) \X Memories :
                                               x[2] \in rows[x[1]].got})
               /\ t.tasks_relevant = Cardinality(Reused(rows))
               /\ t.injected_relevant = Cardinality(Reused(rows))
               /\ t.relevant_success = Cardinality({i \in Reused(rows) : rows[i].success})
               /\ t.repeats = Cardinality(Repeated(rows))
               /\ t.redundant = Cardinality(Repeated(rows) \ Reused(rows))
<1> DEFINE n == Len(rows)
<1>1. PICK g \in [0..n -> Counters] :
          /\ g[0] = NoTallies /\ g[n] = compute_metrics(rows)
          /\ \A k \in 1..n : g[k] = Add(g[k - 1], rows[k])
    BY MetricsRun
<1>2. n \in Nat /\ \A i \in 1..n : rows[i] \in Outcome
    OBVIOUS
<1>3. \A k \in 1..n : Adds(g[k], g[k - 1], rows[k])
    <2> SUFFICES ASSUME NEW k \in 1..n PROVE Adds(g[k], g[k - 1], rows[k])
        OBVIOUS
    <2>1. g[k] = Add(g[k - 1], rows[k])
        BY <1>1
    <2> QED BY <2>1, AddAdds
<1> HIDE DEF n
<1> DEFINE SolvedBy(k) == {f \in Families : \E j \in 1..k : rows[j].family = f /\ rows[j].success}
           Bad == {k \in 0..n : g[k].solved # SolvedBy(k)}
<1>4. Bad = {}
    <2> SUFFICES ASSUME Bad # {} PROVE FALSE
        OBVIOUS
    <2>1. PICK k \in Bad : \A j \in Bad : k <= j
        <3>1. Bad \in SUBSET Nat
            BY <1>2
        <3> HIDE DEF Bad
        <3> QED BY <3>1, LeastNumber
    <2>2. k # 0
        BY <1>1 DEF NoTallies
    <2>3. k \in 1..n /\ k - 1 \in 0..n /\ k - 1 \notin Bad
        BY <1>2, <2>1, <2>2
    <2>4. g[k - 1].solved = SolvedBy(k - 1) /\ rows[k].family \in Families
        BY <1>2, <2>3 DEF Outcome
    <2>5. SolvedBy(k) = SolvedBy(k - 1) \cup (IF rows[k].success THEN {rows[k].family} ELSE {})
        <3>1. 1..k = 1..(k - 1) \cup {k}
            BY <1>2, <2>3
        <3> QED BY <2>4, <3>1
    <2> QED BY <1>3, <2>3, <2>4, <2>5 DEF Adds
<1>5. \A k \in 1..n : rows[k].family \in g[k - 1].solved <=> k \in Repeated(rows)
    <2> SUFFICES ASSUME NEW k \in 1..n
                 PROVE  rows[k].family \in g[k - 1].solved <=> k \in Repeated(rows)
        OBVIOUS
    <2>1. k - 1 \in 0..n
        BY <1>2
    <2>2. g[k - 1].solved = SolvedBy(k - 1) /\ rows[k].family \in Families
        BY <1>2, <1>4, <2>1 DEF Outcome
    <2> QED BY <2>2 DEF Repeated, n
<1>6. \A k \in 1..n : rows[k].family \in rows[k].keys <=> k \in Reused(rows)
    BY DEF Reused, n
<1> DEFINE successes         == [k \in 0..n |-> g[k].successes]
           tasks_relevant    == [k \in 0..n |-> g[k].tasks_relevant]
           injected_relevant == [k \in 0..n |-> g[k].injected_relevant]
           relevant_success  == [k \in 0..n |-> g[k].relevant_success]
           repeats           == [k \in 0..n |-> g[k].repeats]
           redundant         == [k \in 0..n |-> g[k].redundant]
           Succeeded         == {i \in 1..n : rows[i].success}
<1>7. \A k \in 1..n : k \in 0..n /\ k - 1 \in 0..n
    BY <1>2
<1>8. 0 \in 0..n /\ n \in 0..n
    BY <1>2
<1>9. g[n].successes = Cardinality({i \in 1..n : i \in Succeeded})
    <2>1. successes[0] = 0
        BY <1>1, <1>8 DEF NoTallies
    <2>2. \A k \in 1..n : successes[k] = successes[k - 1] + Count(k \in Succeeded)
        BY <1>3, <1>7 DEF Adds, Count
    <2>3. successes[n] = g[n].successes
        BY <1>8
    <2> HIDE DEF successes, Succeeded
    <2> QED BY <1>2, <2>1, <2>2, <2>3, CounterCounts
<1>10. g[n].tasks_relevant = Cardinality({i \in 1..n : i \in Reused(rows)})
    <2>1. tasks_relevant[0] = 0
        BY <1>1, <1>8 DEF NoTallies
    <2>2. \A k \in 1..n : tasks_relevant[k] = tasks_relevant[k - 1] + Count(k \in Reused(rows))
        BY <1>3, <1>6, <1>7 DEF Adds, Count
    <2>3. tasks_relevant[n] = g[n].tasks_relevant
        BY <1>8
    <2> HIDE DEF tasks_relevant
    <2> QED BY <1>2, <2>1, <2>2, <2>3, CounterCounts
<1>11. g[n].injected_relevant = Cardinality({i \in 1..n : i \in Reused(rows)})
    <2>1. injected_relevant[0] = 0
        BY <1>1, <1>8 DEF NoTallies
    <2>2. \A k \in 1..n : injected_relevant[k] = injected_relevant[k - 1] + Count(k \in Reused(rows))
        BY <1>3, <1>6, <1>7 DEF Adds, Count
    <2>3. injected_relevant[n] = g[n].injected_relevant
        BY <1>8
    <2> HIDE DEF injected_relevant
    <2> QED BY <1>2, <2>1, <2>2, <2>3, CounterCounts
<1>12. g[n].relevant_success = Cardinality({i \in 1..n : i \in Reused(rows) \cap Succeeded})
    <2>1. relevant_success[0] = 0
        BY <1>1, <1>8 DEF NoTallies
    <2>2. \A k \in 1..n : relevant_success[k] =
                              relevant_success[k - 1] + Count(k \in Reused(rows) \cap Succeeded)
        BY <1>3, <1>6, <1>7 DEF Adds, Count
    <2>3. relevant_success[n] = g[n].relevant_success
        BY <1>8
    <2> HIDE DEF relevant_success
    <2> QED BY <1>2, <2>1, <2>2, <2>3, CounterCounts
<1>13. g[n].repeats = Cardinality({i \in 1..n : i \in Repeated(rows)})
    <2>1. repeats[0] = 0
        BY <1>1, <1>8 DEF NoTallies
    <2>2. \A k \in 1..n : repeats[k] = repeats[k - 1] + Count(k \in Repeated(rows))
        BY <1>3, <1>5, <1>7 DEF Adds, Count
    <2>3. repeats[n] = g[n].repeats
        BY <1>8
    <2> HIDE DEF repeats
    <2> QED BY <1>2, <2>1, <2>2, <2>3, CounterCounts
<1>14. g[n].redundant = Cardinality({i \in 1..n : i \in Repeated(rows) \ Reused(rows)})
    <2>1. redundant[0] = 0
        BY <1>1, <1>8 DEF NoTallies
    <2>2. \A k \in 1..n : redundant[k] = redundant[k - 1] + Count(k \in Repeated(rows) \ Reused(rows))
        BY <1>3, <1>5, <1>6, <1>7 DEF Adds, Count
    <2>3. redundant[n] = g[n].redundant
        BY <1>8
    <2> HIDE DEF redundant
    <2> QED BY <1>2, <2>1, <2>2, <2>3, CounterCounts
<1>15. g[n].tasks_injected = Cardinality({i \in 1..n : i \in Given(rows)})
    <2> DEFINE tasks_injected == [k \in 0..n |-> g[k].tasks_injected]
    <2>1. tasks_injected[0] = 0
        BY <1>1, <1>8 DEF NoTallies
    <2>2. \A k \in 1..n : rows[k].keys # {} <=> k \in Given(rows)
        BY DEF Given, n
    <2>3. \A k \in 1..n : tasks_injected[k] = tasks_injected[k - 1] + Count(k \in Given(rows))
        BY <1>3, <1>7, <2>2 DEF Adds, Count
    <2>4. tasks_injected[n] = g[n].tasks_injected
        BY <1>8
    <2> HIDE DEF tasks_injected
    <2> QED BY <1>2, <2>1, <2>3, <2>4, CounterCounts
<1>16. g[n].injected = Cardinality({x \in (1..n) \X Memories : x[2] \in rows[x[1]].got})
    <2> DEFINE injected == [k \in 0..n |-> g[k].injected]
               F == [k \in 1..n |-> rows[k].got]
               f == [k \in 1..n |-> Cardinality(rows[k].keys)]
    <2>1. injected[0] = 0
        BY <1>1, <1>8 DEF NoTallies
    <2>2. \A k \in 1..n : injected[k] = injected[k - 1] + f[k]
        BY <1>3, <1>7 DEF Adds
    <2>3. Sizes(f, F, 1..n, Memories)
        BY <1>2 DEF Sizes, Outcome, n
    <2>4. injected[n] = g[n].injected
        BY <1>8
    <2>5. Members(F, 1..n, Memories) = {x \in (1..n) \X Memories : x[2] \in rows[x[1]].got}
        BY DEF Members
    <2> HIDE DEF injected, f, F
    <2>6. n \in Nat
        BY <1>2
    <2>7. injected[n] = Cardinality(Members(F, 1..n, Memories))
        BY ONLY <2>1, <2>2, <2>3, <2>6, CounterSums
    <2> QED BY <2>4, <2>5, <2>7, Zenon
<1>17. /\ {i \in 1..n : i \in Given(rows)} = Given(rows)
       /\ {i \in 1..n : i \in Succeeded} = {i \in 1..Len(rows) : rows[i].success}
       /\ {i \in 1..n : i \in Reused(rows)} = Reused(rows)
       /\ {i \in 1..n : i \in Reused(rows) \cap Succeeded} = {i \in Reused(rows) : rows[i].success}
       /\ {i \in 1..n : i \in Repeated(rows)} = Repeated(rows)
       /\ {i \in 1..n : i \in Repeated(rows) \ Reused(rows)} = Repeated(rows) \ Reused(rows)
    BY DEF n, Given, Reused, Repeated
<1>18. {x \in (1..n) \X Memories : x[2] \in rows[x[1]].got}
         = {x \in (1..Len(rows)) \X Memories : x[2] \in rows[x[1]].got}
    BY DEF n
<1> HIDE DEF Succeeded
<1> QED BY <1>1, <1>9, <1>10, <1>11, <1>12, <1>13, <1>14, <1>15, <1>16, <1>17, <1>18

-----------------------------------------------------------------------------
(* The rows of run_arm.                                                    *)

\* They are rows of the books; and all of them, where every row is honest.
LEMMA HonestAreRows ==
    ASSUME outcomes \in Seq(Outcome)
    PROVE  /\ HonestRows \in Seq(Outcome)
           /\ \A i \in 1..Len(HonestRows) : \E j \in 1..Len(outcomes) : HonestRows[i] = outcomes[j]
           /\ (\A j \in 1..Len(outcomes) : outcomes[j].honest) => HonestRows = outcomes
<1> DEFINE n == Len(outcomes)
           D == DOMAIN outcomes
           R == {outcomes[j] : j \in 1..n}
           V == Seq(R)
           W(rows, r) == IF r.honest THEN Append(rows, r) ELSE rows
           Rec(h) == h = [t \in SUBSET D |-> IF t = {} THEN <<>>
                                             ELSE W(h[t \ {Max(t)}], outcomes[Max(t)])]
           it == CHOOSE h : Rec(h)
           G == [x \in (1..n) \X V |-> W(x[2], outcomes[x[1]])]
<1>1. HonestRows = it[D]
    BY Zenon DEF HonestRows, FoldLeft, MapThenFoldSet
<1>2. D = 1..n /\ n \in Nat /\ R \subseteq Outcome /\ outcomes \in Seq(R)
    OBVIOUS
<1>3. <<>> \in V
    OBVIOUS
<1>4. \A i \in 1..n : \A v \in V : G[<<i, v>>] = W(v, outcomes[i])
    OBVIOUS
<1>5. Closed(G, n, V)
    <2> SUFFICES ASSUME NEW i \in 1..n, NEW v \in V PROVE W(v, outcomes[i]) \in V
        BY <1>4 DEF Closed
    <2>1. outcomes[i] \in R
        OBVIOUS
    <2> HIDE DEF R
    <2> QED BY <2>1
<1> HIDE DEF n, G, V, W
<1>6. PICK h \in [SUBSET (1..n) -> V] : Folds(h, G, <<>>, n)
    BY <1>2, <1>3, <1>5, FoldExists
<1>7. Rec(h)
    <2>1. \A t \in SUBSET (1..n) : h[t] = IF t = {} THEN <<>>
                                          ELSE W(h[t \ {Max(t)}], outcomes[Max(t)])
        <3> SUFFICES ASSUME NEW t \in SUBSET (1..n), t # {}
                     PROVE  h[t] = W(h[t \ {Max(t)}], outcomes[Max(t)])
            BY <1>6 DEF Folds
        <3>1. h[t] = G[<<Max(t), h[Rest(t)]>>]
            BY <1>6 DEF Folds
        <3>2. Max(t) \in 1..n /\ h[Rest(t)] \in V
            BY <1>2, MaxIn, RestSmaller
        <3> QED BY <1>4, <3>1, <3>2 DEF Rest
    <2> QED BY <1>2, <2>1
<1>8. Rec(it)
    BY <1>7, Zenon
<1> HIDE DEF it
<1>9. Follows(it, G, <<>>, n, V)
    <2>1. \A t \in SUBSET (1..n) : it[t] = IF t = {} THEN <<>>
                                           ELSE W(it[t \ {Max(t)}], outcomes[Max(t)])
        BY <1>2, <1>8
    <2>2. ASSUME NEW t \in SUBSET (1..n), t # {}, it[Rest(t)] \in V
          PROVE  it[t] = G[<<Max(t), it[Rest(t)]>>]
        <3>1. Max(t) \in 1..n
            BY <1>2, <2>2, MaxIn
        <3>2. it[t] = W(it[Rest(t)], outcomes[Max(t)])
            BY <2>1, <2>2 DEF Rest
        <3> QED BY <1>4, <2>2, <3>1, <3>2
    <2> QED BY <2>1, <2>2 DEF Follows
<1>10. PICK g \in [0..n -> V] : Runs(g, G, <<>>, n, it[1..n])
    BY <1>2, <1>3, <1>5, <1>9, FoldRuns
<1>11. /\ g[0] = <<>> /\ g[n] = HonestRows
       /\ \A k \in 1..n : k \in 0..n /\ k - 1 \in 0..n /\ g[k] = W(g[k - 1], outcomes[k])
    <2>1. \A k \in 1..n : k \in 0..n /\ k - 1 \in 0..n
        BY <1>2
    <2>2. \A k \in 1..n : g[k] = W(g[k - 1], outcomes[k])
        BY <1>4, <1>10, <2>1 DEF Runs
    <2> QED BY <1>1, <1>2, <1>10, <2>1, <2>2 DEF Runs
<1>12. HonestRows \in V
    <2>1. n \in 0..n
        BY <1>2
    <2> QED BY <1>11, <2>1
<1>13. ASSUME \A j \in 1..n : outcomes[j].honest
       PROVE  HonestRows = outcomes
    <2> DEFINE Same(k) == g[k] \in Seq(R) /\ Len(g[k]) = k /\ \A i \in 1..k : g[k][i] = outcomes[i]
               Bad == {k \in 0..n : ~Same(k)}
    <2>1. Bad = {}
        <3> SUFFICES ASSUME Bad # {} PROVE FALSE
            OBVIOUS
        <3>1. PICK k \in Bad : \A j \in Bad : k <= j
            <4>1. Bad \in SUBSET Nat
                BY <1>2
            <4> HIDE DEF Bad
            <4> QED BY <4>1, LeastNumber
        <3>2. k # 0
            <4>1. Same(0)
                <5> HIDE DEF R
                <5> QED BY <1>11
            <4> HIDE DEF Same
            <4> QED BY <4>1
        <3>3. k \in 1..n /\ k - 1 \in 0..n /\ k - 1 \notin Bad
            <4>1. k \in 0..n
                OBVIOUS
            <4> HIDE DEF Bad
            <4> QED BY <1>2, <3>1, <3>2, <4>1
        <3>4. Same(k - 1)
            BY <3>3
        <3>5. g[k] = Append(g[k - 1], outcomes[k]) /\ outcomes[k] \in R
            BY <1>11, <1>13, <3>3 DEF W, n
        <3>6. Same(k)
            <4>1. PICK s : s = g[k - 1]
                OBVIOUS
            <4>2. /\ s \in Seq(R) /\ Len(s) = k - 1 /\ \A i \in 1..(k - 1) : s[i] = outcomes[i]
                  /\ g[k] = Append(s, outcomes[k])
                BY <3>4, <3>5, <4>1
            <4> HIDE DEF R
            <4> QED BY <1>2, <3>3, <3>5, <4>2
        <3> QED BY <3>6
    <2>2. Same(n)
        <3>1. n \in 0..n
            BY <1>2
        <3> QED BY <2>1, <3>1
    <2> HIDE DEF R
    <2> QED BY <1>2, <1>11, <2>2 DEF n
<1>14. HonestRows \in Seq(R)
    BY <1>12 DEF V
<1>15. \A i \in 1..Len(HonestRows) : HonestRows[i] \in R
    <2> HIDE DEF R
    <2> QED BY <1>14
<1>16. HonestRows \in Seq(Outcome)
    <2> HIDE DEF R
    <2> QED BY <1>2, <1>14
<1> QED BY <1>13, <1>15, <1>16 DEF n

\* So what is so of every row of the books is so of every one of them.
LEMMA HonestTrue ==
    ASSUME Booked
    PROVE  /\ HonestRows \in Seq(Outcome)
           /\ \A i \in 1..Len(HonestRows) : RowTrue(HonestRows[i])
           /\ ~setting.harness => HonestRows = <<>>
<1>1. /\ HonestRows \in Seq(Outcome)
      /\ \A i \in 1..Len(HonestRows) : \E j \in 1..Len(outcomes) : HonestRows[i] = outcomes[j]
    BY HonestAreRows DEF Booked
<1>2. \A i \in 1..Len(HonestRows) : RowTrue(HonestRows[i])
    <2> SUFFICES ASSUME NEW i \in 1..Len(HonestRows) PROVE RowTrue(HonestRows[i])
        OBVIOUS
    <2>1. PICK j \in 1..Len(outcomes) : HonestRows[i] = outcomes[j]
        BY <1>1
    <2>2. RowTrue(outcomes[j])
        BY DEF Booked
    <2> QED BY <2>1, <2>2
<1>3. ~setting.harness => HonestRows = <<>>
    <2> SUFFICES ASSUME ~setting.harness PROVE HonestRows = <<>>
        OBVIOUS
    <2>1. outcomes = <<>> /\ Len(outcomes) = 0
        BY DEF Booked
    <2> QED BY <2>1, HonestAreRows DEF Booked
<1> QED BY <1>1, <1>2, <1>3

\* The relevant memories of rows that are true are counted one a row.
LEMMA RelevantCounts ==
    ASSUME NEW rows \in Seq(Outcome), \A i \in 1..Len(rows) : RowTrue(rows[i])
    PROVE  Relevant(rows) = Cardinality(Reused(rows))
<1> DEFINE D == 1..Len(rows)
           f == [i \in D |-> rows[i].relevant]
<1>1. DOMAIN rows = D /\ IsFiniteSet(D) /\ Reused(rows) = D \cap Reused(rows) /\ DOMAIN f = D
    BY FS_Interval DEF Reused
<1>2. Relevant(rows) = SumFunctionOnSet(f, D)
    BY <1>1, Zenon DEF Relevant, SumFunction
<1>3. \A i \in D : f[i] = Count(i \in Reused(rows))
    BY DEF RowTrue, Reused, Count
<1> HIDE DEF f, D
<1>4. SumFunctionOnSet(f, D) = Cardinality(D \cap Reused(rows))
    BY <1>1, <1>3, SumOfOnes
<1> QED BY <1>1, <1>2, <1>4

\* Whatever the tasks, agents and outcomes: the counters compute_metrics makes
\* in one pass over the keys are those its definitions describe of the texts the
\* agents were given - the tasks that got any, the texts and the relevant ones
\* among them, the relevant tasks, their successes, the repeats and the redundant
\* ones - and the redundancy index is 1 for the baseline.
THEOREM MetricsAreDefined == XSpec => []MetricsAsDefined
<1>1. ASSUME Booked PROVE MetricsAsDefined
    <2> DEFINE rows == HonestRows
               t    == compute_metrics(rows)
               n    == Len(rows)
               Reuses(r) == r.family \in {payload[m].family : m \in r.got}
               Again(i)  == \E j \in 1..(i - 1) :
                                rows[j].family = rows[i].family /\ rows[j].success
    <2>1. rows \in Seq(Outcome) /\ \A i \in 1..n : RowTrue(rows[i])
        BY <1>1, HonestTrue
    <2>2. /\ t.successes = Cardinality({i \in 1..n : rows[i].success})
          /\ t.tasks_injected = Cardinality(Given(rows))
          /\ t.injected = Cardinality({x \in (1..n) \X Memories : x[2] \in rows[x[1]].got})
          /\ t.tasks_relevant = Cardinality(Reused(rows))
          /\ t.injected_relevant = Cardinality(Reused(rows))
          /\ t.relevant_success = Cardinality({i \in Reused(rows) : rows[i].success})
          /\ t.repeats = Cardinality(Repeated(rows))
          /\ t.redundant = Cardinality(Repeated(rows) \ Reused(rows))
        <3>1. \A i \in 1..n : /\ IsFiniteSet(rows[i].keys) /\ IsFiniteSet(rows[i].got)
                              /\ Cardinality(rows[i].keys) = Cardinality(rows[i].got)
            BY <2>1 DEF RowTrue
        <3> HIDE DEF rows
        <3> QED BY <2>1, <3>1, CountersCount
    <2>3. t.injected_relevant = Relevant(rows)
        BY <2>1, <2>2, RelevantCounts
    <2>4. ~setting.memory => t.redundant = t.repeats
        <3> SUFFICES ASSUME ~setting.memory PROVE t.redundant = t.repeats
            OBVIOUS
        <3>1. \A i \in 1..n : rows[i].keys = {}
            BY <2>1 DEF RowTrue
        <3>2. Reused(rows) = {}
            BY <3>1 DEF Reused
        <3>3. Repeated(rows) \ Reused(rows) = Repeated(rows)
            BY <3>2
        <3> QED BY <2>2, <3>3
    <2>5. DOMAIN rows = 1..n
        BY <2>1
    <2>6. \A i \in 1..n : /\ rows[i].keys # {} <=> rows[i].got # {}
                          /\ rows[i].family \in rows[i].keys <=> Reuses(rows[i])
        <3>1. \A i \in 1..n : rows[i].keys = {payload[m].family : m \in rows[i].got}
            BY <2>1 DEF RowTrue
        <3> HIDE DEF rows, n
        <3> QED BY <3>1
    <2> HIDE DEF rows, t, n, Reuses
    <2>7. /\ {i \in DOMAIN rows : rows[i].success} = {i \in 1..n : rows[i].success}
          /\ {i \in DOMAIN rows : rows[i].got # {}} = Given(rows)
          /\ {x \in (DOMAIN rows) \X Memories : x[2] \in rows[x[1]].got}
               = {x \in (1..n) \X Memories : x[2] \in rows[x[1]].got}
          /\ {i \in DOMAIN rows : Reuses(rows[i])} = Reused(rows)
          /\ {i \in DOMAIN rows : Reuses(rows[i]) /\ rows[i].success}
               = {i \in Reused(rows) : rows[i].success}
          /\ {i \in DOMAIN rows : Again(i)} = Repeated(rows)
          /\ {i \in {i \in DOMAIN rows : Again(i)} : ~Reuses(rows[i])}
               = Repeated(rows) \ Reused(rows)
        BY <2>5, <2>6 DEF Given, Reused, Repeated, n
    <2>8. /\ t.successes = Cardinality({i \in DOMAIN rows : rows[i].success})
          /\ t.tasks_injected = Cardinality({i \in DOMAIN rows : rows[i].got # {}})
          /\ t.injected = Cardinality({x \in (DOMAIN rows) \X Memories : x[2] \in rows[x[1]].got})
          /\ t.tasks_relevant = Cardinality({i \in DOMAIN rows : Reuses(rows[i])})
          /\ t.relevant_success = Cardinality({i \in DOMAIN rows : Reuses(rows[i]) /\ rows[i].success})
          /\ t.repeats = Cardinality({i \in DOMAIN rows : Again(i)})
          /\ t.redundant = Cardinality({i \in {i \in DOMAIN rows : Again(i)} : ~Reuses(rows[i])})
        BY <2>2, <2>7, Zenon
    <2> QED BY <2>3, <2>4, <2>8, Zenon DEF MetricsAsDefined, rows, t, Reuses
<1> QED BY <1>1, BooksKept, PTL

\* In every arm, whatever its agents answer: what the harness counted as
\* relevant and as flawed by its books is what the memories it handed out were,
\* and without liars it counted as many false positives as there are memories
\* stored as a success that are none.
THEOREM BooksAreSound == XSpec => []BooksAreTrue
<1>1. ASSUME Booked PROVE BooksAreTrue
    <2> DEFINE rows == HonestRows
               D    == 1..Len(rows)
    <2>1. rows \in Seq(Outcome) /\ \A i \in D : RowTrue(rows[i])
        BY <1>1, HonestTrue
    <2>2. DOMAIN rows = D
        BY <2>1
    <2>3. Relevant(rows) = Cardinality({x \in D \X Memories :
              x[2] \in rows[x[1]].got /\ payload[x[2]].family = rows[x[1]].family})
        <3> DEFINE f == [i \in D |-> rows[i].relevant]
                   F == [i \in D |-> {m \in rows[i].got : payload[m].family = rows[i].family}]
        <3>1. Relevant(rows) = SumFunctionOnSet(f, D)
            <4>1. DOMAIN f = D
                OBVIOUS
            <4> QED BY <2>2, <4>1, Zenon DEF Relevant, SumFunction
        <3>2. Sizes(f, F, D, Memories)
            <4> SUFFICES ASSUME NEW i \in D
                         PROVE  /\ F[i] \subseteq Memories /\ IsFiniteSet(F[i])
                                /\ f[i] = Cardinality(F[i])
                BY DEF Sizes
            <4>1. RowTrue(rows[i]) /\ F[i] \subseteq rows[i].got
                BY <2>1
            <4>2. rows[i].got \subseteq Memories /\ IsFiniteSet(rows[i].got)
                BY <4>1 DEF RowTrue, Submitted
            <4> QED BY <4>1, <4>2, FS_Subset DEF RowTrue
        <3>3. \A x \in D \X Memories : x[2] \in F[x[1]] <=>
                  x[2] \in rows[x[1]].got /\ payload[x[2]].family = rows[x[1]].family
            OBVIOUS
        <3> HIDE DEF f, F
        <3>4. SumFunctionOnSet(f, D) = Cardinality(Members(F, D, Memories))
            <4>1. IsFiniteSet(D)
                BY FS_Interval
            <4> HIDE DEF D
            <4> QED BY <3>2, <4>1, SumOfSizes
        <3>5. Members(F, D, Memories) = {x \in D \X Memories :
                  x[2] \in rows[x[1]].got /\ payload[x[2]].family = rows[x[1]].family}
            BY <3>3 DEF Members
        <3> QED BY <3>1, <3>4, <3>5
    <2>4. Poisoned(rows) = Cardinality({x \in D \X Memories :
              x[2] \in rows[x[1]].got /\ payload[x[2]].family = rows[x[1]].family
                                      /\ payload[x[2]].missing > 0})
        <3> DEFINE f == [i \in D |-> rows[i].poisoned]
                   F == [i \in D |-> {m \in rows[i].got : payload[m].family = rows[i].family
                                                          /\ payload[m].missing > 0}]
        <3>1. Poisoned(rows) = SumFunctionOnSet(f, D)
            <4>1. DOMAIN f = D
                OBVIOUS
            <4> QED BY <2>2, <4>1, Zenon DEF Poisoned, SumFunction
        <3>2. Sizes(f, F, D, Memories)
            <4> SUFFICES ASSUME NEW i \in D
                         PROVE  /\ F[i] \subseteq Memories /\ IsFiniteSet(F[i])
                                /\ f[i] = Cardinality(F[i])
                BY DEF Sizes
            <4>1. RowTrue(rows[i]) /\ F[i] \subseteq rows[i].got
                BY <2>1
            <4>2. rows[i].got \subseteq Memories /\ IsFiniteSet(rows[i].got)
                BY <4>1 DEF RowTrue, Submitted
            <4> QED BY <4>1, <4>2, FS_Subset DEF RowTrue
        <3>3. \A x \in D \X Memories : x[2] \in F[x[1]] <=>
                  x[2] \in rows[x[1]].got /\ payload[x[2]].family = rows[x[1]].family
                                          /\ payload[x[2]].missing > 0
            OBVIOUS
        <3> HIDE DEF f, F
        <3>4. SumFunctionOnSet(f, D) = Cardinality(Members(F, D, Memories))
            <4>1. IsFiniteSet(D)
                BY FS_Interval
            <4> HIDE DEF D
            <4> QED BY <3>2, <4>1, SumOfSizes
        <3>5. Members(F, D, Memories) = {x \in D \X Memories :
                  x[2] \in rows[x[1]].got /\ payload[x[2]].family = rows[x[1]].family
                                          /\ payload[x[2]].missing > 0}
            BY <3>3 DEF Members
        <3> QED BY <3>1, <3>4, <3>5
    <2>5. setting.harness /\ setting.liars = {} =>
              FalsePositives(rows) = Cardinality({m \in Memories :
                  /\ \A a \in Agents : task[a].own # m
                  /\ payload[m] # Null /\ payload[m].success /\ payload[m].missing > 0})
        <3> SUFFICES ASSUME setting.harness, setting.liars = {}
                     PROVE  FalsePositives(rows) = Cardinality({m \in Memories :
                                /\ \A a \in Agents : task[a].own # m
                                /\ payload[m] # Null /\ payload[m].success
                                /\ payload[m].missing > 0})
            OBVIOUS
        <3>1. /\ \A i \in 1..Len(outcomes) : outcomes[i].honest
              /\ Cardinality(Wrong) = Cardinality(Misbelieved)
            BY <1>1 DEF Booked, EachLeftOne
        <3>2. rows = outcomes
            BY <1>1, <3>1, HonestAreRows DEF Booked
        <3>3. Wrong = {i \in DOMAIN rows : rows[i].self_check /\ ~rows[i].success}
            BY <2>2, <3>2 DEF Wrong
        <3>4. Misbelieved = {m \in Memories :
                  /\ \A a \in Agents : task[a].own # m
                  /\ payload[m] # Null /\ payload[m].success /\ payload[m].missing > 0}
            BY DEF Misbelieved, Settled
        <3> QED BY <3>1, <3>3, <3>4, Zenon DEF FalsePositives
    <2> HIDE DEF rows
    <2> QED BY <2>2, <2>3, <2>4, <2>5 DEF BooksAreTrue, rows
<1> QED BY <1>1, BooksKept, PTL

=============================================================================
