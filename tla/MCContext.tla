----------------------------- MODULE MCContext -----------------------------
(***************************************************************************)
(* Three memories for Context: two of one task by agents of one role, and  *)
(* one of another role that resembles the first.                           *)
(***************************************************************************)
EXTENDS Context

CONSTANTS m1, m2, m3, a1, a2, a3

ByMemory(x, y, z) == [m \in Memories |-> CASE m = m1 -> x [] m = m2 -> y [] m = m3 -> z]

Authors == ByMemory(a1, a2, a3)
Roles   == ByMemory("coding", "coding", "security")
Runs    == ByMemory("run1", "run1", "run2")
Keys    == ByMemory("key", "key", NoKey)
Ages    == ByMemory(1, 2, 2)
Sizes   == ByMemory(4, 4, 12)
Alike   == {<<m3, m1>>}

\* An author, a peer, a client that names no role, and one that names nothing.
Fleet == {[id |-> a1, role |-> "coding"], [id |-> a3, role |-> "security"],
          [id |-> a2, role |-> NoRole], [id |-> Nobody, role |-> NoRole],
          [id |-> Nobody, role |-> "coding"]}

Policy(limit, minTier, scope, ann, max, budget) ==
    [limit |-> limit, minTier |-> minTier, scope |-> scope, ann |-> ann,
     max |-> max, budget |-> budget]

Settings == {Policy(3, "private", NoRun, 0, 1, 20), Policy(3, "private", NoRun, 0, 3, 10),
             Policy(3, "private", NoRun, 0, 3, 22),
             Policy(2, "private", NoRun, 0, 2, 20), Policy(2, "agent", "run1", 1, 2, 20),
             Policy(2, "private", NoRun, 1, 3, 20)}

\* A failure, a new success, one with a failed report, one vouched for.
Governed == {[tier |-> "private", conf |-> 3000], [tier |-> "agent", conf |-> 6000],
             [tier |-> "agent", conf |-> 4000], [tier |-> "shared", conf |-> 7333]}

\* No word in common, irrelevant, relevant by keywords, relevant by meaning.
Fits == {[vec |-> 0, fts |-> 0], [vec |-> 1000, fts |-> 0],
         [vec |-> 2800, fts |-> 4000], [vec |-> 3500, fts |-> 0]}
=============================================================================
