------------------------------ MODULE Context ------------------------------
(***************************************************************************)
(* The read path: a request for memory context, or a search, from the query*)
(* of the store to the answer.  The store and the query are given; the     *)
(* module follows one request through hybrid_search_experiences, the       *)
(* context builder and the injection ledger.                               *)
(*                                                                         *)
(* Similarities, keyword ranks and confidences are ten-thousandths, weights*)
(* are percentages.                                                        *)
(***************************************************************************)
EXTENDS Judge, Sequences, FiniteSets

CONSTANTS
    Memories, Author, AuthorRole, Run, TaskKey, Created,
    Size,           \* count_tokens of a memory's formatted block
    Similar,        \* pairs <<m, s>>: m's text is as good as that of s, chosen before
    HeaderTokens,   \* count_tokens of the line above the blocks
    Readers,        \* who may ask: records of an agent id and a role
    Nobody, NoRole, NoRun, NoKey,     \* None in the code
    Policies,       \* records with the fields of MemorySelectionPolicy in use
    RowChoices,     \* governance columns a memory may have
    Matches,        \* how well a memory may match a query
    Threshold, TrustWeight, FtsWeight

Agents == {Author[m] : m \in Memories} \cup ({r.id : r \in Readers} \ {Nobody})

ASSUME ContextAssumption ==
    /\ IsFiniteSet(Memories)
    /\ Created \in [Memories -> Nat] /\ Size \in [Memories -> Nat]
    /\ Nobody \notin {Author[m] : m \in Memories}
    /\ NoRole \notin {AuthorRole[m] : m \in Memories}
    /\ RowChoices \subseteq [tier : Tier, conf : Nat]
    /\ Matches \subseteq [vec : Int, fts : Nat]
    /\ \A p \in Policies : /\ {p.limit, p.ann, p.max, p.budget} \subseteq Nat
                           /\ p.minTier \in Tier
    /\ {HeaderTokens, Threshold, TrustWeight, FtsWeight} \subseteq Nat

VARIABLES
    rows, match, \* the store and the query, as the search finds them
    req,         \* the request
    pc,          \* the next step of the request
    cand,        \* the rows the search returns
    todo,        \* ranked candidates not yet compared for redundancy
    kept,        \* non_redundant
    ids, tokens, \* selected_ids, current_tokens
    keys,        \* injected_task_keys
    ledger       \* rows of injections: pairs of a memory and an agent

given == <<rows, match>>
built == <<cand, todo, kept, ids, tokens, keys>>
vars  == <<given, req, pc, built, ledger>>

Requests == [kind : {"context", "search"}, by : Readers, policy : Policies]

Init ==
    /\ rows \in [Memories -> RowChoices]
    /\ match \in [Memories -> Matches]
    /\ req \in Requests
    /\ pc = "searching"
    /\ cand = <<>> /\ todo = <<>> /\ kept = <<>> /\ ids = <<>> /\ keys = <<>>
    /\ tokens = HeaderTokens
    /\ ledger = {}

-----------------------------------------------------------------------------
(* The search.                                                             *)

AboveAgentOrOwn(m) ==   \* slip: every tier above PRIVATE counts as visible
    \/ Rank(rows[m].tier) > Rank("private")
    \/ req.by.id # Nobody /\ Author[m] = req.by.id

\* VISIBILITY_SQL.
VisibleRow(m) ==
    \/ Rank(rows[m].tier) >= Rank("shared")
    \/ req.by.id # Nobody /\ Author[m] = req.by.id
    \/ /\ rows[m].tier = "agent"
       /\ req.by.role # NoRole /\ AuthorRole[m] = req.by.role

\* _COMMON_FILTERS.
Filtered ==
    {m \in Memories :
        /\ Rank(rows[m].tier) >= Rank(req.policy.minTier)
        /\ req.policy.scope # NoRun => Run[m] = req.policy.scope
        /\ VisibleRow(m)}

ExactHits == {m \in Filtered : match[m].vec > 0 \/ match[m].fts > 0}

\* Only prepare_context passes ann_candidates.
UsesIndex == req.kind = "context" /\ req.policy.ann > 0 /\ req.policy.scope = NoRun

\* What the index, an approximate one, takes for the nearest memories, whoever
\* may see them.
Neighbours == {S \in SUBSET Memories : S # {} /\ Cardinality(S) <= req.policy.ann}

HitsOfIndexAlone ==   \* slip: an empty answer of the index is taken for the answer
    IF UsesIndex THEN {near \cap Filtered : near \in Neighbours} ELSE {ExactHits}

\* The rows the query may match: with the index, an exact search when no
\* neighbour is left.
Hits ==
    IF UsesIndex
    THEN {IF near \cap Filtered = {} THEN ExactHits ELSE near \cap Filtered :
             near \in Neighbours}
    ELSE {ExactHits}

Relevance(m) == 100 * match[m].vec + FtsWeight * match[m].fts
Score(m)     == Relevance(m) + TrustWeight * rows[m].conf

\* The sequences that list a finite set without repetition.
Orders(S) ==
    {q \in [1..Cardinality(S) -> S] : \A i, j \in DOMAIN q : i # j => q[i] # q[j]}

\* ORDER BY relevance DESC, created_at DESC.
BestFirst(q) ==
    \A i, j \in DOMAIN q : i < j =>
        \/ Relevance(q[i]) > Relevance(q[j])
        \/ Relevance(q[i]) = Relevance(q[j]) /\ Created[q[i]] >= Created[q[j]]

AtMost(n, q) == SubSeq(q, 1, IF Len(q) < n THEN Len(q) ELSE n)

Search ==
    /\ pc = "searching"
    /\ \E S \in Hits : \E q \in Orders(S) :
          BestFirst(q) /\ cand' = AtMost(req.policy.limit, q)
    /\ pc' = IF req.kind = "search" THEN "done" ELSE "ranking"
    /\ UNCHANGED <<given, req, todo, kept, ids, tokens, keys, ledger>>

-----------------------------------------------------------------------------
(* build_context.                                                          *)

Usable(m) == Relevance(m) >= 100 * Threshold /\ rows[m].conf >= MinConfidence

RankBySearch ==   \* slip: the candidates stay in search order
    /\ pc = "ranking"
    /\ todo' = SelectSeq(cand, Usable)
    /\ pc' = "filtering"
    /\ UNCHANGED <<given, req, cand, kept, ids, tokens, keys, ledger>>

\* The usable candidates, best score first; the sort is stable.
RankCandidates ==
    /\ pc = "ranking"
    /\ \E p \in Orders({i \in DOMAIN cand : Usable(cand[i])}) :
          /\ \A i, j \in DOMAIN p : i < j =>
                \/ Score(cand[p[i]]) > Score(cand[p[j]])
                \/ Score(cand[p[i]]) = Score(cand[p[j]]) /\ p[i] < p[j]
          /\ todo' = [i \in DOMAIN p |-> cand[p[i]]]
    /\ pc' = "filtering"
    /\ UNCHANGED <<given, req, cand, kept, ids, tokens, keys, ledger>>

Redundant(m, s) == (TaskKey[m] # NoKey /\ TaskKey[m] = TaskKey[s]) \/ <<m, s>> \in Similar

RepeatsLast(m) == kept # <<>> /\ Redundant(m, kept[Len(kept)])   \* slip: only the last one

IsRedundant(m) == \E i \in DOMAIN kept : Redundant(m, kept[i])

FilterRedundant ==
    /\ pc = "filtering" /\ todo # <<>>
    /\ kept' = IF IsRedundant(Head(todo)) THEN kept ELSE Append(kept, Head(todo))
    /\ todo' = Tail(todo)
    /\ UNCHANGED <<given, req, pc, cand, ids, tokens, keys, ledger>>

Filtering ==
    /\ pc = "filtering" /\ todo = <<>>
    /\ pc' = "assembling"
    /\ UNCHANGED <<given, req, built, ledger>>

\* The next memory of kept; Size stands for format_single_memory and its length.
Upcoming == kept[Len(ids) + 1]

HasRoomForOneLess ==   \* slip: one memory too few
    /\ Len(ids) < Len(kept) /\ Len(ids) + 1 < req.policy.max
    /\ tokens + Size[Upcoming] <= req.policy.budget \/ ids = <<>>

\* Is there another memory, and is it taken?  The first is, whatever its size;
\* the blank lines between the blocks and the footer are never counted.
HasRoom ==
    /\ Len(ids) < Len(kept) /\ Len(ids) < req.policy.max
    /\ tokens + Size[Upcoming] <= req.policy.budget \/ ids = <<>>

AddBlock ==
    /\ pc = "assembling" /\ HasRoom
    /\ ids' = Append(ids, Upcoming)
    /\ tokens' = tokens + Size[Upcoming]
    /\ UNCHANGED <<given, req, pc, cand, todo, kept, keys, ledger>>

Assembled ==
    /\ pc = "assembling" /\ ~HasRoom
    /\ pc' = "recording"
    /\ UNCHANGED <<given, req, built, ledger>>

-----------------------------------------------------------------------------
(* The rest of prepare_context.                                            *)

InjectionsOfAnyone ==   \* slip: an answer without an agent is recorded, too
    {<<ids[i], req.by.id>> : i \in DOMAIN ids}

InjectionsOfCandidates ==   \* slip: candidates that were not injected are recorded
    IF req.by.id = Nobody THEN {} ELSE {<<cand[i], req.by.id>> : i \in DOMAIN cand}

Injections == IF req.by.id = Nobody THEN {} ELSE {<<ids[i], req.by.id>> : i \in DOMAIN ids}

\* record_injections, then the answer; the keys in the order of the search.
Record ==
    /\ pc = "recording"
    /\ ledger' = Injections
    /\ \E p \in Orders({i \in DOMAIN cand : \E k \in DOMAIN ids : ids[k] = cand[i]}) :
          /\ \A i, j \in DOMAIN p : i < j => p[i] < p[j]
          /\ keys' = [i \in DOMAIN p |-> TaskKey[cand[p[i]]]]
    /\ pc' = "done"
    /\ UNCHANGED <<given, req, cand, todo, kept, ids, tokens>>

\* record_injections raises, before or after its commit: no answer is given.
RecordFails ==
    /\ pc = "recording" /\ Injections # {}
    /\ ledger' \in {ledger, Injections}
    /\ pc' = "failed"
    /\ UNCHANGED <<given, req, built>>

Next ==
    \/ Search
    \/ RankCandidates \/ FilterRedundant \/ Filtering \/ AddBlock \/ Assembled
    \/ Record \/ RecordFails

Spec == Init /\ [][Next]_vars

-----------------------------------------------------------------------------
(* Properties.                                                             *)

TypeOK ==
    /\ rows \in [Memories -> RowChoices] /\ match \in [Memories -> Matches]
    /\ req \in Requests
    /\ pc \in {"searching", "ranking", "filtering", "assembling", "recording", "done", "failed"}
    /\ {cand, todo, kept, ids} \subseteq Seq(Memories)
    /\ tokens \in Nat
    /\ keys \in Seq({TaskKey[m] : m \in Memories})
    /\ ledger \subseteq Memories \X Agents

\* What a request shows its reader.
Shown ==
    IF req.kind = "search" THEN {cand[i] : i \in DOMAIN cand} ELSE {ids[i] : i \in DOMAIN ids}

MayRead(m) == VisibleTo(rows[m].tier, Author[m], AuthorRole[m], req.by.id, req.by.role)

\* Nobody is shown a memory that the rule of schema.py keeps from them, by any
\* kind of request, search mode or policy (is_visible_to: "Python mirror of the
\* SQL visibility rule").
OnlyReadableShown == \A m \in Shown : MayRead(m)

\* No two memories of a context say the same: none repeats one before it.
NoRepetition ==
    \A i, j \in DOMAIN ids : i < j => ~Redundant(ids[j], ids[i])

\* A usable candidate is left out only for a reason: a memory that ranks no lower
\* says the same, the context is full, or one that ranks no lower had no room.
OmittedForAReason ==
    pc = "recording" => \A k \in DOMAIN cand : Usable(cand[k]) =>
        \/ \E i \in DOMAIN ids : ids[i] = cand[k]
        \/ \E i \in DOMAIN ids : Redundant(cand[k], ids[i]) /\ Score(ids[i]) >= Score(cand[k])
        \/ Len(ids) = req.policy.max
        \/ \E i \in DOMAIN cand : /\ cand[i] \notin Shown /\ Usable(cand[i])
                                 /\ Score(cand[i]) >= Score(cand[k])
                                 /\ tokens + Size[cand[i]] > req.policy.budget

\* What the reader may read, within the scope and the tiers of the request.
InReach(m) ==
    /\ MayRead(m) /\ Rank(rows[m].tier) >= Rank(req.policy.minTier)
    /\ req.policy.scope \in {NoRun, Run[m]}

\* m is not among the candidates, and each of as many as the limit allows is as
\* relevant, usable or not.
CrowdedOut(m) ==
    /\ Len(cand) = req.policy.limit
    /\ \A i \in DOMAIN cand : cand[i] # m /\ Relevance(cand[i]) >= Relevance(m)

\* With the exact search, the best of all memories in reach, relevant and above
\* the floors, comes first; only candidates at least as relevant keep one out,
\* as they do because the limit is applied before the floors.
BestUsableFirst ==
    pc = "recording" /\ ~UsesIndex /\ req.policy.max > 0 =>
        \A m \in Memories : InReach(m) /\ Usable(m) /\ Relevance(m) > 0 =>
            (ids # <<>> /\ Score(ids[1]) >= Score(m)) \/ CrowdedOut(m)

\* A search comes back empty only when nothing in reach has to do with the
\* query, also when every neighbour the index names is out of the reader's
\* reach (hybrid_search_experiences: "fall back").
EmptyOnlyIfNothingMatches ==
    pc # "searching" /\ req.policy.limit > 0 /\ cand = <<>> =>
        \A m \in Memories : ~(InReach(m) /\ Relevance(m) > 0)

\* An agent has credit for exactly the memories of its context, and none for
\* those it only searched, or that were candidates.
LedgerIsContext ==
    LET credit == {<<m, req.by.id>> : m \in IF req.by.id = Nobody THEN {} ELSE Shown}
    IN  /\ pc = "done" /\ req.kind = "context" => ledger = credit
        /\ pc = "failed"                       => ledger \in {{}, credit}
        /\ pc \notin {"done", "failed"} \/ req.kind = "search" => ledger = {}

\* The ids and the task keys of an answer belong together, position by position
\* (harness.py walks them with zip).
KeysMatchIds == pc = "done" => keys = [i \in DOMAIN ids |-> TaskKey[ids[i]]]
=============================================================================
