----------------------------- MODULE Retrieval ------------------------------
(***************************************************************************)
(* Retrieval of the chunks an answer is grounded on: a pool of the nearest *)
(* chunks, the similarity threshold and the caller's roles, the vector or  *)
(* the hybrid order, the reranker, and the confidence reported.            *)
(*                                                                         *)
(* Scores are those of one query.  A similarity of MaxScore stands for 1,  *)
(* its negative for -1 (a distance of 2), and the weight of the keyword    *)
(* rank is weight parts of MaxWeight, so that blended scores are exact.    *)
(***************************************************************************)
EXTENDS Integers, FiniteSets, Sequences, Functions

CONSTANTS
    Chunks,      \* chunks the vector store may hold
    Roles,       \* roles and access tags
    MaxScore,    \* similarity 1
    Scores,      \* similarities that occur
    MaxKeyword,  \* highest keyword rank
    TopK,        \* retrieval_top_k
    Multiplier,  \* candidate_multiplier
    Threshold,   \* retrieval_similarity_threshold
    MaxWeight    \* keyword weight 1

ASSUME ChunksAssumption == IsFiniteSet(Chunks)
ASSUME ScoresAssumption == /\ MaxScore \in Nat /\ MaxKeyword \in Nat
                           /\ Scores \subseteq (-MaxScore)..MaxScore
                           /\ Threshold \in 0..MaxScore
ASSUME TopAssumption == TopK \in Nat /\ Multiplier \in Nat
ASSUME WeightAssumption == MaxWeight \in Nat \ {0}

VARIABLES
    weight,     \* retrieval_keyword_weight
    reranking,  \* rerank_enabled
    store,      \* chunks table: [stored chunks -> similarity, keyword, tags]
    caller,     \* caller_roles of the request
    pc,         \* where retrieve is
    pool,       \* rows of the SELECT, nearest first
    results,    \* places in pool of the chunks returned
    score       \* [places in pool -> RetrievedChunk.similarity]

\* What a request finds and does not change.
given == <<weight, reranking, store, caller>>

vars == <<given, pc, pool, results, score>>

-----------------------------------------------------------------------------
Row == [similarity : Scores, keyword : 0..MaxKeyword,
        tags : SUBSET Roles]

PoolSize == IF Multiplier = 0 THEN TopK ELSE TopK * Multiplier

\* The sequences of different rows, as many as the LIMIT lets through.
Windows ==
    LET n == IF Cardinality(DOMAIN store) < PoolSize
             THEN Cardinality(DOMAIN store) ELSE PoolSize
    IN {p \in [1..n -> DOMAIN store] : IsInjective(p)}

\* ORDER BY distance LIMIT PoolSize; equal distances come in any order.
Pools ==
    {p \in Windows :
        /\ \A i, j \in DOMAIN p :
                i < j => store[p[i]].similarity >= store[p[j]].similarity
        /\ \A c \in DOMAIN store \ Range(p), i \in DOMAIN p :
                store[p[i]].similarity >= store[c].similarity}

\* No tags: public.  Tags: one of the caller's roles must be among them.
PassesAccessFilter(tags, roles) == tags = {} \/ tags \cap roles # {}

\* Chunks the caller may be answered from.
Eligible(c) == /\ store[c].similarity >= Threshold
               /\ PassesAccessFilter(store[c].tags, caller)

\* Faulty: no threshold.
BlendGateOpen == {i \in DOMAIN pool :
                    PassesAccessFilter(store[pool[i]].tags, caller)}

\* The rows of the pool that pass threshold and access filter.
Candidates == {i \in DOMAIN pool : Eligible(pool[i])}

\* Highest keyword rank of the candidates.
MaxKeywordRank ==
    LET ranks == {store[pool[i]].keyword : i \in Candidates}
    IN IF ranks = {} THEN 0 ELSE CHOOSE k \in ranks : \A l \in ranks : l <= k

\* combined, times MaxWeight and, if there is any, the highest keyword rank.
Blend(i) ==
    LET k == MaxKeywordRank
    IN IF k = 0 THEN (MaxWeight - weight) * store[pool[i]].similarity
       ELSE (MaxWeight - weight) * store[pool[i]].similarity * k
            + weight * store[pool[i]].keyword * MaxScore

\* Faulty: lowest first.
BeforeAscending(key, i, j) == key[i] < key[j] \/ (key[i] = key[j] /\ i < j)

\* i comes before j in a stable sort by these keys, highest first.
Before(key, i, j) == key[i] > key[j] \/ (key[i] = key[j] /\ i < j)

\* The first TopK places of S in that order.
Top(S, key) ==
    {i \in S : Cardinality({j \in S : Before(key, j, i)}) < TopK}

\* The place the caller gets first.
First(S, key) == CHOOSE i \in S : \A j \in S \ {i} : Before(key, i, j)

-----------------------------------------------------------------------------
Init ==
    /\ weight \in 0..MaxWeight
    /\ reranking \in BOOLEAN
    /\ store \in UNION {[S -> Row] : S \in SUBSET Chunks}
    /\ caller \in SUBSET Roles
    /\ pc = "embed"
    /\ pool = <<>>
    /\ results = {}
    /\ score = <<>>

\* The query is embedded; the SELECT.
Select ==
    /\ pc = "embed"
    /\ pool' \in Pools
    /\ pc' = "rank"
    /\ UNCHANGED <<given, results, score>>

\* The embedding provider, the database or the cross-encoder raises.
Raise ==
    /\ pc \in {"embed", "rerank"}
    /\ pc' = "raised"
    /\ UNCHANGED <<given, pool, results, score>>

\* Reranking or not, the results go on with the similarities of the vectors.
Rank(places) ==
    /\ results' = places
    /\ score' = [i \in DOMAIN pool |-> store[pool[i]].similarity]
    /\ pc' = IF reranking THEN "rerank" ELSE "done"
    /\ UNCHANGED <<given, pool>>

\* Faulty: the length is looked at before the row is appended.
SimilaritySearchLate ==
    /\ pc = "rank" /\ weight = 0
    /\ Rank({i \in Candidates :
               Cardinality({j \in Candidates : j < i}) <= TopK})

\* similarity_search: the first TopK candidates in the order of the pool.
SimilaritySearch ==
    /\ pc = "rank" /\ weight = 0
    /\ Rank({i \in Candidates :
               Cardinality({j \in Candidates : j < i}) < TopK})

\* Faulty: the TopK nearest are taken before they are blended.
HybridSearchNarrow ==
    /\ pc = "rank" /\ weight > 0
    /\ Rank({i \in Candidates : i <= TopK})

\* Faulty: the similarity reported is the blended score.
HybridSearchBlended ==
    /\ pc = "rank" /\ weight > 0
    /\ results' = Top(Candidates, [i \in DOMAIN pool |-> Blend(i)])
    /\ score' = [i \in DOMAIN pool |->
                    Blend(i) \div (MaxWeight * (IF MaxKeywordRank = 0 THEN 1
                                                ELSE MaxKeywordRank))]
    /\ pc' = IF reranking THEN "rerank" ELSE "done"
    /\ UNCHANGED <<given, pool>>

\* hybrid_search: the candidates by blended score; the similarity reported is
\* still that of the vectors.
HybridSearch ==
    /\ pc = "rank" /\ weight > 0
    /\ Rank(Top(Candidates, [i \in DOMAIN pool |-> Blend(i)]))

\* CrossEncoderReranker: any scores, below zero too, which replace the
\* similarities; between -MaxScore and MaxScore every order of them occurs.
Rerank ==
    /\ pc = "rerank"
    /\ \E new \in [results -> (-MaxScore)..MaxScore] :
            score' = [i \in DOMAIN pool |-> IF i \in results THEN new[i]
                                                             ELSE score[i]]
    /\ pc' = "done"
    /\ UNCHANGED <<given, pool, results>>

Next == Select \/ Raise \/ SimilaritySearch \/ HybridSearch \/ Rerank

Spec == Init /\ [][Next]_vars

-----------------------------------------------------------------------------
(* What chat makes of it.                                                  *)

Done == pc = "done"

Returned == {pool[i] : i \in results}

\* is_grounded
Grounded == results # {}

\* The keys the list of results is sorted by.
Order == IF reranking THEN score
         ELSE IF weight > 0 THEN [i \in DOMAIN pool |-> Blend(i)]
         ELSE [i \in DOMAIN pool |-> 0]

\* confidence: the similarity of the first result.
Confidence == IF Grounded THEN score[First(results, Order)] ELSE 0

-----------------------------------------------------------------------------
(* Properties.                                                             *)

Stored == DOMAIN store

\* Types; the pool and the results keep their limits.
TypeOK ==
    /\ weight \in 0..MaxWeight /\ reranking \in BOOLEAN
    /\ store \in UNION {[S -> Row] : S \in SUBSET Chunks}
    /\ caller \in SUBSET Roles
    /\ pc \in {"embed", "rank", "rerank", "done", "raised"}
    /\ pool \in Seq(Stored) /\ Len(pool) <= PoolSize
    /\ results \subseteq DOMAIN pool /\ Cardinality(results) <= TopK
    /\ score # <<>> => score \in [DOMAIN pool -> (-MaxScore)..MaxScore]

\* No chunk leaves retrieval that the caller may not see or whose vector is
\* below the threshold, whatever its keyword rank or the reranker says.
OnlyGrounding == Done => \A c \in Returned : Eligible(c)

\* Chunks near enough that the caller may not see.
Hidden == {c \in Stored : /\ store[c].similarity >= Threshold
                          /\ ~PassesAccessFilter(store[c].tags, caller)}

\* As many chunks are returned as there are, up to TopK, as long as the hidden
\* ones fit into what the pool has to spare: rows below the threshold, rows
\* that come last in the pool and rows that tie never cost a result.
FullUnlessStarved ==
    Done /\ Cardinality(Hidden) + TopK <= PoolSize =>
        \/ Cardinality(Returned) = TopK
        \/ {c \in Stored : Eligible(c)} \subseteq Returned

\* The same without the proviso: restricted chunks never cost the caller a
\* result.
NotStarved ==
    Done => \/ Cardinality(Returned) = TopK
            \/ {c \in Stored : Eligible(c)} \subseteq Returned

\* No chunk the caller may see is left out for one that is farther away and
\* has no higher keyword rank; without hybrid search, for one farther away.
NoInversion ==
    Done => \A c \in Stored \ Returned, d \in Returned :
                ~(/\ Eligible(c)
                  /\ store[c].similarity > store[d].similarity
                  /\ weight = 0 \/ store[c].keyword >= store[d].keyword)

\* Without reranking the confidence of a grounded answer is never below the
\* threshold, nor above the similarity of the nearest chunk it is grounded on.
ConfidenceHonest ==
    Done /\ Grounded /\ ~reranking =>
        /\ Confidence >= Threshold
        /\ \E c \in Returned : Confidence <= store[c].similarity

=============================================================================
