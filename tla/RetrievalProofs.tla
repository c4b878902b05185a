-------------------------- MODULE RetrievalProofs --------------------------
(***************************************************************************)
(* Theorems about Retrieval, for any store, any roles, any limits and any  *)
(* weight.                                                                 *)
(***************************************************************************)
EXTENDS Retrieval, FiniteSetTheorems, WellFoundedInduction, TLAPS

StoreOK == /\ weight \in 0..MaxWeight
           /\ \E S \in SUBSET Chunks : store \in [S -> Row]

\* What either search makes of the candidates.
Chosen ==
    IF weight = 0
    THEN {i \in Candidates : Cardinality({j \in Candidates : j < i}) < TopK}
    ELSE Top(Candidates, [i \in DOMAIN pool |-> Blend(i)])

\* The pool and the choice stay what the search has made of them.
IInv ==
    /\ StoreOK
    /\ pc \in {"rank", "rerank", "done"} => pool \in Pools
    /\ pc \in {"rerank", "done"} => results = Chosen

LEMMA InvInit == Init => IInv
  BY DEF Init, IInv, StoreOK

\* A step that leaves store, roles and pool alone leaves the choice alone.
LEMMA Frame ==
    ASSUME UNCHANGED <<given, pool>>
    PROVE  StoreOK' = StoreOK /\ Pools' = Pools /\ Chosen' = Chosen
  <1>1. StoreOK' = StoreOK /\ Pools' = Pools
    BY DEF given, StoreOK, Pools, Windows
  <1>2. Candidates' = Candidates /\ DOMAIN pool' = DOMAIN pool
    BY DEF given, Candidates, Eligible
  <1>3. MaxKeywordRank' = MaxKeywordRank
    BY <1>2 DEF given, MaxKeywordRank
  <1>4. [i \in DOMAIN pool |-> Blend(i)]' = [i \in DOMAIN pool |-> Blend(i)]
    BY <1>3 DEF given, Blend
  <1> QED
    BY <1>1, <1>2, <1>4 DEF given, Chosen, Top

LEMMA InvNext == IInv /\ [Next]_vars => IInv'
  <1> SUFFICES ASSUME IInv, [Next]_vars PROVE IInv'
    OBVIOUS
  <1> USE DEF IInv
  <1>1. CASE Select
    BY <1>1 DEF Select, given, StoreOK, Pools, Windows
  <1>2. CASE Raise
    BY <1>2 DEF Raise, given, StoreOK
  <1>3. CASE SimilaritySearch
    <2>1. /\ UNCHANGED <<given, pool>> /\ pc = "rank"
          /\ results' = Chosen
      BY <1>3 DEF SimilaritySearch, Rank, Chosen
    <2> QED
      BY <2>1, Frame
  <1>4. CASE HybridSearch
    <2>1. /\ UNCHANGED <<given, pool>> /\ pc = "rank"
          /\ results' = Chosen
      BY <1>4 DEF HybridSearch, Rank, Chosen
    <2> QED
      BY <2>1, Frame
  <1>5. CASE Rerank
    <2>1. UNCHANGED <<given, pool, results>> /\ pc = "rerank"
      BY <1>5 DEF Rerank
    <2> QED
      BY <2>1, Frame
  <1>6. CASE UNCHANGED vars
    <2>1. UNCHANGED <<given, pool, results, pc>>
      BY <1>6 DEF vars
    <2> QED
      BY <2>1, Frame
  <1> QED
    BY <1>1, <1>2, <1>3, <1>4, <1>5, <1>6 DEF Next

-----------------------------------------------------------------------------
(* The pool.                                                               *)

\* A pool is a finite sequence of rows of the store, nearest first.
LEMMA PoolShape ==
    ASSUME StoreOK, pool \in Pools
    PROVE  /\ DOMAIN pool \subseteq Int /\ IsFiniteSet(DOMAIN pool)
           /\ \A i \in DOMAIN pool : /\ pool[i] \in Stored
                                     /\ store[pool[i]].similarity \in Int
                                     /\ store[pool[i]].keyword \in Nat
           /\ \A c \in Stored : store[c].similarity \in Int
                                /\ store[c].keyword \in Nat
           /\ \A i, j \in DOMAIN pool : i < j =>
                store[pool[i]].similarity >= store[pool[j]].similarity
           /\ \A c \in Stored, i \in DOMAIN pool :
                \/ \E j \in DOMAIN pool : pool[j] = c
                \/ store[pool[i]].similarity >= store[c].similarity
  <1>1. PICK S \in SUBSET Chunks : store \in [S -> Row]
    BY DEF StoreOK
  <1>2. IsFiniteSet(S)
    BY <1>1, ChunksAssumption, FS_Subset
  <1>3. DOMAIN store = S /\ Cardinality(S) \in Nat /\ PoolSize \in Nat
    BY <1>1, <1>2, FS_CardinalityType, TopAssumption DEF PoolSize
  <1>4. \A c \in Stored : store[c].similarity \in Int
                          /\ store[c].keyword \in Nat
    <2> SUFFICES ASSUME NEW c \in S
                 PROVE  /\ store[c].similarity \in Int
                        /\ store[c].keyword \in Nat
      BY <1>3 DEF Stored
    <2>1. store[c] \in Row
      BY <1>1
    <2>2. store[c].similarity \in Scores /\ store[c].keyword \in 0..MaxKeyword
      BY <2>1 DEF Row
    <2>3. store[c].similarity \in (-MaxScore)..MaxScore
      BY <2>2, ScoresAssumption
    <2>4. -MaxScore \in Int /\ MaxScore \in Int /\ MaxKeyword \in Nat
      BY ScoresAssumption
    <2> QED
      BY <2>2, <2>3, <2>4
  <1>5. PICK n \in Nat : pool \in [1..n -> DOMAIN store]
    BY <1>3 DEF Pools, Windows
  <1>6. IsFiniteSet(DOMAIN pool)
    BY <1>5, FS_Interval
  <1> QED
    BY <1>3, <1>4, <1>5, <1>6 DEF Pools, Range, Stored

\* The highest keyword rank exists, and no candidate has a higher one.
LEMMA KeywordRank ==
    ASSUME StoreOK, pool \in Pools
    PROVE  /\ MaxKeywordRank \in Nat
           /\ \A i \in Candidates :
                    store[pool[i]].keyword <= MaxKeywordRank
  <1> DEFINE ranks == {store[pool[i]].keyword : i \in Candidates}
  <1>1. ranks \subseteq 0..MaxKeyword
    <2>1. \A i \in DOMAIN pool : store[pool[i]].keyword \in 0..MaxKeyword
      BY PoolShape DEF StoreOK, Row, Stored
    <2> QED
      BY <2>1 DEF Candidates
  <1>2. ASSUME ranks # {}
        PROVE  \E k \in ranks : \A l \in ranks : l <= k
    <2> HIDE DEF ranks
    <2> DEFINE T == {MaxKeyword - k : k \in ranks}
    <2>1. T \subseteq Nat /\ T # {}
      <3>1. \A k \in ranks : MaxKeyword - k \in Nat
        BY <1>1, ScoresAssumption
      <3> QED
        BY <1>2, <3>1
    <2>2. PICK x \in T : \A y \in T : ~(<<y, x>> \in OpToRel(<, Nat))
      <3> HIDE DEF T
      <3> QED
        BY <2>1, NatLessThanWellFounded, WFMin
    <2>3. \A y \in T : x <= y
      <3> SUFFICES ASSUME NEW y \in T PROVE x <= y
        OBVIOUS
      <3>1. x \in Nat /\ y \in Nat
        BY <2>1
      <3>2. ~(y < x)
        BY <2>2, <3>1 DEF OpToRel
      <3> HIDE DEF T
      <3> QED
        BY <3>1, <3>2
    <2>4. PICK k \in ranks : x = MaxKeyword - k
      OBVIOUS
    <2>5. \A l \in ranks : MaxKeyword - l \in T
      OBVIOUS
    <2>6. \A l \in ranks : l <= k
      BY <1>1, <2>3, <2>4, <2>5, ScoresAssumption
    <2> QED
      BY <2>6
  <1> QED
    BY <1>1, <1>2, ScoresAssumption DEF MaxKeywordRank

-----------------------------------------------------------------------------
(* The order.                                                              *)

\* A product with a factor that is not negative keeps an order.
LEMMA TimesGrows ==
    ASSUME NEW a \in Int, NEW b \in Int, NEW c \in Nat, a <= b
    PROVE  c * a <= c * b
  OBVIOUS

\* A candidate at least as near with at least the keyword rank has at least
\* the blended score.
LEMMA BlendMonotone ==
    ASSUME StoreOK, pool \in Pools,
           NEW i \in DOMAIN pool, NEW j \in DOMAIN pool,
           store[pool[i]].similarity <= store[pool[j]].similarity,
           store[pool[i]].keyword <= store[pool[j]].keyword
    PROVE  Blend(i) \in Int /\ Blend(j) \in Int /\ Blend(i) <= Blend(j)
  <1> DEFINE k == MaxKeywordRank
             v == MaxWeight - weight
             si == store[pool[i]].similarity
             sj == store[pool[j]].similarity
             ki == store[pool[i]].keyword
             kj == store[pool[j]].keyword
  <1>1. /\ k \in Nat /\ v \in Nat /\ weight \in Nat /\ MaxScore \in Nat
        /\ si \in Int /\ sj \in Int /\ ki \in Nat /\ kj \in Nat
    BY KeywordRank, PoolShape, WeightAssumption, ScoresAssumption DEF StoreOK
  <1>2. si <= sj /\ ki <= kj
    OBVIOUS
  <1>3. /\ Blend(i) = IF k = 0 THEN v * si
                      ELSE v * si * k + weight * ki * MaxScore
        /\ Blend(j) = IF k = 0 THEN v * sj
                      ELSE v * sj * k + weight * kj * MaxScore
    BY DEF Blend
  <1> HIDE DEF k, v, si, sj, ki, kj
  <1>4. v * si \in Int /\ v * sj \in Int /\ v * si <= v * sj
    BY <1>1, <1>2, TimesGrows
  <1>5. weight * ki \in Int /\ weight * kj \in Int
        /\ weight * ki <= weight * kj
    BY <1>1, <1>2, TimesGrows
  <1> DEFINE a == v * si  b == v * sj  c == weight * ki  d == weight * kj
  <1>6. /\ a * k \in Int /\ b * k \in Int /\ a * k <= b * k
        /\ c * MaxScore \in Int /\ d * MaxScore \in Int
        /\ c * MaxScore <= d * MaxScore
    <2> HIDE DEF a, b, c, d
    <2>1. a \in Int /\ b \in Int /\ c \in Int /\ d \in Int /\ a <= b /\ c <= d
      BY <1>4, <1>5 DEF a, b, c, d
    <2>2. k * a <= k * b /\ MaxScore * c <= MaxScore * d
      BY <1>1, <2>1, TimesGrows
    <2> QED
      BY <1>1, <2>1, <2>2
  <1> QED
    BY <1>3, <1>4, <1>6

\* Whoever comes before the better of two comes before the worse.
LEMMA BeforeTransfers ==
    ASSUME NEW S \in SUBSET Int, IsFiniteSet(S), NEW key \in [S -> Int],
           NEW C \in SUBSET S, NEW i \in C, NEW j \in C,
           key[j] >= key[i], j < i, i \in Top(C, key), TopK \in Nat
    PROVE  j \in Top(C, key)
  <1> DEFINE P(n) == {m \in C : Before(key, m, n)}
  <1>1. P(j) \subseteq P(i)
    <2> SUFFICES ASSUME NEW m \in C, Before(key, m, j) PROVE Before(key, m, i)
      OBVIOUS
    <2>1. m \in Int /\ i \in Int /\ j \in Int
      OBVIOUS
    <2>2. key[m] \in Int /\ key[i] \in Int /\ key[j] \in Int
      OBVIOUS
    <2> QED
      BY <2>1, <2>2 DEF Before
  <1>2. IsFiniteSet(P(i))
    BY FS_Subset
  <1>3. /\ Cardinality(P(j)) <= Cardinality(P(i))
        /\ Cardinality(P(i)) \in Nat /\ Cardinality(P(j)) \in Nat
    BY <1>1, <1>2, FS_Subset, FS_CardinalityType
  <1>4. Cardinality(P(i)) < TopK
    BY DEF Top
  <1> QED
    BY <1>3, <1>4 DEF Top

\* The same for the order of the pool.
LEMMA PlaceTransfers ==
    ASSUME NEW C \in SUBSET Int, IsFiniteSet(C), NEW i \in C, NEW j \in C,
           j < i, TopK \in Nat, Cardinality({m \in C : m < i}) < TopK
    PROVE  Cardinality({m \in C : m < j}) < TopK
  <1> DEFINE P(n) == {m \in C : m < n}
  <1>1. P(j) \subseteq P(i)
    <2> SUFFICES ASSUME NEW m \in C, m < j PROVE m < i
      OBVIOUS
    <2>1. m \in Int /\ i \in Int /\ j \in Int
      OBVIOUS
    <2> QED
      BY <2>1
  <1> HIDE DEF P
  <1>2. P(i) \subseteq C
    BY DEF P
  <1>3. IsFiniteSet(P(i))
    BY <1>2, FS_Subset
  <1>4. /\ Cardinality(P(j)) <= Cardinality(P(i))
        /\ Cardinality(P(i)) \in Nat /\ Cardinality(P(j)) \in Nat
    BY <1>1, <1>3, FS_Subset, FS_CardinalityType
  <1> QED
    BY <1>4 DEF P

-----------------------------------------------------------------------------
(* The properties.                                                         *)

LEMMA InvGrounding == IInv => OnlyGrounding
  BY DEF IInv, OnlyGrounding, Done, Returned, Chosen, Top, Candidates

LEMMA InvInversion == IInv => NoInversion
  <1> SUFFICES ASSUME IInv, Done,
                      NEW c \in Stored \ Returned, NEW d \in Returned,
                      Eligible(c),
                      store[c].similarity > store[d].similarity,
                      weight = 0 \/ store[c].keyword >= store[d].keyword
               PROVE  FALSE
    BY DEF NoInversion
  <1>1. StoreOK /\ pool \in Pools /\ results = Chosen
    BY DEF IInv, Done
  <1>2. PICK i \in results : pool[i] = d
    BY DEF Returned
  <1>3. i \in Candidates /\ Candidates \subseteq DOMAIN pool
    BY <1>1, <1>2 DEF Chosen, Top, Candidates
  <1>4. PICK j \in DOMAIN pool : pool[j] = c
    BY <1>1, <1>2, <1>3, PoolShape
  <1>5. j \in Candidates
    BY <1>4 DEF Candidates
  <1>6. i \in Int /\ j \in Int /\ i # j
    BY <1>1, <1>2, <1>3, <1>4, PoolShape
  <1>7. j < i
    BY <1>1, <1>2, <1>3, <1>4, <1>6, PoolShape
  <1>8. Candidates \subseteq Int /\ IsFiniteSet(Candidates)
    BY <1>1, <1>3, PoolShape, FS_Subset
  <1>9. j \in results
    <2>1. CASE weight = 0
      BY <1>1, <1>2, <1>3, <1>5, <1>7, <1>8, <2>1, TopAssumption,
         PlaceTransfers DEF Chosen
    <2>2. CASE weight # 0
      <3> DEFINE key == [n \in DOMAIN pool |-> Blend(n)]
      <3>1. \A n \in DOMAIN pool : Blend(n) \in Int
        BY <1>1, BlendMonotone, PoolShape
      <3>2. key \in [DOMAIN pool -> Int]
        BY <3>1
      <3>3. key[j] >= key[i]
        BY <1>1, <1>2, <1>3, <1>4, <2>2, BlendMonotone, PoolShape
      <3>4. i \in Top(Candidates, key)
        BY <1>1, <1>2, <2>2 DEF Chosen
      <3>5. DOMAIN pool \in SUBSET Int /\ IsFiniteSet(DOMAIN pool)
        BY <1>1, PoolShape
      <3> HIDE DEF key
      <3>6. j \in Top(Candidates, key)
        BY <1>3, <1>5, <1>7, <3>2, <3>3, <3>4, <3>5, TopAssumption,
           BeforeTransfers
      <3> QED
        BY <1>1, <2>2, <3>6 DEF Chosen, key
    <2> QED
      BY <2>1, <2>2
  <1> QED
    BY <1>4, <1>9 DEF Returned

\* No chunk leaves retrieve that the caller may not see or that is below the
\* threshold, with or without keyword ranks and reranking.
THEOREM GroundingCorrect == Spec => []OnlyGrounding
  BY InvInit, InvNext, InvGrounding, PTL DEF Spec

\* retrieve never leaves out a chunk for a worse one.
THEOREM OrderCorrect == Spec => []NoInversion
  BY InvInit, InvNext, InvInversion, PTL DEF Spec

-----------------------------------------------------------------------------
(* How many are chosen.                                                    *)

\* A bounded quantity has a highest and a lowest value.
LEMMA Extremes ==
    ASSUME NEW D, D # {}, NEW N \in Nat, NEW f \in [D -> 0..N]
    PROVE  /\ \E y \in D : \A m \in D : f[y] <= f[m]
           /\ \E y \in D : \A m \in D : f[m] <= f[y]
  <1>1. ASSUME NEW g \in [D -> Nat]
        PROVE  \E y \in D : \A m \in D : g[y] <= g[m]
    <2> DEFINE T == {g[m] : m \in D}
    <2>1. T \subseteq Nat /\ T # {}
      OBVIOUS
    <2>2. PICK x \in T : \A y \in T : ~(<<y, x>> \in OpToRel(<, Nat))
      <3> HIDE DEF T
      <3> QED
        BY <2>1, NatLessThanWellFounded, WFMin
    <2>3. PICK y \in D : x = g[y]
      OBVIOUS
    <2>4. \A m \in D : g[y] <= g[m]
      <3> SUFFICES ASSUME NEW m \in D PROVE g[y] <= g[m]
        OBVIOUS
      <3>1. g[m] \in T /\ g[m] \in Nat /\ g[y] \in Nat
        OBVIOUS
      <3>2. ~(g[m] < g[y])
        BY <2>2, <2>3, <3>1 DEF OpToRel
      <3> HIDE DEF T
      <3> QED
        BY <3>1, <3>2
    <2> QED
      BY <2>4
  <1>2. \E y \in D : \A m \in D : f[y] <= f[m]
    BY <1>1
  <1>3. \E y \in D : \A m \in D : f[m] <= f[y]
    <2> DEFINE g == [m \in D |-> N - f[m]]
    <2>1. g \in [D -> Nat] /\ \A m \in D : g[m] = N - f[m]
      OBVIOUS
    <2> HIDE DEF g
    <2>2. PICK y \in D : \A m \in D : g[y] <= g[m]
      BY <1>1, <2>1
    <2>3. \A m \in D : f[m] <= f[y]
      <3> SUFFICES ASSUME NEW m \in D PROVE f[m] <= f[y]
        OBVIOUS
      <3>1. N - f[y] <= N - f[m] /\ f[m] \in 0..N /\ f[y] \in 0..N
        BY <2>1, <2>2
      <3> QED
        BY <3>1
    <2> QED
      BY <2>3
  <1> QED
    BY <1>2, <1>3

\* The places of C that come before i.
AheadOf(C, key, i) == {m \in C : Before(key, m, i)}

LEMMA BeforeOrder ==
    ASSUME NEW C \in SUBSET Int, NEW key, \A i \in C : key[i] \in Int,
           NEW i \in C, NEW j \in C, NEW m \in C
    PROVE  /\ ~Before(key, i, i)
           /\ Before(key, i, j) \/ Before(key, j, i) \/ i = j
           /\ Before(key, i, j) /\ Before(key, j, m) => Before(key, i, m)
  <1>1. i \in Int /\ j \in Int /\ m \in Int
    OBVIOUS
  <1>2. key[i] \in Int /\ key[j] \in Int /\ key[m] \in Int
    OBVIOUS
  <1> QED
    BY <1>1, <1>2 DEF Before

LEMMA Ranks ==
    ASSUME NEW C \in SUBSET Int, IsFiniteSet(C),
           NEW key, \A i \in C : key[i] \in Int
    PROVE  /\ Cardinality(C) \in Nat
           /\ \A i \in C : /\ AheadOf(C, key, i) \in SUBSET C
                           /\ IsFiniteSet(AheadOf(C, key, i))
                           /\ Cardinality(AheadOf(C, key, i)) \in 0..Cardinality(C)
           /\ \A i, j \in C : Before(key, i, j) =>
                Cardinality(AheadOf(C, key, i)) < Cardinality(AheadOf(C, key, j))
  <1>1. Cardinality(C) \in Nat
    BY FS_CardinalityType
  <1>2. ASSUME NEW i \in C
        PROVE  /\ AheadOf(C, key, i) \in SUBSET C
               /\ IsFiniteSet(AheadOf(C, key, i))
               /\ Cardinality(AheadOf(C, key, i)) \in 0..Cardinality(C)
    <2>1. AheadOf(C, key, i) \in SUBSET C
      BY DEF AheadOf
    <2>2. /\ IsFiniteSet(AheadOf(C, key, i))
          /\ Cardinality(AheadOf(C, key, i)) <= Cardinality(C)
      BY <2>1, FS_Subset
    <2>3. Cardinality(AheadOf(C, key, i)) \in Nat
      BY <2>2, FS_CardinalityType
    <2> QED
      BY <1>1, <2>1, <2>2, <2>3
  <1>3. ASSUME NEW i \in C, NEW j \in C, Before(key, i, j)
        PROVE  Cardinality(AheadOf(C, key, i)) < Cardinality(AheadOf(C, key, j))
    <2> DEFINE A == AheadOf(C, key, i)
               B == AheadOf(C, key, j)
    <2>1. A \subseteq B /\ i \in B /\ i \notin A
      BY <1>3, BeforeOrder DEF AheadOf
    <2>2. /\ IsFiniteSet(B) /\ Cardinality(B) \in 0..Cardinality(C)
          /\ Cardinality(A) \in 0..Cardinality(C)
      BY <1>2
    <2> HIDE DEF A, B
    <2>3. A \in SUBSET B
      BY <2>1
    <2>4. Cardinality(A) <= Cardinality(B) /\ Cardinality(A) # Cardinality(B)
      BY <2>1, <2>2, <2>3, FS_Subset
    <2>5. Cardinality(A) < Cardinality(B)
      BY <1>1, <2>2, <2>4
    <2> QED
      BY <2>5 DEF A, B
  <1> QED
    BY <1>1, <1>2, <1>3

\* Every choice of places has a last one, and a first.
LEMMA LastOf ==
    ASSUME NEW C \in SUBSET Int, IsFiniteSet(C),
           NEW key, \A i \in C : key[i] \in Int, NEW D \in SUBSET C, D # {}
    PROVE  /\ \E y \in D : \A m \in D \ {y} : Before(key, m, y)
           /\ \E y \in D : \A m \in D \ {y} : Before(key, y, m)
  <1> DEFINE f == [i \in D |-> Cardinality(AheadOf(C, key, i))]
             N == Cardinality(C)
  <1>1. N \in Nat /\ f \in [D -> 0..N]
    BY Ranks
  <1>2. \A i, j \in D : Before(key, i, j) => f[i] < f[j]
    BY Ranks
  <1> HIDE DEF f, N
  <1>3. PICK y \in D : \A m \in D : f[m] <= f[y]
    BY <1>1, Extremes
  <1>4. \A m \in D \ {y} : Before(key, m, y)
    <2> SUFFICES ASSUME NEW m \in D \ {y}, ~Before(key, m, y) PROVE FALSE
      OBVIOUS
    <2>1. Before(key, y, m)
      BY BeforeOrder
    <2>2. f[y] < f[m] /\ f[m] <= f[y] /\ f[m] \in 0..N /\ f[y] \in 0..N
      BY <1>1, <1>2, <1>3, <2>1
    <2> QED
      BY <1>1, <2>2
  <1>5. PICK z \in D : \A m \in D : f[z] <= f[m]
    BY <1>1, Extremes
  <1>6. \A m \in D \ {z} : Before(key, z, m)
    <2> SUFFICES ASSUME NEW m \in D \ {z}, ~Before(key, z, m) PROVE FALSE
      OBVIOUS
    <2>1. Before(key, m, z)
      BY BeforeOrder
    <2>2. f[m] < f[z] /\ f[z] <= f[m] /\ f[m] \in 0..N /\ f[z] \in 0..N
      BY <1>1, <1>2, <1>5, <2>1
    <2> QED
      BY <1>1, <2>2
  <1> QED
    BY <1>4, <1>6

\* Top takes TopK places, or all if there are no more.
LEMMA TopSize ==
    ASSUME NEW C \in SUBSET Int, IsFiniteSet(C),
           NEW key, \A i \in C : key[i] \in Int
    PROVE  /\ Top(C, key) \in SUBSET C
           /\ \/ Cardinality(Top(C, key)) = TopK
              \/ Top(C, key) = C /\ Cardinality(C) <= TopK
  <1> DEFINE R(i) == Cardinality(AheadOf(C, key, i))
             T == Top(C, key)
             N == Cardinality(C)
  <1>1. T = {i \in C : R(i) < TopK}
    BY DEF Top, AheadOf
  <1>2. /\ N \in Nat /\ TopK \in Nat
        /\ \A i \in C : /\ R(i) \in 0..N
                        /\ AheadOf(C, key, i) \in SUBSET C
                        /\ IsFiniteSet(AheadOf(C, key, i))
        /\ \A i, j \in C : Before(key, i, j) => R(i) < R(j)
    BY Ranks, TopAssumption
  \* The last of D has rank one less than D has places, if D is closed.
  <1>3. ASSUME NEW D \in SUBSET C, D # {},
               \A i \in D, m \in C : Before(key, m, i) => m \in D
        PROVE  \E y \in D : R(y) = Cardinality(D) - 1
    <2>1. PICK y \in D : \A m \in D \ {y} : Before(key, m, y)
      BY <1>3, LastOf
    <2>2. AheadOf(C, key, y) = D \ {y}
      BY <1>3, <2>1, BeforeOrder DEF AheadOf
    <2>3. IsFiniteSet(D)
      BY FS_Subset
    <2>4. Cardinality(D \ {y}) = Cardinality(D) - 1
      BY <2>3, FS_RemoveElement
    <2> QED
      BY <2>2, <2>4
  <1> HIDE DEF R, T, N
  <1>4. CASE T = C
    <2>1. CASE C = {}
      <3>1. Cardinality(C) = 0
        BY <2>1, FS_EmptySet
      <3> QED
        BY <1>2, <1>4, <3>1 DEF T
    <2>2. CASE C # {}
      <3>1. PICK y \in C : R(y) = Cardinality(C) - 1
        BY <1>3, <2>2
      <3>2. R(y) < TopK /\ R(y) \in 0..N
        BY <1>1, <1>2, <1>4
      <3>3. Cardinality(C) <= TopK
        BY <1>2, <3>1, <3>2 DEF N
      <3> QED
        BY <1>4, <3>3 DEF T
    <2> QED
      BY <2>1, <2>2
  <1>5. CASE T # C
    <2> DEFINE D == C \ T
    <2>1. D \in SUBSET C /\ D # {}
      BY <1>1, <1>5
    <2> HIDE DEF D
    <2>2. PICK x \in D : \A m \in D \ {x} : Before(key, x, m)
      BY <2>1, LastOf
    <2>3. x \in C /\ x \notin T /\ R(x) \in 0..N /\ ~(R(x) < TopK)
      BY <1>1, <1>2, <2>1, <2>2 DEF D
    <2>4. AheadOf(C, key, x) = T
      <3>1. ASSUME NEW m \in C, Before(key, m, x)
            PROVE  m \in T
        <4>1. CASE m \in D
          <5>1. m # x
            BY <2>3, <3>1, BeforeOrder
          <5>2. Before(key, x, m)
            BY <2>2, <4>1, <5>1
          <5> QED
            BY <2>3, <3>1, <5>2, BeforeOrder
        <4> QED
          BY <4>1 DEF D
      <3>2. ASSUME NEW m \in T
            PROVE  Before(key, m, x)
        <4>1. m \in C /\ R(m) < TopK /\ R(m) \in 0..N /\ m # x
          BY <1>1, <1>2, <2>3, <3>2
        <4>2. ~Before(key, x, m)
          <5> SUFFICES ASSUME Before(key, x, m) PROVE FALSE
            OBVIOUS
          <5>1. R(x) < R(m)
            BY <1>2, <2>3, <4>1
          <5> QED
            BY <1>2, <2>3, <4>1, <5>1
        <4> QED
          BY <2>3, <4>1, <4>2, BeforeOrder
      <3> QED
        BY <1>1, <3>1, <3>2 DEF AheadOf
    <2>5. R(x) = Cardinality(T)
      BY <2>4 DEF R
    <2>6. Cardinality(T) = TopK
      <3> SUFFICES ASSUME Cardinality(T) # TopK PROVE FALSE
        OBVIOUS
      <3>1. Cardinality(T) \in Nat /\ Cardinality(T) > TopK
        BY <1>2, <2>3, <2>5
      <3>2. T # {}
        BY <1>2, <3>1, FS_EmptySet
      <3>3. T \in SUBSET C
        BY <1>1
      <3>4. \A i \in T, m \in C : Before(key, m, i) => m \in T
        <4> SUFFICES ASSUME NEW i \in T, NEW m \in C, Before(key, m, i)
                     PROVE  m \in T
          OBVIOUS
        <4>1. Before(key, i, x) /\ i \in C
          BY <2>4, <3>3 DEF AheadOf
        <4>2. Before(key, m, x)
          BY <2>3, <4>1, BeforeOrder
        <4> QED
          BY <2>4, <4>2 DEF AheadOf
      <3>5. PICK y \in T : R(y) = Cardinality(T) - 1
        BY <1>3, <3>2, <3>3, <3>4
      <3>6. R(y) < TopK /\ R(y) \in 0..N
        BY <1>1, <1>2, <3>3
      <3> QED
        BY <1>2, <3>1, <3>5, <3>6
    <2> QED
      BY <1>1, <2>6 DEF T
  <1> QED
    BY <1>4, <1>5

-----------------------------------------------------------------------------
(* What the searches choose.                                               *)

\* The order of the pool is that of equal keys.
Keys == IF weight = 0 THEN [i \in DOMAIN pool |-> 0]
        ELSE [i \in DOMAIN pool |-> Blend(i)]

LEMMA ChosenTop ==
    ASSUME StoreOK, pool \in Pools
    PROVE  /\ Candidates \in SUBSET (DOMAIN pool)
           /\ Candidates \in SUBSET Int /\ IsFiniteSet(Candidates)
           /\ \A i \in DOMAIN pool : Keys[i] \in Int
           /\ Chosen = Top(Candidates, Keys)
  <1>1. /\ Candidates \in SUBSET (DOMAIN pool)
        /\ DOMAIN pool \subseteq Int /\ IsFiniteSet(DOMAIN pool)
    BY PoolShape DEF Candidates
  <1>2. IsFiniteSet(Candidates)
    BY <1>1, FS_Subset
  <1>3. \A i \in DOMAIN pool : Blend(i) \in Int
    BY BlendMonotone, PoolShape
  <1>4. CASE weight = 0
    <2>1. Keys = [i \in DOMAIN pool |-> 0]
      BY <1>4 DEF Keys
    <2>2. \A i, j \in Candidates : Before(Keys, j, i) <=> j < i
      BY <1>1, <2>1 DEF Before
    <2>3. \A i \in Candidates : {j \in Candidates : j < i}
                                = {j \in Candidates : Before(Keys, j, i)}
      BY <2>2
    <2>4. Chosen = Top(Candidates, Keys)
      BY <1>4, <2>3 DEF Chosen, Top
    <2> QED
      BY <1>1, <1>2, <2>1, <2>4
  <1>5. CASE weight # 0
    BY <1>1, <1>2, <1>3, <1>5 DEF Chosen, Keys
  <1> QED
    BY <1>4, <1>5

LEMMA ChosenSize ==
    ASSUME StoreOK, pool \in Pools
    PROVE  /\ Chosen \in SUBSET Candidates
           /\ \/ Cardinality(Chosen) = TopK
              \/ Chosen = Candidates /\ Cardinality(Candidates) <= TopK
  <1>1. \A i \in Candidates : Keys[i] \in Int
    BY ChosenTop
  <1> QED
    BY <1>1, ChosenTop, TopSize

\* Different places hold different chunks.
LEMMA ImageSize ==
    ASSUME StoreOK, pool \in Pools, NEW R \in SUBSET (DOMAIN pool)
    PROVE  /\ IsFiniteSet({pool[i] : i \in R})
           /\ Cardinality({pool[i] : i \in R}) = Cardinality(R)
  <1> DEFINE T == {pool[i] : i \in R}
             f == [i \in R |-> pool[i]]
  <1>1. IsFiniteSet(R)
    BY PoolShape, FS_Subset
  <1>2. \A i, j \in DOMAIN pool : pool[i] = pool[j] => i = j
    BY DEF Pools, Windows, IsInjective
  <1>3. f \in [R -> T] /\ \A i \in R : f[i] = pool[i]
    OBVIOUS
  <1>4. f \in Injection(R, T)
    BY <1>2, <1>3 DEF Injection, IsInjective
  <1>5. f \in Surjection(R, T)
    BY <1>3 DEF Surjection
  <1>6. ExistsBijection(R, T)
    BY <1>4, <1>5 DEF ExistsBijection, Bijection
  <1> HIDE DEF T
  <1>7. IsFiniteSet(T) /\ Cardinality(T) = Cardinality(R)
    BY <1>1, <1>6, FS_Bijection
  <1> QED
    BY <1>7 DEF T

\* A chunk is outside the pool only if the pool is full.
LEMMA PoolFull ==
    ASSUME StoreOK, pool \in Pools, NEW c \in Stored,
           \A i \in DOMAIN pool : pool[i] # c
    PROVE  Cardinality(DOMAIN pool) = PoolSize
  <1>1. PICK S \in SUBSET Chunks : store \in [S -> Row]
    BY DEF StoreOK
  <1>2. IsFiniteSet(Stored)
    BY <1>1, ChunksAssumption, FS_Subset DEF Stored
  <1>3. Cardinality(Stored) \in Nat /\ PoolSize \in Nat
    BY <1>2, FS_CardinalityType, TopAssumption DEF PoolSize
  <1> DEFINE n == IF Cardinality(Stored) < PoolSize
                  THEN Cardinality(Stored) ELSE PoolSize
  <1>4. DOMAIN pool = 1..n
    BY DEF Pools, Windows, Stored
  <1>5. n \in Nat /\ Cardinality(1..n) = n
    <2>1. n \in Nat
      BY <1>3
    <2> HIDE DEF n
    <2>2. Cardinality(1..n) = IF 1 > n THEN 0 ELSE n - 1 + 1
      BY <2>1, FS_Interval
    <2> QED
      BY <2>1, <2>2
  <1>6. n # Cardinality(Stored) \/ n = PoolSize
    <2> SUFFICES ASSUME n = Cardinality(Stored) PROVE FALSE
      OBVIOUS
    <2> DEFINE T == {pool[i] : i \in DOMAIN pool}
    <2>1. Cardinality(T) = Cardinality(DOMAIN pool)
      BY ImageSize
    <2>2. T \in SUBSET Stored /\ c \notin T
      BY PoolShape
    <2> HIDE DEF T, n
    <2>3. Cardinality(T) = Cardinality(Stored)
      BY <1>4, <1>5, <2>1
    <2>4. T = Stored
      BY <1>2, <2>2, <2>3, FS_Subset
    <2> QED
      BY <2>2, <2>4
  <1>7. n = PoolSize
    BY <1>3, <1>6
  <1> HIDE DEF n
  <1> QED
    BY <1>4, <1>5, <1>7

\* Hidden chunks that are no farther from the query than c.
HiddenBefore(c) == {h \in Hidden : store[h].similarity >= store[c].similarity}

\* A chunk the caller may see is missing from a short list only if the hidden
\* chunks that are no farther away fill the places of the pool that are left.
Shortfall ==
    \A c \in Stored : Eligible(c) /\ c \notin Returned =>
        \/ Cardinality(Returned) = TopK
        \/ Cardinality(Returned) + Cardinality(HiddenBefore(c)) >= PoolSize

LEMMA HiddenFinite ==
    ASSUME StoreOK
    PROVE  IsFiniteSet(Hidden) /\ Cardinality(Hidden) \in Nat
  <1>1. PICK S \in SUBSET Chunks : store \in [S -> Row]
    BY DEF StoreOK
  <1>2. Hidden \in SUBSET Chunks
    BY <1>1 DEF Hidden, Stored
  <1> QED
    BY <1>2, ChunksAssumption, FS_Subset, FS_CardinalityType

LEMMA InvShort == IInv /\ Done => Shortfall
  <1> SUFFICES ASSUME IInv, Done, Cardinality(Returned) # TopK,
                      NEW c \in Stored, Eligible(c), c \notin Returned
               PROVE  Cardinality(Returned) + Cardinality(HiddenBefore(c))
                        >= PoolSize
    BY DEF Shortfall
  <1>1. StoreOK /\ pool \in Pools /\ results = Chosen
    BY DEF IInv, Done
  <1>2. /\ Candidates \in SUBSET (DOMAIN pool) /\ IsFiniteSet(Candidates)
        /\ results \in SUBSET Candidates
        /\ \/ Cardinality(results) = TopK
           \/ results = Candidates /\ Cardinality(Candidates) <= TopK
    BY <1>1, ChosenTop, ChosenSize
  <1>3. Cardinality(Returned) = Cardinality(results)
    BY <1>1, <1>2, ImageSize DEF Returned
  <1>4. results = Candidates /\ Cardinality(Candidates) <= TopK
    BY <1>2, <1>3
  <1>5. \A i \in DOMAIN pool : pool[i] # c
    BY <1>4 DEF Candidates, Returned
  <1>6. Cardinality(DOMAIN pool) = PoolSize
    BY <1>1, <1>5, PoolFull
  \* What the pool holds beside the candidates is hidden from the caller.
  <1> DEFINE H == DOMAIN pool \ Candidates
             T == {pool[i] : i \in H}
  <1>7. T \in SUBSET HiddenBefore(c)
    <2> SUFFICES ASSUME NEW i \in H PROVE pool[i] \in HiddenBefore(c)
      OBVIOUS
    <2>1. /\ pool[i] \in Stored /\ store[pool[i]].similarity \in Int
          /\ store[c].similarity \in Int
          /\ store[pool[i]].similarity >= store[c].similarity
      BY <1>1, <1>5, PoolShape
    <2>2. store[c].similarity >= Threshold /\ Threshold \in Int
      BY ScoresAssumption DEF Eligible
    <2>3. store[pool[i]].similarity >= Threshold
      BY <2>1, <2>2
    <2>4. ~Eligible(pool[i])
      BY DEF Candidates
    <2> QED
      BY <2>1, <2>3, <2>4 DEF HiddenBefore, Hidden, Eligible
  <1>8. IsFiniteSet(HiddenBefore(c))
    BY <1>1, HiddenFinite, FS_Subset DEF HiddenBefore
  <1>9. Cardinality(T) = Cardinality(H) /\ H \in SUBSET (DOMAIN pool)
    BY <1>1, ImageSize
  <1>10. IsFiniteSet(DOMAIN pool)
    BY <1>1, PoolShape
  <1> HIDE DEF T
  <1>11. /\ Cardinality(T) <= Cardinality(HiddenBefore(c)) /\ IsFiniteSet(T)
         /\ Cardinality(T) \in Nat /\ Cardinality(HiddenBefore(c)) \in Nat
    BY <1>7, <1>8, FS_Subset, FS_CardinalityType
  <1>12. Cardinality(H) = Cardinality(DOMAIN pool) - Cardinality(Candidates)
    <2>1. (DOMAIN pool) \cap Candidates = Candidates
      BY <1>2
    <2> QED
      BY <1>10, <2>1, FS_Difference
  <1>13. /\ Cardinality(Candidates) \in Nat /\ PoolSize \in Nat /\ TopK \in Nat
    BY <1>2, FS_CardinalityType, TopAssumption DEF PoolSize
  <1> HIDE DEF H
  <1>14. Cardinality(Candidates) + Cardinality(HiddenBefore(c)) >= PoolSize
    BY <1>6, <1>9, <1>11, <1>12, <1>13
  <1> QED
    BY <1>3, <1>4, <1>14

LEMMA InvFull == IInv => FullUnlessStarved
  <1> SUFFICES ASSUME IInv, Done, Cardinality(Hidden) + TopK <= PoolSize,
                      Cardinality(Returned) # TopK,
                      NEW c \in Stored, Eligible(c), c \notin Returned
               PROVE  FALSE
    BY DEF FullUnlessStarved
  <1>1. StoreOK /\ pool \in Pools /\ results = Chosen
    BY DEF IInv, Done
  <1>2. Cardinality(Returned) + Cardinality(HiddenBefore(c)) >= PoolSize
    BY InvShort DEF Shortfall
  <1>3. /\ Cardinality(HiddenBefore(c)) <= Cardinality(Hidden)
        /\ Cardinality(HiddenBefore(c)) \in Nat /\ Cardinality(Hidden) \in Nat
    <2>1. HiddenBefore(c) \in SUBSET Hidden
      BY DEF HiddenBefore
    <2> QED
      BY <1>1, <2>1, HiddenFinite, FS_Subset, FS_CardinalityType
  <1>4. Cardinality(Returned) \in Nat /\ Cardinality(Returned) <= TopK
    <2>1. results \in SUBSET (DOMAIN pool) /\ IsFiniteSet(Candidates)
          /\ \/ Cardinality(results) = TopK
             \/ results = Candidates /\ Cardinality(Candidates) <= TopK
      BY <1>1, ChosenTop, ChosenSize
    <2>2. Cardinality(Returned) = Cardinality(results)
      BY <1>1, <2>1, ImageSize DEF Returned
    <2> QED
      BY <2>1, <2>2, FS_CardinalityType, TopAssumption
  <1>5. PoolSize \in Nat /\ TopK \in Nat
    BY TopAssumption DEF PoolSize
  <1> QED
    BY <1>2, <1>3, <1>4, <1>5

-----------------------------------------------------------------------------
(* Types, and the similarities the results carry.                          *)

Similarities == [i \in DOMAIN pool |-> store[pool[i]].similarity]

Carried ==
    /\ pc = "embed" => pool = <<>>
    /\ pc \in {"embed", "rank"} => results = {} /\ score = <<>>
    /\ pc = "rerank" => reranking
    /\ pc = "rerank" \/ (pc = "done" /\ ~reranking) => score = Similarities

Full == IInv /\ TypeOK /\ Carried

LEMMA PoolsType ==
    ASSUME StoreOK, NEW p \in Pools
    PROVE  p \in Seq(Stored) /\ Len(p) <= PoolSize
  <1>1. PICK S \in SUBSET Chunks : store \in [S -> Row]
    BY DEF StoreOK
  <1>2. IsFiniteSet(Stored)
    BY <1>1, ChunksAssumption, FS_Subset DEF Stored
  <1>3. Cardinality(Stored) \in Nat /\ PoolSize \in Nat
    BY <1>2, FS_CardinalityType, TopAssumption DEF PoolSize
  <1>4. PICK n \in Nat : n <= PoolSize /\ p \in [1..n -> Stored]
    BY <1>3 DEF Pools, Windows, Stored
  <1> QED
    BY <1>4

LEMMA ScoresType ==
    ASSUME StoreOK, pool \in Pools
    PROVE  /\ Similarities \in [DOMAIN pool -> (-MaxScore)..MaxScore]
           /\ pool \in Seq(Stored) /\ Len(pool) <= PoolSize
           /\ Chosen \subseteq DOMAIN pool /\ Cardinality(Chosen) <= TopK
  <1>1. PICK S \in SUBSET Chunks : store \in [S -> Row]
    BY DEF StoreOK
  <1>2. \A c \in Stored : store[c].similarity \in (-MaxScore)..MaxScore
    <2> SUFFICES ASSUME NEW c \in S
                 PROVE  store[c].similarity \in (-MaxScore)..MaxScore
      BY <1>1 DEF Stored
    <2>1. store[c].similarity \in Scores
      BY <1>1 DEF Row
    <2> QED
      BY <2>1, ScoresAssumption
  <1>3. Similarities \in [DOMAIN pool -> (-MaxScore)..MaxScore]
    BY <1>2, PoolShape DEF Similarities
  <1>6. pool \in Seq(Stored) /\ Len(pool) <= PoolSize
    BY PoolsType
  <1>7. Chosen \subseteq DOMAIN pool /\ Cardinality(Chosen) <= TopK
    BY ChosenSize, ChosenTop, TopAssumption
  <1> QED
    BY <1>3, <1>6, <1>7

LEMMA FullInit == Init => Full
  <1> SUFFICES ASSUME Init PROVE Full
    OBVIOUS
  <1>1. Carried
    BY DEF Init, Carried
  <1>2. TypeOK
    <2>1. PoolSize \in Nat /\ TopK \in Nat
      BY TopAssumption DEF PoolSize
    <2>2. pool = <<>> /\ pool \in Seq(Stored) /\ Len(pool) = 0
      BY DEF Init
    <2>3. results \subseteq DOMAIN pool /\ Cardinality(results) = 0
      BY FS_EmptySet DEF Init
    <2>4. score = <<>>
      BY DEF Init
    <2> QED
      BY <2>1, <2>2, <2>3, <2>4 DEF Init, TypeOK
  <1> QED
    BY <1>1, <1>2, InvInit DEF Full

LEMMA FullNext == Full /\ [Next]_vars => Full'
  <1> SUFFICES ASSUME Full, [Next]_vars PROVE Full'
    OBVIOUS
  <1>1. IInv' /\ IInv
    BY InvNext DEF Full
  <1>2. CASE Select
    <2>1. /\ pc = "embed" /\ pc' = "rank" /\ UNCHANGED <<given, results, score>>
          /\ results = {} /\ score = <<>>
      BY <1>2 DEF Select, Full, Carried
    <2>2. StoreOK /\ pool' \in Pools /\ Stored' = Stored
      BY <1>1, <1>2, <2>1 DEF IInv, Select, given, Stored
    <2>3. pool' \in Seq(Stored') /\ Len(pool') <= PoolSize
      BY <2>2, PoolsType
    <2>4. Cardinality(results) = 0 /\ TopK \in Nat
      BY <2>1, FS_EmptySet, TopAssumption
    <2>5. TypeOK'
      BY <2>1, <2>3, <2>4 DEF Full, TypeOK, given
    <2>6. Carried'
      BY <2>1 DEF Carried
    <2> QED
      BY <1>1, <2>5, <2>6 DEF Full
  <1>3. CASE Raise
    <2>1. pc' = "raised" /\ UNCHANGED <<given, pool, results, score>>
      BY <1>3 DEF Raise
    <2>2. TypeOK' /\ Carried'
      BY <2>1 DEF Full, TypeOK, Carried, given, Stored
    <2> QED
      BY <1>1, <2>2 DEF Full
  <1>4. CASE SimilaritySearch \/ HybridSearch
    <2>1. /\ pc = "rank" /\ pc' = IF reranking THEN "rerank" ELSE "done"
          /\ UNCHANGED <<given, pool>>
          /\ score' = Similarities
      BY <1>4 DEF SimilaritySearch, HybridSearch, Rank, Similarities
    <2>2. Similarities' = Similarities /\ reranking' = reranking
      BY <2>1 DEF Similarities, given
    <2>3. /\ StoreOK /\ pool \in Pools
          /\ results' = Chosen' /\ Chosen' = Chosen
      BY <1>1, <2>1, Frame DEF IInv
    <2>4. /\ Similarities \in [DOMAIN pool -> (-MaxScore)..MaxScore]
          /\ Chosen \subseteq DOMAIN pool /\ Cardinality(Chosen) <= TopK
      BY <2>3, ScoresType
    <2>5. TypeOK'
      BY <2>1, <2>3, <2>4 DEF Full, TypeOK, given, Stored
    <2>6. Carried'
      BY <2>1, <2>2, <2>5 DEF Carried, TypeOK
    <2> QED
      BY <1>1, <2>5, <2>6 DEF Full
  <1>5. CASE Rerank
    <2>1. /\ pc = "rerank" /\ pc' = "done"
          /\ UNCHANGED <<given, pool, results>>
          /\ reranking /\ reranking' = reranking
          /\ StoreOK /\ pool \in Pools /\ score = Similarities
      BY <1>5 DEF Rerank, Full, Carried, IInv, given
    <2>2. PICK new \in [results -> (-MaxScore)..MaxScore] :
            score' = [i \in DOMAIN pool |-> IF i \in results THEN new[i]
                                                             ELSE score[i]]
      BY <1>5 DEF Rerank
    <2>3. score \in [DOMAIN pool -> (-MaxScore)..MaxScore]
      BY <2>1, ScoresType
    <2>4. score' \in [DOMAIN pool -> (-MaxScore)..MaxScore]
      BY <2>2, <2>3
    <2>5. TypeOK'
      BY <2>1, <2>4 DEF Full, TypeOK, given, Stored
    <2>6. Carried'
      BY <2>1 DEF Carried
    <2> QED
      BY <1>1, <2>5, <2>6 DEF Full
  <1>6. CASE UNCHANGED vars
    BY <1>1, <1>6 DEF Full, TypeOK, Carried, Similarities, vars, given, Stored
  <1> QED
    BY <1>2, <1>3, <1>4, <1>5, <1>6 DEF Next

LEMMA FullConfidence == Full => ConfidenceHonest
  <1> SUFFICES ASSUME Full, Done, Grounded, ~reranking
               PROVE  /\ Confidence >= Threshold
                      /\ \E c \in Returned : Confidence <= store[c].similarity
    BY DEF ConfidenceHonest
  <1>1. /\ StoreOK /\ pool \in Pools /\ results = Chosen
        /\ score = Similarities /\ results # {}
    BY DEF Full, IInv, Carried, Done, Grounded
  <1>2. results \in SUBSET Candidates /\ Candidates \in SUBSET (DOMAIN pool)
        /\ Candidates \in SUBSET Int /\ IsFiniteSet(Candidates)
        /\ \A i \in DOMAIN pool : Order[i] \in Int
    <2>1. \A i \in DOMAIN pool : Blend(i) \in Int
      BY <1>1, BlendMonotone, PoolShape
    <2> QED
      BY <1>1, <2>1, ChosenSize, ChosenTop DEF Order
  <1> DEFINE i == First(results, Order)
  <1>3. i \in results
    <2>1. \E y \in results : \A m \in results \ {y} : Before(Order, y, m)
      BY <1>1, <1>2, LastOf
    <2> QED
      BY <2>1 DEF First
  <1>4. Confidence = store[pool[i]].similarity
    BY <1>1, <1>2, <1>3 DEF Confidence, Grounded, Similarities
  <1>5. i \in DOMAIN pool /\ Eligible(pool[i]) /\ pool[i] \in Returned
    BY <1>2, <1>3 DEF Candidates, Returned
  <1>6. store[pool[i]].similarity \in Int /\ Threshold \in Int
    BY <1>1, <1>5, PoolShape, ScoresAssumption
  <1> QED
    BY <1>4, <1>5, <1>6 DEF Eligible

\* Every variable stays in its type; the pool and the results keep the limits
\* the two searches are called with.
THEOREM TypeCorrect == Spec => []TypeOK
  <1>1. Full => TypeOK
    BY DEF Full
  <1> QED
    BY <1>1, FullInit, FullNext, PTL DEF Spec

\* retrieve returns TopK chunks, or all the caller may be answered from, unless
\* the chunks hidden from the caller are more than the pool has to spare.
THEOREM FullCorrect == Spec => []FullUnlessStarved
  BY InvInit, InvNext, InvFull, PTL DEF Spec

\* Each place missing from a short list is one a nearer chunk hidden from the
\* caller takes in the pool: a restricted chunk costs one result at most, and
\* none that is nearer than itself.
THEOREM HiddenCost == Spec => [](Done => Shortfall)
  BY InvInit, InvNext, InvShort, PTL DEF Spec

\* A caller from whom nothing near enough is hidden is never starved.
THEOREM OpenCorrect == Spec => [](Hidden = {} => NotStarved)
  <1>1. IInv => (Hidden = {} => NotStarved)
    <2> SUFFICES ASSUME IInv, Done, Hidden = {}, Cardinality(Returned) # TopK
                 PROVE  {c \in Stored : Eligible(c)} \subseteq Returned
      BY DEF NotStarved
    <2>1. Cardinality(Hidden) = 0
      BY FS_EmptySet
    <2>2. TopK <= PoolSize /\ TopK \in Nat /\ PoolSize \in Nat
      <3>1. CASE Multiplier = 0
        BY <3>1, TopAssumption DEF PoolSize
      <3>2. CASE Multiplier # 0
        <4>1. \A m, k \in Nat : m # 0 => k <= k * m
          OBVIOUS
        <4> QED
          BY <3>2, <4>1, TopAssumption DEF PoolSize
      <3> QED
        BY <3>1, <3>2
    <2> QED
      BY <2>1, <2>2, InvFull DEF FullUnlessStarved
  <1> QED
    BY <1>1, InvInit, InvNext, PTL DEF Spec

\* Without reranking the confidence the answer reports is that of a chunk it is
\* grounded on.
THEOREM ConfidenceCorrect == Spec => []ConfidenceHonest
  BY FullInit, FullNext, FullConfidence, PTL DEF Spec

=============================================================================
