--------------------------- MODULE KVLadderFacts ----------------------------
(***************************************************************************)
(* What derive_swapout_plan promises, for every number of layers, chunks,  *)
(* balance and ratio; then facts about one state of KVLadder: the sizes of *)
(* the regions and of the chunks the cursors have passed, what             *)
(* allocate_chunks plans, what initialize_layer_sync counts; and that the  *)
(* steps of swapout_impl preserve the invariant IInv and the invariant     *)
(* DataInv of the bytes behind the bookkeeping.                            *)
(***************************************************************************)
EXTENDS KVLadderInv, TLAPS

\* The time the provers get for a leaf.
USE SMTT(15), ZenonT(20)

\* IInv under a name of its own.  The step lemmas are stated with it: a proof
\* that expands IInv then leaves the lemmas it has at hand as they are.
Consistent == IInv

-----------------------------------------------------------------------------
(* What the proofs use about the sizes of finite sets.  KVLadderProofs     *)
(* proves these laws from the library before its first theorem; until then *)
(* they are an assumption of the lemmas that need them, so that the other  *)
(* proofs do not carry the library along.                                  *)

IntervalLaw ==
    \A a, b \in Int :
        IsFiniteSet(a .. b) /\ Cardinality(a .. b) = IF a > b THEN 0 ELSE b - a + 1

NumberLaw == \A S : IsFiniteSet(S) => Cardinality(S) \in Nat

EmptyLaw ==
    /\ IsFiniteSet({}) /\ Cardinality({}) = 0
    /\ \A S : IsFiniteSet(S) => (Cardinality(S) = 0 <=> S = {})

ElementLaw ==
    \A S, x : IsFiniteSet(S) =>
        /\ IsFiniteSet(S \cup {x}) /\ IsFiniteSet(S \ {x})
        /\ Cardinality(S \cup {x}) = IF x \in S THEN Cardinality(S) ELSE Cardinality(S) + 1
        /\ Cardinality(S \ {x}) = IF x \in S THEN Cardinality(S) - 1 ELSE Cardinality(S)

SubsetLaw ==
    \A S : IsFiniteSet(S) => \A T \in SUBSET S :
        /\ IsFiniteSet(T) /\ Cardinality(T) <= Cardinality(S)
        /\ Cardinality(S) = Cardinality(T) => S = T

UnionLaw ==
    \A S, T : IsFiniteSet(S) /\ IsFiniteSet(T) =>
        /\ IsFiniteSet(S \cup T)
        /\ Cardinality(S \cup T) = Cardinality(S) + Cardinality(T) - Cardinality(S \cap T)

ProductLaw ==
    \A S, T : IsFiniteSet(S) /\ IsFiniteSet(T) =>
        IsFiniteSet(S \X T) /\ Cardinality(S \X T) = Cardinality(S) * Cardinality(T)

\* f maps no two members of S to the same value.
OneToOne(f, S) == \A x, y \in S : f[x] = f[y] => x = y

MappingLaw ==
    \A S, T : \A f \in [S -> T] : OneToOne(f, S) =>
        /\ IsFiniteSet(T) => IsFiniteSet(S) /\ Cardinality(S) <= Cardinality(T)
        /\ IsFiniteSet(S) /\ (\A y \in T : \E x \in S : f[x] = y) => Cardinality(T) = Cardinality(S)

SizeLaws ==
    /\ IntervalLaw /\ NumberLaw /\ EmptyLaw /\ ElementLaw
    /\ SubsetLaw /\ UnionLaw /\ ProductLaw /\ MappingLaw

-----------------------------------------------------------------------------
(* The plan.                                                               *)

\* Division rounds down.
LEMMA DivFacts ==
    ASSUME NEW a \in Nat, NEW d \in Nat \ {0}
    PROVE  /\ a \div d \in Nat
           /\ d * (a \div d) <= a
           /\ a < d * (a \div d) + d
           /\ (a % d) \in 0 .. d - 1
           /\ a = (a \div d) * d + (a % d)
  BY SMT

\* Products of naturals respect the order.
LEMMA ProductOrder ==
    ASSUME NEW a \in Nat, NEW b \in Nat, NEW c \in Nat, a <= b
    PROVE  /\ c * a <= c * b
           /\ a * c <= b * c
           /\ a * c \in Nat
  BY SMT

\* One factor more, and one factor less.
LEMMA ProductStep ==
    ASSUME NEW a \in Nat, NEW b \in Nat
    PROVE  /\ (a + 1) * b = a * b + b
           /\ a # 0 => (a - 1) * b <= a * b /\ (a - 1) * b \in Int
  BY SMT

\* What bounds a number bounds the smaller ones.
LEMMA OrderChain ==
    ASSUME NEW a \in Nat, NEW b \in Nat, NEW c \in Int, a >= b, c <= b
    PROVE  a >= c
  BY SMT

\* static_cast<int>(n * decomp_load_ratio) is a number of chunks among n.
LEMMA ScaledBounds ==
    ASSUME NEW n \in Nat
    PROVE  Scaled(n) \in 0 .. n
<1> DEFINE a == n * RatioNum
<1>1. RatioNum \in Nat /\ RatioDen \in Nat \ {0} /\ RatioNum <= RatioDen
  BY LadderAssumption
<1>2. a \in Nat /\ a <= n * RatioDen
  BY <1>1, ProductOrder
<1>3. a \div RatioDen \in Nat /\ RatioDen * (a \div RatioDen) <= a
  BY <1>1, <1>2, DivFacts, Zenon
<1>4. a \div RatioDen <= n
  <2> HIDE DEF a
  <2>1. SUFFICES ASSUME a \div RatioDen >= n + 1 PROVE FALSE
    BY <1>3, SMT
  <2>2. RatioDen * (n + 1) <= RatioDen * (a \div RatioDen)
    BY <1>1, <1>3, <2>1, ProductOrder
  <2>3. RatioDen * (n + 1) <= n * RatioDen
    BY <1>1, <1>2, <1>3, <2>2, SMT
  <2> QED
    BY <1>1, <2>3, SMT
<1> QED
  BY <1>3, <1>4 DEF Scaled

\* Rounding n - c chunks down and adding c rounds up at most as much.
LEMMA ScaledShift ==
    ASSUME NEW n \in Nat, NEW c \in 0 .. n
    PROVE  Scaled(n) <= c + Scaled(n - c)
<1> DEFINE x == Scaled(n)
           y == Scaled(n - c)
<1>1. RatioNum \in Nat /\ RatioDen \in Nat \ {0} /\ RatioNum <= RatioDen
  BY LadderAssumption
<1>2. x \in Nat /\ y \in Nat /\ n - c \in Nat
  BY ScaledBounds
<1>3. n * RatioNum \in Nat /\ (n - c) * RatioNum \in Nat /\ c * RatioNum <= c * RatioDen
  BY <1>1, <1>2, ProductOrder
<1>4. RatioDen * x <= n * RatioNum
  BY <1>1, <1>3, DivFacts DEF Scaled
<1>5. (n - c) * RatioNum < RatioDen * y + RatioDen
  BY <1>1, <1>3, DivFacts DEF Scaled
<1> HIDE DEF x, y
<1>6. n * RatioNum = (n - c) * RatioNum + c * RatioNum
  BY <1>1, <1>2, SMT
<1>7. RatioDen * x < RatioDen * y + RatioDen + c * RatioDen
  BY <1>1, <1>2, <1>3, <1>4, <1>5, <1>6, SMT
<1>8. RatioDen * x < RatioDen * (y + 1 + c)
  BY <1>1, <1>2, <1>7, SMT
<1>9. SUFFICES ASSUME x >= y + 1 + c PROVE FALSE
  BY <1>2, SMT DEF x, y
<1>10. RatioDen * (y + 1 + c) <= RatioDen * x
  BY <1>1, <1>2, <1>9, ProductOrder
<1> QED
  BY <1>1, <1>2, <1>8, <1>10, SMT

\* BalanceChunks and the chunk positions are natural numbers.
LEMMA BalanceType == BalanceChunks \in Nat
  BY LadderAssumption, SMT DEF BalanceChunks

\* chunk_bound[i] is a number of chunks of the layer.
LEMMA BoundType ==
    ASSUME NEW n \in Nat, NEW i \in Layers
    PROVE  ChunkBound(n, i) \in 0 .. n
<1>1. i \in Nat /\ i * n \in Nat /\ (i + 1) * n = i * n + n
  BY LadderAssumption, SMT DEF Layers
<1>2. BalanceChunks \in Nat
  BY BalanceType
<1>3. CASE (i + 1) * n <= BalanceChunks
  BY <1>3 DEF ChunkBound
<1>4. CASE ~((i + 1) * n <= BalanceChunks) /\ i * n <= BalanceChunks
  <2> DEFINE c == BalanceChunks - i * n
  <2>1. c \in 0 .. n /\ n - c \in Nat
    BY <1>1, <1>2, <1>4
  <2>2. Scaled(n - c) \in 0 .. n - c
    BY <2>1, ScaledBounds
  <2>3. ChunkBound(n, i) = c + Scaled(n - c)
    BY <1>4 DEF ChunkBound
  <2> HIDE DEF c
  <2> QED
    BY <2>1, <2>2, <2>3
<1>5. CASE ~((i + 1) * n <= BalanceChunks) /\ ~(i * n <= BalanceChunks)
  BY <1>5, ScaledBounds DEF ChunkBound
<1> QED
  BY <1>3, <1>4, <1>5

\* Lower layers never have fewer compressible chunks than higher ones.
LEMMA BoundMonotone ==
    ASSUME NEW n \in Nat, NEW i \in Layers, NEW j \in Layers, i <= j
    PROVE  ChunkBound(n, j) <= ChunkBound(n, i)
<1>1. i \in Nat /\ j \in Nat /\ n * RatioNum \in Int
  BY LadderAssumption, SMT DEF Layers
<1>2. BalanceChunks \in Nat /\ ChunkBound(n, i) \in 0 .. n /\ ChunkBound(n, j) \in 0 .. n
  BY BalanceType, BoundType
<1>3. /\ i * n \in Nat /\ j * n \in Nat
      /\ (i + 1) * n = i * n + n
      /\ i * n <= j * n
  BY <1>1, ProductOrder, SMT
<1>4. CASE i = j
  BY <1>2, <1>4
<1>5. CASE (i + 1) * n <= BalanceChunks
  BY <1>2, <1>5 DEF ChunkBound
<1>6. CASE i # j /\ ~((i + 1) * n <= BalanceChunks)
  <2>1. (i + 1) * n <= j * n /\ j * n <= (j + 1) * n
    BY <1>1, <1>6, ProductOrder
  <2>2. ~((j + 1) * n <= BalanceChunks) /\ ~(j * n <= BalanceChunks)
    BY <1>1, <1>2, <1>3, <1>6, <2>1
  <2>3. ChunkBound(n, j) = Scaled(n)
    BY <2>2 DEF ChunkBound
  <2>4. CASE i * n <= BalanceChunks
    <3> DEFINE c == BalanceChunks - i * n
    <3>1. c \in 0 .. n
      BY <1>2, <1>3, <1>6, <2>4
    <3>2. ChunkBound(n, i) = c + Scaled(n - c)
      BY <1>6, <2>4 DEF ChunkBound
    <3> QED
      BY <2>3, <3>1, <3>2, ScaledShift
  <2>5. CASE ~(i * n <= BalanceChunks)
    BY <1>2, <1>6, <2>3, <2>5 DEF ChunkBound
  <2> QED
    BY <2>4, <2>5
<1> QED
  BY <1>4, <1>5, <1>6

\* The first BalanceChunks chunks, counted layer by layer, are compressible.
LEMMA BalanceCompressible ==
    ASSUME NEW n \in Nat, NEW i \in Layers, NEW c \in 0 .. n - 1,
           i * n + c < BalanceChunks
    PROVE  c < ChunkBound(n, i)
<1>1. i \in Nat /\ i * n \in Nat /\ BalanceChunks \in Nat
  BY LadderAssumption, BalanceType, SMT DEF Layers
<1>2. CASE (i + 1) * n <= BalanceChunks
  BY <1>2 DEF ChunkBound
<1>3. CASE ~((i + 1) * n <= BalanceChunks)
  <2> DEFINE d == BalanceChunks - i * n
  <2>1. i * n <= BalanceChunks /\ c < d
    BY <1>1
  <2>2. (i + 1) * n = i * n + n
    BY <1>1, SMT
  <2>3. d \in 0 .. n
    BY <1>1, <1>3, <2>1, <2>2
  <2>4. Scaled(n - d) \in 0 .. n - d
    BY <2>3, ScaledBounds
  <2>5. ChunkBound(n, i) = d + Scaled(n - d)
    BY <1>3, <2>1 DEF ChunkBound
  <2> HIDE DEF d
  <2> QED
    BY <2>1, <2>3, <2>4, <2>5
<1> QED
  BY <1>2, <1>3

\* Every set of chunks is finite.
LEMMA PairsFinite ==
    ASSUME SizeLaws
    PROVE  /\ IsFiniteSet(Layers) /\ Cardinality(Layers) = NumLayers
           /\ IsFiniteSet(Chunks)
           /\ IsFiniteSet(Layers \X Chunks)
           /\ \A S \in SUBSET (Layers \X Chunks) : IsFiniteSet(S) /\ Cardinality(S) \in Nat
           /\ \A S \in SUBSET Chunks : IsFiniteSet(S) /\ Cardinality(S) \in Nat
<1>1. NumLayers \in Nat \ {0} /\ MaxChunks \in Nat
  BY LadderAssumption
<1>2. IsFiniteSet(Layers) /\ Cardinality(Layers) = NumLayers
  BY <1>1 DEF SizeLaws, IntervalLaw, Layers
<1>3. IsFiniteSet(Chunks)
  BY <1>1 DEF SizeLaws, IntervalLaw, Chunks
<1>4. IsFiniteSet(Layers \X Chunks)
  BY <1>2, <1>3 DEF SizeLaws, ProductLaw
<1> QED
  BY <1>2, <1>3, <1>4 DEF SizeLaws, SubsetLaw, NumberLaw

\* The regions of a plan divide the registered chunks: max_comp_chunks and
\* max_store_chunks add up to all of them.
LEMMA RegionsPartition ==
    ASSUME SizeLaws, NEW n \in 1 .. MaxChunks, NEW b \in [Layers -> 0 .. MaxChunks],
           \A i \in Layers : b[i] <= n
    PROVE  /\ CompRegion(b) \in SUBSET (Layers \X Chunks)
           /\ StoreRegion(b, n) \in SUBSET (Layers \X Chunks)
           /\ Cardinality(CompRegion(b)) + Cardinality(StoreRegion(b, n)) = n * NumLayers
<1> DEFINE N == 0 .. n - 1
           A == CompRegion(b)
           B == StoreRegion(b, n)
<1>1. NumLayers \in Nat \ {0} /\ MaxChunks \in Nat
  BY LadderAssumption
<1>2. A \in SUBSET (Layers \X Chunks) /\ B \in SUBSET (Layers \X Chunks)
  BY DEF CompRegion, StoreRegion
<1>3. IsFiniteSet(A) /\ IsFiniteSet(B) /\ Cardinality(A) \in Nat /\ Cardinality(B) \in Nat
  BY <1>2, PairsFinite
<1>4. A \cup B = Layers \X N
  <2>1. ASSUME NEW p \in Layers \X Chunks PROVE p[2] \in Nat /\ p[1] \in Layers /\ p[2] < MaxChunks
    BY <1>1 DEF Chunks
  <2>2. ASSUME NEW p \in A \cup B PROVE p \in Layers \X N
    <3>1. p \in Layers \X Chunks /\ p[2] < n
      BY <1>1, <2>1, <2>2 DEF CompRegion, StoreRegion
    <3> QED
      BY <1>1, <2>1, <3>1
  <2>3. ASSUME NEW p \in Layers \X N PROVE p \in A \cup B
    <3>1. p \in Layers \X Chunks /\ p[2] < n /\ p[2] \in Nat /\ b[p[1]] \in Nat
      BY <1>1, <2>3 DEF Chunks
    <3> QED
      BY <3>1 DEF CompRegion, StoreRegion
  <2> QED
    BY <2>2, <2>3
<1>5. A \cap B = {}
  <2>1. SUFFICES ASSUME NEW p \in A \cap B PROVE FALSE
    OBVIOUS
  <2>2. p[2] \in Nat /\ b[p[1]] \in Nat /\ p[2] < b[p[1]] /\ b[p[1]] <= p[2]
    BY <1>1, <2>1 DEF CompRegion, StoreRegion, Chunks
  <2> QED
    BY <2>2
<1>6. IsFiniteSet(N) /\ Cardinality(N) = n
  BY <1>1 DEF SizeLaws, IntervalLaw
<1>7. Cardinality(Layers \X N) = NumLayers * n
  <2>1. IsFiniteSet(Layers) /\ Cardinality(Layers) = NumLayers
    BY PairsFinite
  <2>2. Cardinality(Layers \X N) = Cardinality(Layers) * Cardinality(N)
    BY <1>6, <2>1, Zenon DEF SizeLaws, ProductLaw
  <2> QED
    BY <1>6, <2>1, <2>2
<1>8. Cardinality(A \cup B) = Cardinality(A) + Cardinality(B) - Cardinality(A \cap B)
  BY <1>3 DEF SizeLaws, UnionLaw
<1>9. Cardinality(A \cap B) = 0
  BY <1>5 DEF SizeLaws, EmptyLaw
<1>10. Cardinality(A) + Cardinality(B) = NumLayers * n
  <2>1. Cardinality(A \cup B) = NumLayers * n
    BY <1>4, <1>7, Zenon
  <2> HIDE DEF A, B
  <2> QED
    BY <1>3, <1>8, <1>9, <2>1
<1>11. NumLayers * n = n * NumLayers
  BY <1>1, SMT
<1> QED
  BY <1>2, <1>10, <1>11

\* If the plan stores anything at all, the chunks phase 2 balances the weight
\* layers with fit into the compress regions.
LEMMA PlanReserve ==
    ASSUME SizeLaws, NEW n \in 1 .. MaxChunks, StoreRegion(PlanBound(n), n) # {}
    PROVE  BalanceChunks <= Cardinality(CompRegion(PlanBound(n)))
<1> DEFINE b == PlanBound(n)
           K == 0 .. BalanceChunks - 1
           f == [k \in K |-> <<k \div n, k % n>>]
<1>1. NumLayers \in Nat \ {0} /\ MaxChunks \in Nat /\ BalanceChunks \in Nat /\ n \in Nat \ {0}
  BY LadderAssumption, BalanceType
<1>2. PICK p \in Layers \X Chunks : b[p[1]] <= p[2] /\ p[2] < n
  BY DEF StoreRegion
<1>3. ChunkBound(n, p[1]) < n /\ p[1] \in Layers
  <2>1. b[p[1]] = ChunkBound(n, p[1]) /\ ChunkBound(n, p[1]) \in 0 .. n
    BY <1>1, <1>2, BoundType DEF PlanBound
  <2>2. p[2] \in Int
    BY <1>1, <1>2 DEF Chunks
  <2> QED
    BY <1>1, <1>2, <2>1, <2>2
<1>4. BalanceChunks < (p[1] + 1) * n
  <2>1. (p[1] + 1) * n \in Int
    BY <1>1, <1>3, SMT DEF Layers
  <2> QED
    BY <1>1, <1>3, <2>1 DEF ChunkBound
<1>5. (p[1] + 1) * n <= NumLayers * n /\ (p[1] + 1) * n \in Nat /\ NumLayers * n \in Nat
  <2>1. p[1] + 1 \in Nat /\ p[1] + 1 <= NumLayers
    BY <1>1, <1>3 DEF Layers
  <2> QED
    BY <1>1, <2>1, ProductOrder
<1>6. ASSUME NEW k \in K
      PROVE  /\ f[k] \in CompRegion(b)
             /\ k = (k \div n) * n + (k % n)
  <2>0. k \in Nat
    BY <1>1
  <2>1. /\ k \in Nat /\ k \div n \in Nat /\ (k % n) \in 0 .. n - 1
        /\ k = (k \div n) * n + (k % n)
    BY <1>1, <2>0, DivFacts, Zenon
  <2>2. (k \div n) * n \in Nat /\ (k \div n) * n < NumLayers * n
    BY <1>1, <1>4, <1>5, <2>1, ProductOrder
  <2>3. k \div n < NumLayers
    <3>1. SUFFICES ASSUME NumLayers <= k \div n PROVE FALSE
      BY <1>1, <2>1
    <3>2. NumLayers * n <= (k \div n) * n
      BY <1>1, <2>1, <3>1, ProductOrder
    <3> QED
      BY <1>5, <2>2, <3>2
  <2>4. k \div n \in Layers /\ (k % n) \in Chunks
    BY <1>1, <2>1, <2>3 DEF Layers, Chunks
  <2>5. (k % n) < ChunkBound(n, k \div n)
    <3>1. (k \div n) * n + (k % n) < BalanceChunks
      BY <1>1, <2>1
    <3> QED
      BY <1>1, <2>1, <2>4, <3>1, BalanceCompressible, Zenon
  <2>6. f[k] = <<k \div n, k % n>> /\ b[k \div n] = ChunkBound(n, k \div n)
    BY <2>4 DEF PlanBound
  <2> QED
    BY <2>1, <2>4, <2>5, <2>6 DEF CompRegion
<1>7. f \in [K -> CompRegion(b)] /\ OneToOne(f, K)
  <2>1. f \in [K -> CompRegion(b)]
    BY <1>6
  <2>2. ASSUME NEW k \in K, NEW m \in K, f[k] = f[m] PROVE k = m
    <3>1. k \div n = m \div n /\ (k % n) = (m % n)
      BY <2>2
    <3> QED
      BY <1>6, <3>1
  <2> QED
    BY <2>1, <2>2, Zenon DEF OneToOne
<1>8. IsFiniteSet(CompRegion(b))
  BY PairsFinite DEF CompRegion
<1>9. Cardinality(K) = BalanceChunks
  BY <1>1 DEF SizeLaws, IntervalLaw
<1> HIDE DEF f, K
<1> QED
  BY <1>7, <1>8, <1>9 DEF SizeLaws, MappingLaw, OneToOne

-----------------------------------------------------------------------------
(* Facts about one state.                                                  *)

\* The taken chunks lie in their regions, which divide the registered chunks.
LEMMA RegionFacts ==
    ASSUME SizeLaws, TypeOK, PlanInv
    PROVE  /\ CompTaken \subseteq CompRegion(bound)
           /\ StoreTaken \subseteq StoreRegion(bound, nChunks)
           /\ CompRegion(bound) \subseteq Pairs /\ StoreRegion(bound, nChunks) \subseteq Pairs
           /\ CompRegion(bound) \cap StoreRegion(bound, nChunks) = {}
           /\ IsFiniteSet(CompTaken) /\ IsFiniteSet(StoreTaken)
           /\ MaxComp \in Nat /\ MaxStore \in Nat
           /\ MaxComp + MaxStore = TotalChunks
<1>1. CompTaken \subseteq CompRegion(bound) /\ StoreTaken \subseteq StoreRegion(bound, nChunks)
  BY DEF CompTaken, StoreTaken
<1>2. CompRegion(bound) \subseteq Pairs /\ StoreRegion(bound, nChunks) \subseteq Pairs
  BY DEF CompRegion, StoreRegion, Pairs
<1>3. CompRegion(bound) \cap StoreRegion(bound, nChunks) = {}
  <2>1. SUFFICES ASSUME NEW p \in CompRegion(bound) \cap StoreRegion(bound, nChunks) PROVE FALSE
    OBVIOUS
  <2>2. MaxChunks \in Nat
    BY LadderAssumption
  <2>3. p[2] \in Nat /\ bound[p[1]] \in Nat /\ p[2] < bound[p[1]] /\ bound[p[1]] <= p[2]
    BY <2>1, <2>2 DEF CompRegion, StoreRegion, Chunks, TypeOK
  <2> QED
    BY <2>3
<1>4. IsFiniteSet(CompTaken) /\ IsFiniteSet(StoreTaken)
  BY <1>1, <1>2, PairsFinite DEF Pairs
<1>5. MaxComp \in Nat /\ MaxStore \in Nat
  BY <1>2, PairsFinite DEF Pairs, MaxComp, MaxStore
<1>6. MaxComp + MaxStore = nChunks * NumLayers
  BY RegionsPartition DEF MaxComp, MaxStore, TypeOK, PlanInv
<1> QED
  BY <1>1, <1>2, <1>3, <1>4, <1>5, <1>6 DEF TotalChunks, PlanInv

\* The number of taken chunks: none when the set is empty, at most the region,
\* and fewer only if some chunk of the region is not taken.
LEMMA TakenFacts ==
    ASSUME SizeLaws, TypeOK, PlanInv
    PROVE  /\ Cardinality(CompTaken) \in 0 .. MaxComp
           /\ Cardinality(StoreTaken) \in 0 .. MaxStore
           /\ Cardinality(CompTaken) = 0 <=> CompTaken = {}
           /\ Cardinality(StoreTaken) = 0 <=> StoreTaken = {}
           /\ Cardinality(CompTaken) < MaxComp => \E p \in CompRegion(bound) : p \notin CompTaken
           /\ Cardinality(StoreTaken) < MaxStore =>
                \E p \in StoreRegion(bound, nChunks) : p \notin StoreTaken
           /\ StoreRegion(bound, nChunks) = {} => MaxStore = 0
<1>1. IsFiniteSet(CompRegion(bound)) /\ IsFiniteSet(StoreRegion(bound, nChunks))
  BY RegionFacts, PairsFinite DEF Pairs
<1>2. /\ CompTaken \in SUBSET CompRegion(bound) /\ StoreTaken \in SUBSET StoreRegion(bound, nChunks)
      /\ MaxComp \in Nat /\ MaxStore \in Nat
  BY RegionFacts
<1>3. /\ IsFiniteSet(CompTaken) /\ Cardinality(CompTaken) \in Nat
      /\ IsFiniteSet(StoreTaken) /\ Cardinality(StoreTaken) \in Nat
  BY RegionFacts DEF SizeLaws, NumberLaw
<1>4. /\ Cardinality(CompTaken) <= MaxComp /\ Cardinality(StoreTaken) <= MaxStore
      /\ MaxComp = Cardinality(CompTaken) => CompRegion(bound) = CompTaken
      /\ MaxStore = Cardinality(StoreTaken) => StoreRegion(bound, nChunks) = StoreTaken
  BY <1>1, <1>2 DEF SizeLaws, SubsetLaw, MaxComp, MaxStore
<1>5. /\ Cardinality(CompTaken) = 0 <=> CompTaken = {}
      /\ Cardinality(StoreTaken) = 0 <=> StoreTaken = {}
  BY <1>3 DEF SizeLaws, EmptyLaw
<1>6. /\ CompTaken = CompRegion(bound) => Cardinality(CompTaken) = MaxComp
      /\ StoreTaken = StoreRegion(bound, nChunks) => Cardinality(StoreTaken) = MaxStore
  BY DEF MaxComp, MaxStore
<1>7. Cardinality(CompTaken) < MaxComp => \E p \in CompRegion(bound) : p \notin CompTaken
  <2>1. SUFFICES ASSUME Cardinality(CompTaken) < MaxComp,
                        \A p \in CompRegion(bound) : p \in CompTaken
                 PROVE  FALSE
    OBVIOUS
  <2>2. CompTaken = CompRegion(bound)
    BY <1>2, <2>1
  <2> QED
    BY <1>2, <1>3, <1>6, <2>1, <2>2
<1>8. Cardinality(StoreTaken) < MaxStore => \E p \in StoreRegion(bound, nChunks) : p \notin StoreTaken
  <2>1. SUFFICES ASSUME Cardinality(StoreTaken) < MaxStore,
                        \A p \in StoreRegion(bound, nChunks) : p \in StoreTaken
                 PROVE  FALSE
    OBVIOUS
  <2>2. StoreTaken = StoreRegion(bound, nChunks)
    BY <1>2, <2>1, Zenon
  <2> QED
    BY <1>2, <1>3, <1>6, <2>1, <2>2
<1>9. StoreRegion(bound, nChunks) = {} => MaxStore = 0
  BY DEF SizeLaws, EmptyLaw, MaxStore
<1> QED
  BY <1>2, <1>3, <1>4, <1>5, <1>7, <1>8, <1>9

\* allocate_chunks asks no region for more than its room, and plans nothing
\* only when the store regions are full.
LEMMA AllocateFacts ==
    ASSUME NEW r \in Nat \ {0}, CompRoom \in Nat, StoreRoom \in Nat
    PROVE  /\ AllocateChunks(r)[1] \in Nat /\ AllocateChunks(r)[1] <= CompRoom
           /\ AllocateChunks(r)[2] \in Nat /\ AllocateChunks(r)[2] <= StoreRoom
           /\ AllocateChunks(r)[1] + AllocateChunks(r)[2] = 0 => StoreRoom = 0
<1> DEFINE wc == Scaled(r)
           ws == r - wc
           ac == Min2(wc, CompRoom)
           ad == Min2(ws, StoreRoom)
           sh == r - (ac + ad)
           ms == IF sh > 0 /\ ac < wc THEN Min2(Min2(sh, wc - ac), StoreRoom - ad) ELSE 0
           mc == IF sh - ms > 0 /\ ad + ms < ws
                 THEN Min2(Min2(sh - ms, ws - (ad + ms)), CompRoom - ac) ELSE 0
<1>1. AllocateChunks(r) = <<ac + mc, ad + ms>>
  BY Zenon DEF AllocateChunks
<1>2. wc \in Nat /\ ws \in Nat /\ wc + ws = r /\ wc + ws > 0
  BY ScaledBounds
<1>3. /\ ac \in Nat /\ ac <= CompRoom /\ ac <= wc
      /\ ad \in Nat /\ ad <= StoreRoom /\ ad <= ws /\ (ad = ws \/ ad = StoreRoom)
  <2> HIDE DEF wc, ws
  <2> QED
    BY <1>2 DEF Min2
<1>4. sh \in Nat
  <2> HIDE DEF wc, ws, ac, ad
  <2> QED
    BY <1>2, <1>3
<1>5. /\ ms \in Nat /\ ms <= StoreRoom - ad
      /\ ac < wc => ms > 0 \/ ad = StoreRoom
  <2>1. sh > 0 \/ ~(ac < wc)
    <3> HIDE DEF wc, ws, ac, ad
    <3> QED
      BY <1>2, <1>3
  <2> HIDE DEF wc, ws, ac, ad, sh
  <2> QED
    BY <1>2, <1>3, <1>4, <2>1 DEF Min2
<1>6. mc \in Nat /\ mc <= CompRoom - ac
  <2> HIDE DEF wc, ws, ac, ad, sh, ms
  <2> QED
    BY <1>2, <1>3, <1>4, <1>5 DEF Min2
<1>7. /\ ac + mc \in Nat /\ ac + mc <= CompRoom
      /\ ad + ms \in Nat /\ ad + ms <= StoreRoom
      /\ ac + mc + (ad + ms) = 0 => StoreRoom = 0
  <2> HIDE DEF wc, ws, ac, ad, sh, ms, mc
  <2> QED
    BY <1>2, <1>3, <1>5, <1>6
<1> HIDE DEF wc, ws, ac, ad, sh, ms, mc
<1>8. AllocateChunks(r)[1] = ac + mc /\ AllocateChunks(r)[2] = ad + ms
  BY <1>1
<1> QED
  BY <1>7, <1>8, Zenon

-----------------------------------------------------------------------------
(* What initialize_layer_sync counts.                                      *)

\* The terms of initialize_layer_sync are numbers of chunks of the layer, and
\* say which chunks the cursors have passed.
LEMMA InitTerms ==
    ASSUME TypeOK, PlanInv, CursorInv, NEW i \in Layers
    PROVE  /\ CompressInit(i) \in 0 .. bound[i]
           /\ StoreInit(i) \in 0 .. nChunks - bound[i]
           /\ bound[i] \in 0 .. nChunks /\ nChunks \in 1 .. MaxChunks /\ MaxChunks \in Nat
           /\ \A c \in Chunks : <<i, c>> \in CompTaken <=>
                  c < bound[i] /\ bound[i] - CompressInit(i) <= c
           /\ \A c \in Chunks : <<i, c>> \in StoreTaken <=>
                  c < nChunks /\ nChunks - StoreInit(i) <= c
<1>1. NumLayers \in Nat /\ MaxChunks \in Nat /\ i \in Int
  BY LadderAssumption DEF Layers
<1>2. bound[i] \in 0 .. nChunks /\ nChunks \in 1 .. MaxChunks
  BY <1>1 DEF TypeOK, PlanInv
<1>3. /\ cL \in Int /\ sL \in Int /\ cC \in Int /\ sC \in Int
      /\ i = cL => cC >= -1 /\ cC <= bound[i] - 1
      /\ i = sL => sC >= bound[i] - 1 /\ sC <= nChunks - 1
  <2>1. cL \in Int /\ sL \in Int /\ cC \in Int /\ sC \in Int
    BY DEF TypeOK
  <2>2. i = cL => cC >= -1 /\ cC <= bound[i] - 1
    BY <1>1, <1>2, <2>1 DEF CursorInv
  <2>3. i = sL => sC >= bound[i] - 1 /\ sC <= nChunks - 1
    BY <1>1, <1>2, <2>1 DEF CursorInv
  <2> QED
    BY <2>1, <2>2, <2>3
<1>4. CompressInit(i) \in 0 .. bound[i] /\ StoreInit(i) \in 0 .. nChunks - bound[i]
  BY <1>1, <1>2, <1>3 DEF CompressInit, StoreInit
<1>5. ASSUME NEW c \in Chunks
      PROVE  /\ <<i, c>> \in CompTaken <=> c < bound[i] /\ bound[i] - CompressInit(i) <= c
             /\ <<i, c>> \in StoreTaken <=> c < nChunks /\ nChunks - StoreInit(i) <= c
  <2>1. c \in Nat
    BY <1>1 DEF Chunks
  <2>2. /\ <<i, c>> \in CompTaken <=> c < bound[i] /\ (i > cL \/ (i = cL /\ c > cC))
        /\ <<i, c>> \in StoreTaken <=>
              bound[i] <= c /\ c < nChunks /\ (i > sL \/ (i = sL /\ c > sC))
    BY DEF CompTaken, StoreTaken, CompRegion, StoreRegion
  <2> QED
    BY <1>1, <1>2, <1>3, <2>1, <2>2 DEF CompressInit, StoreInit
<1> QED
  BY <1>1, <1>2, <1>4, <1>5

\* decomp_num_chunks is the number of chunks above the compress cursor.
LEMMA DecompCount ==
    ASSUME SizeLaws, TypeOK, PlanInv, CursorInv
    PROVE  DecompNum = Cardinality(CompTaken)
<1> DEFINE D == {p \in Layers \X (1 .. MaxChunks) : p[2] <= CompressInit(p[1])}
           f == [p \in CompTaken |-> <<p[1], bound[p[1]] - p[2]>>]
<1>1. ASSUME NEW p \in CompTaken
      PROVE  /\ p[1] \in Layers /\ p[2] \in Chunks /\ p = <<p[1], p[2]>>
             /\ bound[p[1]] \in Nat /\ p[2] \in Nat
             /\ f[p] = <<p[1], bound[p[1]] - p[2]>> /\ f[p] \in D
  <2>1. p[1] \in Layers /\ p[2] \in Chunks /\ p = <<p[1], p[2]>>
    BY RegionFacts DEF Pairs
  <2>2. bound[p[1]] - CompressInit(p[1]) <= p[2] /\ p[2] < bound[p[1]]
    BY <2>1, InitTerms
  <2>3. p[2] \in Nat /\ bound[p[1]] \in 0 .. MaxChunks /\ CompressInit(p[1]) \in Nat /\ MaxChunks \in Nat
    BY <2>1, InitTerms DEF Chunks
  <2>4. /\ bound[p[1]] - p[2] \in 1 .. MaxChunks
        /\ bound[p[1]] - p[2] <= CompressInit(p[1])
    BY <2>2, <2>3
  <2> QED
    BY <2>1, <2>3, <2>4
<1>2. ASSUME NEW p \in CompTaken, NEW q \in CompTaken, f[p] = f[q] PROVE p = q
  <2>1. p[1] = q[1] /\ bound[p[1]] - p[2] = bound[p[1]] - q[2]
    BY <1>1, <1>2
  <2>2. p[2] \in Nat /\ q[2] \in Nat /\ bound[p[1]] \in Nat
    BY <1>1, Zenon
  <2>3. p[2] = q[2]
    <3> HIDE DEF f
    <3> QED
      BY <2>1, <2>2
  <2> QED
    BY <1>1, <2>1, <2>3, Zenon
<1>3. ASSUME NEW d \in D PROVE \E p \in CompTaken : f[p] = d
  <2>1. PICK i \in Layers, k \in 1 .. MaxChunks : d = <<i, k>> /\ k <= CompressInit(i)
    OBVIOUS
  <2>2. /\ bound[i] \in 0 .. MaxChunks /\ CompressInit(i) \in 0 .. bound[i]
        /\ MaxChunks \in Nat /\ k \in Nat
    BY InitTerms
  <2>3. /\ bound[i] - k \in Chunks /\ bound[i] - k < bound[i]
        /\ bound[i] - CompressInit(i) <= bound[i] - k
        /\ bound[i] - (bound[i] - k) = k
    BY <2>1, <2>2 DEF Chunks
  <2>4. <<i, bound[i] - k>> \in CompTaken
    BY <2>3, InitTerms
  <2> QED
    BY <2>1, <2>3, <2>4
<1>4. f \in [CompTaken -> D] /\ OneToOne(f, CompTaken) /\ \A y \in D : \E x \in CompTaken : f[x] = y
  <2>1. f \in [CompTaken -> D]
    BY <1>1
  <2> QED
    BY <1>2, <1>3, <2>1, Zenon DEF OneToOne
<1>5. Cardinality(D) = Cardinality(CompTaken)
  <2> HIDE DEF D, f
  <2> QED
    BY <1>4, RegionFacts DEF SizeLaws, MappingLaw, OneToOne
<1> QED
  BY <1>5 DEF DecompNum

\* load_num_chunks is the number of chunks above the store cursor.
LEMMA LoadCount ==
    ASSUME SizeLaws, TypeOK, PlanInv, CursorInv
    PROVE  LoadNum = Cardinality(StoreTaken)
<1> DEFINE D == {p \in Layers \X (1 .. MaxChunks) : p[2] <= StoreInit(p[1])}
           f == [p \in StoreTaken |-> <<p[1], nChunks - p[2]>>]
<1>1. ASSUME NEW p \in StoreTaken
      PROVE  /\ p[1] \in Layers /\ p[2] \in Chunks /\ p = <<p[1], p[2]>>
             /\ nChunks \in Nat /\ p[2] \in Nat
             /\ f[p] = <<p[1], nChunks - p[2]>> /\ f[p] \in D
  <2>1. p[1] \in Layers /\ p[2] \in Chunks /\ p = <<p[1], p[2]>>
    BY RegionFacts DEF Pairs
  <2>2. nChunks - StoreInit(p[1]) <= p[2] /\ p[2] < nChunks
    BY <2>1, InitTerms
  <2>3. p[2] \in Nat /\ nChunks \in 0 .. MaxChunks /\ StoreInit(p[1]) \in Int /\ MaxChunks \in Nat
    BY <2>1, InitTerms DEF Chunks
  <2>4. nChunks - p[2] \in 1 .. MaxChunks /\ nChunks - p[2] <= StoreInit(p[1])
    BY <2>2, <2>3
  <2> QED
    BY <2>1, <2>3, <2>4
<1>2. ASSUME NEW p \in StoreTaken, NEW q \in StoreTaken, f[p] = f[q] PROVE p = q
  <2>1. p[1] = q[1] /\ nChunks - p[2] = nChunks - q[2]
    BY <1>1, <1>2
  <2>2. p[2] \in Nat /\ q[2] \in Nat /\ nChunks \in Nat
    BY <1>1, Zenon
  <2>3. p[2] = q[2]
    <3> HIDE DEF f
    <3> QED
      BY <2>1, <2>2
  <2> QED
    BY <1>1, <2>1, <2>3, Zenon
<1>3. ASSUME NEW d \in D PROVE \E p \in StoreTaken : f[p] = d
  <2>1. PICK i \in Layers, k \in 1 .. MaxChunks : d = <<i, k>> /\ k <= StoreInit(i)
    OBVIOUS
  <2>2. /\ bound[i] \in 0 .. nChunks /\ StoreInit(i) \in 0 .. nChunks - bound[i]
        /\ nChunks \in 1 .. MaxChunks /\ MaxChunks \in Nat /\ k \in Nat
    BY InitTerms
  <2>3. /\ nChunks - k \in Chunks /\ nChunks - k < nChunks
        /\ nChunks - StoreInit(i) <= nChunks - k
        /\ nChunks - (nChunks - k) = k
    BY <2>1, <2>2 DEF Chunks
  <2>4. <<i, nChunks - k>> \in StoreTaken
    BY <2>3, InitTerms
  <2> QED
    BY <2>1, <2>3, <2>4
<1>4. f \in [StoreTaken -> D] /\ OneToOne(f, StoreTaken) /\ \A y \in D : \E x \in StoreTaken : f[x] = y
  <2>1. f \in [StoreTaken -> D]
    BY <1>1
  <2> QED
    BY <1>2, <1>3, <2>1, Zenon DEF OneToOne
<1>5. Cardinality(D) = Cardinality(StoreTaken)
  <2> HIDE DEF D, f
  <2> QED
    BY <1>4, RegionFacts DEF SizeLaws, MappingLaw, OneToOne
<1> QED
  BY <1>5 DEF LoadNum

\* The chunk terms of a layer add up to its swapped-out chunks.
LEMMA LayerCount ==
    ASSUME SizeLaws, TypeOK, PlanInv, CursorInv, LadderShape, reads = {}, decomps = {}, NEW i \in Layers
    PROVE  Cardinality({c \in Chunks : st[i][c] \in {"Compressed", "Stored"}})
             = CompressInit(i) + StoreInit(i)
<1> DEFINE S == {c \in Chunks : st[i][c] \in {"Compressed", "Stored"}}
           b == bound[i]
           n == nChunks
           k == CompressInit(i)
           m == StoreInit(i)
           A == b - k .. b - 1
           B == n - m .. n - 1
<1>1. /\ k \in 0 .. b /\ m \in 0 .. n - b /\ b \in 0 .. n /\ n \in 1 .. MaxChunks
      /\ MaxChunks \in Nat
  BY InitTerms
<1>2. ASSUME NEW c \in Chunks
      PROVE  c \in S <=> (c < b /\ b - k <= c) \/ (c < n /\ n - m <= c)
  <2>1. st[i][c] = "Compressed" <=> <<i, c>> \in CompTaken
    BY DEF LadderShape, InState, Pairs
  <2>2. st[i][c] = "Stored" <=> <<i, c>> \in StoreTaken
    BY DEF LadderShape, InState, Pairs
  <2> QED
    BY <2>1, <2>2, InitTerms
<1> HIDE DEF S
<1>3. S \subseteq Chunks
  BY DEF S
<1> HIDE DEF b, n, k, m
<1>4. S = A \cup B
  <2>1. ASSUME NEW c \in S PROVE c \in A \cup B
    BY <1>1, <1>2, <1>3, <2>1 DEF Chunks
  <2>2. ASSUME NEW c \in A \cup B PROVE c \in S
    <3>1. c \in Chunks /\ ((c < b /\ b - k <= c) \/ (c < n /\ n - m <= c))
      BY <1>1, <2>2 DEF Chunks
    <3> QED
      BY <1>2, <3>1
  <2> QED
    BY <2>1, <2>2
<1>5. A \cap B = {}
  BY <1>1
<1>6. IsFiniteSet(A) /\ Cardinality(A) = k /\ IsFiniteSet(B) /\ Cardinality(B) = m
  <2>1. b - k \in Int /\ b - 1 \in Int /\ n - m \in Int /\ n - 1 \in Int
    BY <1>1
  <2>2. /\ IsFiniteSet(A) /\ Cardinality(A) = IF b - k > b - 1 THEN 0 ELSE b - 1 - (b - k) + 1
        /\ IsFiniteSet(B) /\ Cardinality(B) = IF n - m > n - 1 THEN 0 ELSE n - 1 - (n - m) + 1
    BY <2>1, Zenon DEF SizeLaws, IntervalLaw
  <2>3. (IF b - k > b - 1 THEN 0 ELSE b - 1 - (b - k) + 1) = k
    BY <1>1
  <2>4. (IF n - m > n - 1 THEN 0 ELSE n - 1 - (n - m) + 1) = m
    BY <1>1
  <2> QED
    BY <2>2, <2>3, <2>4
<1> HIDE DEF A, B
<1>7. Cardinality(S) = k + m
  <2>1. Cardinality(S) = Cardinality(A) + Cardinality(B) - Cardinality(A \cap B)
    BY <1>4, <1>6 DEF SizeLaws, UnionLaw
  <2>2. Cardinality(A \cap B) = 0
    BY <1>5 DEF SizeLaws, EmptyLaw
  <2> QED
    BY <1>1, <1>6, <2>1, <2>2
<1> QED
  BY <1>7 DEF S, k, m

\* Outside a swap-in no task is queued and the counters are exact.
LEMMA RestFacts ==
    ASSUME SizeLaws, Consistent, ~Restoring
    PROVE  /\ nComp = Cardinality(CompTaken) /\ nStore = Cardinality(StoreTaken)
           /\ reads = {} /\ decomps = {} /\ wreads = {} /\ frees = {}
           /\ InState("Compressed") = CompTaken /\ InState("Stored") = StoreTaken
  BY DEF Consistent, IInv, RestInv, LadderShape

\* The types of the plan and the cursors.
LEMMA CursorFacts ==
    ASSUME SizeLaws, Consistent
    PROVE  /\ NumLayers \in Nat \ {0} /\ MaxChunks \in Nat \ {0} /\ nChunks \in 1 .. MaxChunks
           /\ cL \in Layers /\ sL \in Layers /\ cL \in Nat /\ sL \in Nat
           /\ \A i \in Layers : i \in Nat /\ bound[i] \in Nat /\ bound[i] <= nChunks
           /\ cC \in Int /\ -1 <= cC /\ cC < bound[cL]
           /\ sC \in Int /\ bound[sL] - 1 <= sC /\ sC < nChunks
           /\ \A p \in Pairs : p[1] \in Layers /\ p[1] \in Nat /\ p[2] \in Nat /\ p = <<p[1], p[2]>>
<1> IInv
  BY DEF Consistent
<1>1. NumLayers \in Nat \ {0} /\ MaxChunks \in Nat
  BY LadderAssumption
<1>2. nChunks \in 1 .. MaxChunks /\ MaxChunks \in Nat \ {0}
  BY <1>1 DEF IInv, TypeOK
<1>3. cL \in Layers /\ sL \in Layers /\ cL \in Nat /\ sL \in Nat
  BY <1>1 DEF IInv, CursorInv, Layers
<1>4. \A i \in Layers : i \in Nat /\ bound[i] \in Nat /\ bound[i] <= nChunks
  BY <1>1, <1>2 DEF IInv, PlanInv, TypeOK, Layers
<1>5. /\ cC \in Int /\ -1 <= cC /\ cC < bound[cL]
      /\ sC \in Int /\ bound[sL] - 1 <= sC /\ sC < nChunks
  BY <1>1, <1>2, <1>3, <1>4 DEF IInv, CursorInv
<1>6. \A p \in Pairs : p[1] \in Layers /\ p[1] \in Nat /\ p[2] \in Nat /\ p = <<p[1], p[2]>>
  BY <1>1 DEF Pairs, Layers, Chunks
<1> QED
  BY <1>1, <1>2, <1>3, <1>4, <1>5, <1>6

-----------------------------------------------------------------------------
(* What a step leaves alone.                                               *)

\* Plan and cursors unchanged: regions and taken chunks unchanged.
LEMMA SameCursors ==
    ASSUME UNCHANGED <<bound, nChunks, cL, cC, sL, sC>>
    PROVE  /\ CompRegion(bound)' = CompRegion(bound)
           /\ StoreRegion(bound, nChunks)' = StoreRegion(bound, nChunks)
           /\ CompTaken' = CompTaken /\ StoreTaken' = StoreTaken
           /\ MaxComp' = MaxComp /\ MaxStore' = MaxStore
  BY DEF CompRegion, StoreRegion, CompTaken, StoreTaken, MaxComp, MaxStore

\* Plan unchanged: regions unchanged.
LEMMA SamePlan ==
    ASSUME UNCHANGED <<bound, nChunks>>
    PROVE  /\ CompRegion(bound)' = CompRegion(bound)
           /\ StoreRegion(bound, nChunks)' = StoreRegion(bound, nChunks)
           /\ MaxComp' = MaxComp /\ MaxStore' = MaxStore
  BY DEF CompRegion, StoreRegion, MaxComp, MaxStore
\* What register_grown_chunks assigns on a clean ladder.
LEMMA RegisterTerms ==
    ASSUME NEW n, RegisterChunks(n)
    PROVE  /\ nChunks' = n /\ st' = Registered(st, nChunks, n) /\ bound' = PlanBound(n)
           /\ cL' = NumLayers - 1 /\ cC' = ChunkBound(n, NumLayers - 1) - 1
           /\ sL' = NumLayers - 1 /\ sC' = n - 1
           /\ UNCHANGED <<nComp, nStore, saved>>
  BY DEF RegisterChunks
-----------------------------------------------------------------------------
(* Swap-out steps that move no chunk.                                      *)

\* swapout_impl keeps its target_ratio until it returns.
LEMMA RememberedType == ASSUME IInv, target' = Remembered PROVE target' \in Nat
<1>1. target \in Nat
  BY Zenon DEF IInv, TypeOK
<1> QED
  BY <1>1 DEF Remembered

\* A step of the control flow of swapout_impl that moves no chunk keeps
\* everything but the loop counters and the weights as it is.
LEMMA ControlStep ==
    ASSUME SizeLaws, Consistent, ~Restoring, ~Restoring',
           UNCHANGED <<planVars, kvVars, reads, decomps, wreads, frees>>
    PROVE  /\ PlanInv' /\ CursorInv' /\ LadderShape' /\ RestInv'
           /\ RestoreInv' /\ SyncCountsMissing'
           /\ MaxComp' = MaxComp /\ MaxStore' = MaxStore
<1> IInv
  BY DEF Consistent
<1>1. /\ UNCHANGED <<bound, nChunks, cL, cC, sL, sC>>
      /\ UNCHANGED <<coreChunks, st, nComp, nStore, reads, decomps, wreads, frees>>
  BY DEF planVars, kvVars
<1>2. /\ CompRegion(bound)' = CompRegion(bound)
      /\ StoreRegion(bound, nChunks)' = StoreRegion(bound, nChunks)
      /\ CompTaken' = CompTaken /\ StoreTaken' = StoreTaken
      /\ MaxComp' = MaxComp /\ MaxStore' = MaxStore
  BY <1>1, SameCursors
<1>3. PlanInv'
  BY <1>1, <1>2 DEF IInv, PlanInv, Monotone
<1>4. CursorInv'
  BY <1>1 DEF IInv, CursorInv
<1>5. LadderShape'
  BY <1>1, <1>2, Zenon DEF IInv, LadderShape, InState
<1>6. RestInv'
  BY <1>1, <1>2 DEF IInv, RestInv
<1>7. RestoreInv' /\ SyncCountsMissing'
  BY Zenon DEF RestoreInv, SyncCountsMissing
<1> QED
  BY <1>2, <1>3, <1>4, <1>5, <1>6, <1>7

\* The head of phase 1 plans within the rooms of the regions, and leaves for
\* phase 2 only when all that is to be stored is stored.
LEMMA Phase1Step == ASSUME SizeLaws, Consistent, Phase1 PROVE Consistent'
<1> SUFFICES ASSUME IInv PROVE IInv'
  BY DEF Consistent
<1>1. ~Restoring /\ ~Restoring' /\ UNCHANGED <<planVars, kvVars, reads, decomps, wreads, frees>>
  BY DEF Phase1, Restoring, taskVars
<1>2. /\ PlanInv' /\ CursorInv' /\ LadderShape' /\ RestInv'
      /\ RestoreInv' /\ SyncCountsMissing'
      /\ MaxComp' = MaxComp /\ MaxStore' = MaxStore
  BY <1>1, ControlStep
<1>3. /\ nComp \in 0 .. MaxComp /\ nStore \in 0 .. MaxStore
      /\ MaxComp \in Nat /\ MaxStore \in Nat /\ BalanceChunks \in Nat
      /\ MaxComp + MaxStore = TotalChunks
  BY <1>1, RegionFacts, TakenFacts, BalanceType DEF IInv, RestInv
<1>4. UnloadInv'
  BY DEF Phase1, IInv, UnloadInv, weightVars, taskVars
<1>5. CASE Processed < BoundChunks
  <2> DEFINE r == Min2(Step, TotalChunks - Processed)
             add == AllocateChunks(r)
  <2>1. r \in Nat \ {0}
    BY <1>3, <1>5, LadderAssumption DEF Min2, Processed, BoundChunks
  <2>2. CompRoom \in Nat /\ StoreRoom \in Nat
    BY <1>3 DEF CompRoom, StoreRoom, Max2
  <2>3. /\ add[1] \in Nat /\ add[1] <= CompRoom
        /\ add[2] \in Nat /\ add[2] <= StoreRoom
        /\ add[1] + add[2] = 0 => StoreRoom = 0
    <3> HIDE DEF r
    <3> QED
      BY <2>1, <2>2, AllocateFacts
  <2>4. /\ todoC' = add[1] /\ todoS' = add[2] /\ stuck' = (add[1] + add[2] = 0)
        /\ pc' = "compress1" /\ fds' = fds
    BY <1>5 DEF Phase1
  <2> HIDE DEF add
  <2>5. TypeOK'
    <3>1. stuck' \in BOOLEAN
      BY <2>4, Zenon
    <3>2. /\ UNCHANGED <<target, rounds, nChunks, coreChunks, allocated, pending, bound>>
          /\ UNCHANGED <<st, cL, cC, sL, sC, nComp, nStore, saved, file, cycle>>
          /\ UNCHANGED <<arenaTop, offUsed, nextOff, offBytes, wL, nUnload, weights>>
          /\ UNCHANGED <<sync, compLeft, decompNum, loadNum, todoL, todoD>>
          /\ UNCHANGED <<reads, decomps, wreads, frees>>
      BY Zenon DEF Phase1, planVars, kvVars, arenaVars, weightVars, taskVars
    <3>3. TypeOK
      BY DEF IInv
    <3> QED
      <4>1. todoC' \in Int /\ todoS' \in Int
        BY <2>3, <2>4
      <4> QED
        BY <2>4, <3>1, <3>2, <3>3, <4>1, Zenon DEF TypeOK
  <2>6. nComp' = nComp /\ nStore' = nStore
    BY <1>1 DEF kvVars
  <2>7. todoC' > 0 => nComp + todoC' <= MaxComp - BalanceChunks
    BY <1>3, <2>2, <2>3, <2>4 DEF CompRoom, Max2
  <2>8. nStore + todoS' <= MaxStore /\ (stuck' => nStore = MaxStore)
    <3>1. nStore + todoS' <= MaxStore /\ (StoreRoom = 0 => nStore = MaxStore)
      BY <1>3, <2>2, <2>3, <2>4 DEF StoreRoom, Max2
    <3>2. stuck' => StoreRoom = 0
      BY <2>3, <2>4, Zenon
    <3> QED
      BY <3>1, <3>2, Zenon
  <2>9. nComp > MaxComp - BalanceChunks => nStore = MaxStore
    BY <1>1 DEF IInv, LoopInv
  <2>10. LoopInv'
    BY <1>2, <2>4, <2>6, <2>7, <2>8, <2>9 DEF LoopInv
  <2> QED
    BY <1>2, <1>4, <2>5, <2>10 DEF IInv
<1>6. CASE ~(Processed < BoundChunks)
  <2>1. pc' = "p2" /\ fds' = {} /\ UNCHANGED <<todoC, todoS, stuck>>
    BY <1>6, Zenon DEF Phase1
  <2>2. TypeOK'
    BY <2>1, Zenon DEF Phase1, IInv, TypeOK, planVars, kvVars, arenaVars, weightVars, taskVars
  <2>3. nStore = MaxStore
    <3>1. nComp > MaxComp - BalanceChunks => nStore = MaxStore
      BY <1>1 DEF IInv, LoopInv
    <3> QED
      BY <1>3, <1>6, <3>1 DEF Processed, BoundChunks
  <2>4. LoopInv'
    BY <1>1, <1>2, <2>1, <2>3 DEF LoopInv, kvVars
  <2> QED
    BY <1>2, <1>4, <2>2, <2>4 DEF IInv
<1> QED
  BY <1>5, <1>6
\* mzcache_compress_chunks returns: to the stores of phase 1, or to the unload.
LEMMA CompressDoneStep == ASSUME SizeLaws, Consistent, CompressDone PROVE Consistent'
<1> SUFFICES ASSUME IInv PROVE IInv'
  BY DEF Consistent
<1>1. ~Restoring /\ ~Restoring' /\ UNCHANGED <<planVars, kvVars, reads, decomps, wreads, frees>>
  BY DEF CompressDone, Restoring, taskVars
<1>2. /\ PlanInv' /\ CursorInv' /\ LadderShape' /\ RestInv'
      /\ RestoreInv' /\ SyncCountsMissing'
      /\ MaxComp' = MaxComp /\ MaxStore' = MaxStore
  BY <1>1, ControlStep
<1>4. TypeOK'
  <2>1. pc' \in {"store", "unload"} /\ todoC' \in Int
    BY DEF CompressDone
  <2>2. TypeOK
    BY Zenon DEF IInv
  <2> QED
    BY <2>1, <2>2, Zenon DEF CompressDone, TypeOK, loopVars, planVars, kvVars, fileVars, arenaVars,
       weightVars, taskVars
<1>5. LoopInv'
  BY <1>1, <1>2, Zenon DEF CompressDone, IInv, LoopInv, loopVars, kvVars
<1>6. UnloadInv'
  BY DEF CompressDone, IInv, UnloadInv, loopVars, weightVars, taskVars
<1> QED
  BY <1>2, <1>4, <1>5, <1>6 DEF IInv

\* mzcache_store_chunks gives up: the rest of the turn is dropped.
LEMMA StoreOpenFailsStep == ASSUME SizeLaws, Consistent, StoreOpenFails PROVE Consistent'
<1> SUFFICES ASSUME IInv PROVE IInv'
  BY DEF Consistent
<1>1. ~Restoring /\ ~Restoring' /\ UNCHANGED <<planVars, kvVars, reads, decomps, wreads, frees>>
  BY DEF StoreOpenFails, Restoring, taskVars
<1>2. /\ PlanInv' /\ CursorInv' /\ LadderShape' /\ RestInv'
      /\ RestoreInv' /\ SyncCountsMissing'
      /\ MaxComp' = MaxComp /\ MaxStore' = MaxStore
  BY <1>1, ControlStep
<1>4. TypeOK'
  <2>1. todoS' \in Int
    BY DEF StoreOpenFails
  <2>2. TypeOK
    BY Zenon DEF IInv
  <2> QED
    BY <2>1, <2>2, Zenon DEF StoreOpenFails, TypeOK, loopVars, planVars, kvVars, fileVars, arenaVars,
       weightVars, taskVars
<1>5. LoopInv'
  BY <1>1, <1>2 DEF StoreOpenFails, IInv, LoopInv, loopVars, kvVars
<1>6. UnloadInv'
  BY Zenon DEF StoreOpenFails, IInv, UnloadInv, loopVars, weightVars, taskVars
<1> QED
  BY <1>2, <1>4, <1>5, <1>6 DEF IInv

\* The end of a turn of phase 1; only a turn that planned nothing leaves for
\* phase 2.
LEMMA Phase1CheckStep == ASSUME SizeLaws, Consistent, Phase1Check PROVE Consistent'
<1> SUFFICES ASSUME IInv PROVE IInv'
  BY DEF Consistent
<1>1. ~Restoring /\ ~Restoring' /\ UNCHANGED <<planVars, kvVars, reads, decomps, wreads, frees>>
  BY Zenon DEF Phase1Check, Restoring, taskVars
<1>2. /\ PlanInv' /\ CursorInv' /\ LadderShape' /\ RestInv'
      /\ RestoreInv' /\ SyncCountsMissing'
      /\ MaxComp' = MaxComp /\ MaxStore' = MaxStore
  BY <1>1, ControlStep
<1>4. TypeOK'
  <2>1. pc' \in {"idle", "p2", "p1"} /\ todoS' \in Int /\ (fds' = {} \/ fds' = fds)
    BY DEF Phase1Check
  <2>2. TypeOK
    BY Zenon DEF IInv
  <2>3. target' \in Nat
    BY RememberedType, Zenon DEF Phase1Check
  <2> QED
    BY <2>1, <2>2, <2>3, Zenon DEF Phase1Check, TypeOK, loopVars, planVars, kvVars, fileVars, arenaVars,
       weightVars, taskVars
<1>5. LoopInv'
  BY <1>1, <1>2, Zenon DEF Phase1Check, IInv, LoopInv, loopVars, kvVars
<1>6. UnloadInv'
  BY Zenon DEF Phase1Check, IInv, UnloadInv, loopVars, weightVars, taskVars
<1> QED
  BY <1>2, <1>4, <1>5, <1>6 DEF IInv

\* A refused unload ends phase 2.
LEMMA Phase2RefusedStep == ASSUME SizeLaws, Consistent, Phase2Refused PROVE Consistent'
<1> SUFFICES ASSUME IInv PROVE IInv'
  BY DEF Consistent
<1>1. ~Restoring /\ ~Restoring' /\ UNCHANGED <<planVars, kvVars, reads, decomps, wreads, frees>>
  BY DEF Phase2Refused, Restoring, taskVars
<1>2. /\ PlanInv' /\ CursorInv' /\ LadderShape' /\ RestInv'
      /\ RestoreInv' /\ SyncCountsMissing'
      /\ MaxComp' = MaxComp /\ MaxStore' = MaxStore
  BY <1>1, ControlStep
<1>4. TypeOK'
  BY Zenon DEF Phase2Refused, IInv, TypeOK, loopVars, planVars, kvVars, fileVars, arenaVars,
         weightVars, taskVars
<1>5. LoopInv'
  BY <1>1, <1>2, Zenon DEF Phase2Refused, IInv, LoopInv, loopVars, kvVars
<1>6. UnloadInv'
  BY Zenon DEF Phase2Refused, IInv, UnloadInv, loopVars, weightVars, taskVars
<1> QED
  BY <1>2, <1>4, <1>5, <1>6 DEF IInv

\* A failed offload moves nothing.
LEMMA Phase3FailsStep == ASSUME SizeLaws, Consistent, Phase3Fails PROVE Consistent'
<1> SUFFICES ASSUME IInv PROVE IInv'
  BY DEF Consistent
<1>1. ~Restoring /\ ~Restoring' /\ UNCHANGED <<planVars, kvVars, reads, decomps, wreads, frees>>
  BY DEF Phase3Fails, Restoring, taskVars
<1>2. /\ PlanInv' /\ CursorInv' /\ LadderShape' /\ RestInv'
      /\ RestoreInv' /\ SyncCountsMissing'
      /\ MaxComp' = MaxComp /\ MaxStore' = MaxStore
  BY <1>1, ControlStep
<1>4. TypeOK'
  <2>1. target' \in Nat
    BY RememberedType, Zenon DEF Phase3Fails
  <2> QED
    BY <2>1, Zenon DEF Phase3Fails, IInv, TypeOK, planVars, kvVars, fileVars, arenaVars, weightVars, taskVars
<1>5. LoopInv'
  BY <1>1, <1>2, Zenon DEF Phase3Fails, IInv, LoopInv, loopVars, kvVars
<1>6. UnloadInv'
  BY DEF Phase3Fails, IInv, UnloadInv, loopVars, weightVars, taskVars
<1> QED
  BY <1>2, <1>4, <1>5, <1>6 DEF IInv

\* The ladder's bottom: swapout returns.
LEMMA SwapoutEndStep == ASSUME SizeLaws, Consistent, SwapoutEnd PROVE Consistent'
<1> SUFFICES ASSUME IInv PROVE IInv'
  BY DEF Consistent
<1>1. ~Restoring /\ ~Restoring' /\ UNCHANGED <<planVars, kvVars, reads, decomps, wreads, frees>>
  BY DEF SwapoutEnd, Restoring, taskVars
<1>2. /\ PlanInv' /\ CursorInv' /\ LadderShape' /\ RestInv'
      /\ RestoreInv' /\ SyncCountsMissing'
      /\ MaxComp' = MaxComp /\ MaxStore' = MaxStore
  BY <1>1, ControlStep
<1>4. TypeOK'
  <2>1. target' \in Nat
    BY RememberedType, Zenon DEF SwapoutEnd
  <2> QED
    BY <2>1, Zenon DEF SwapoutEnd, IInv, TypeOK, planVars, kvVars, fileVars, arenaVars, weightVars, taskVars
<1>5. LoopInv'
  BY <1>1, <1>2, Zenon DEF SwapoutEnd, IInv, LoopInv, loopVars, kvVars
<1>6. UnloadInv'
  BY Zenon DEF SwapoutEnd, IInv, UnloadInv, loopVars, weightVars, taskVars
<1> QED
  BY <1>2, <1>4, <1>5, <1>6 DEF IInv
\* Phase 2 asks for no more chunks than the compress regions still hold: all
\* that is left of the ladder is compressible.
LEMMA Phase2Step == ASSUME SizeLaws, Consistent, Phase2 PROVE Consistent'
<1> SUFFICES ASSUME IInv PROVE IInv'
  BY DEF Consistent
<1>1. ~Restoring /\ ~Restoring' /\ UNCHANGED <<planVars, kvVars, reads, decomps, wreads, frees>>
  BY DEF Phase2, Restoring, taskVars
<1>2. /\ PlanInv' /\ CursorInv' /\ LadderShape' /\ RestInv'
      /\ RestoreInv' /\ SyncCountsMissing'
      /\ MaxComp' = MaxComp /\ MaxStore' = MaxStore
  BY <1>1, ControlStep
<1>3. /\ nComp \in 0 .. MaxComp /\ nStore = MaxStore /\ MaxComp \in Nat /\ MaxStore \in Nat
      /\ MaxComp + MaxStore = TotalChunks
  BY <1>1, RegionFacts, TakenFacts, Zenon DEF Phase2, IInv, RestInv, LoopInv
<1>4. BalanceTurn \in Int /\ nComp + BalanceTurn <= MaxComp
  BY <1>3, LadderAssumption DEF BalanceTurn, Min2, Processed
<1>5. TypeOK'
  BY <1>4, Zenon DEF Phase2, IInv, TypeOK, loopVars, planVars, kvVars, fileVars, arenaVars,
         weightVars, taskVars
<1>6. LoopInv'
  BY <1>1, <1>2, <1>4, Zenon DEF Phase2, IInv, LoopInv, kvVars
<1>7. UnloadInv'
  BY Zenon DEF Phase2, IInv, UnloadInv, weightVars, taskVars
<1> QED
  BY <1>2, <1>5, <1>6, <1>7 DEF IInv

\* mzcache_unload_layers(1): while phase 2 has rounds left, a layer is resident.
LEMMA Phase2UnloadStep == ASSUME SizeLaws, Consistent, Phase2Unload PROVE Consistent'
<1> SUFFICES ASSUME IInv PROVE IInv'
  BY DEF Consistent
<1>1. ~Restoring /\ ~Restoring' /\ UNCHANGED <<planVars, kvVars, reads, decomps, wreads, frees>>
  BY DEF Phase2Unload, Restoring, taskVars
<1>2. /\ PlanInv' /\ CursorInv' /\ LadderShape' /\ RestInv'
      /\ RestoreInv' /\ SyncCountsMissing'
      /\ MaxComp' = MaxComp /\ MaxStore' = MaxStore
  BY <1>1, ControlStep
<1>3. /\ NumLayers \in Nat /\ rounds \in Nat \ {0} /\ nUnload \in Nat /\ wL \in Int
      /\ rounds = NumLayers - nUnload /\ wL = NumLayers - 1 - nUnload
      /\ wreads = {} /\ weights = 0 .. wL
  <2>1. rounds \in Nat /\ nUnload \in 0 .. NumLayers /\ wL \in -1 .. NumLayers - 1
    BY Zenon DEF IInv, TypeOK
  <2>2. /\ rounds > 0 /\ rounds = NumLayers - nUnload /\ wL = NumLayers - 1 - nUnload
        /\ wreads = {} /\ weights = 0 .. wL
    BY <1>1 DEF Phase2Unload, IInv, UnloadInv
  <2> QED
    BY <2>1, <2>2, LadderAssumption
<1>4. /\ rounds' = rounds - 1 /\ wL' = wL - 1 /\ nUnload' = nUnload + 1
      /\ weights' = weights \ {wL} /\ wreads' = wreads
      /\ pc' \in {"idle", "p2", "p3"}
  BY DEF Phase2Unload, UnloadOne, taskVars
<1>5. weights' = 0 .. wL'
  BY <1>3, <1>4
<1>6. TypeOK'
  <2>1. /\ rounds' \in Nat /\ wL' \in -1 .. NumLayers - 1 /\ nUnload' \in 0 .. NumLayers
        /\ weights' \subseteq Layers
    BY <1>3, <1>4 DEF IInv, TypeOK
  <2>2. target' \in Nat
    BY RememberedType, Zenon DEF Phase2Unload
  <2> QED
    BY <1>4, <2>1, <2>2, Zenon DEF Phase2Unload, IInv, TypeOK, planVars, kvVars, fileVars, arenaVars, taskVars
<1>7. LoopInv'
  BY <1>1, <1>2, <1>4, Zenon DEF Phase2Unload, IInv, LoopInv, kvVars
<1>8. UnloadInv'
  BY <1>3, <1>4, <1>5 DEF UnloadInv
<1> QED
  BY <1>2, <1>6, <1>7, <1>8 DEF IInv

\* mzcache_offload_arenas moves arena bytes only.
LEMMA Phase3Step == ASSUME SizeLaws, Consistent, Phase3 PROVE Consistent'
<1> SUFFICES ASSUME IInv PROVE IInv'
  BY DEF Consistent
<1>1. ~Restoring /\ ~Restoring' /\ UNCHANGED <<planVars, kvVars, reads, decomps, wreads, frees>>
  BY Zenon DEF Phase3, Restoring, taskVars
<1>2. /\ PlanInv' /\ CursorInv' /\ LadderShape' /\ RestInv'
      /\ RestoreInv' /\ SyncCountsMissing'
      /\ MaxComp' = MaxComp /\ MaxStore' = MaxStore
  BY <1>1, ControlStep
<1>3. nextOff \in Layers /\ nextOff - 1 \in -1 .. NumLayers - 1 /\ arenaTop[nextOff] \in Nat
  <2>1. NumLayers \in Nat
    BY LadderAssumption, Zenon
  <2>2. nextOff \in -1 .. NumLayers - 1 /\ nextOff >= 0 /\ arenaTop \in [Layers -> Nat]
    BY Zenon DEF Phase3, IInv, TypeOK
  <2> QED
    BY <2>1, <2>2 DEF Layers
<1>4. Pad(arenaTop[nextOff]) \in Int
  <2>1. /\ PageBytes \in Nat \ {0} /\ arenaTop[nextOff] + PageBytes - 1 \in Nat
    BY <1>3, LadderAssumption
  <2>2. (arenaTop[nextOff] + PageBytes - 1) \div PageBytes \in Nat
    BY <2>1, DivFacts
  <2> QED
    BY <2>1, <2>2, ProductOrder DEF Pad
<1>5. TypeOK'
  <2>1. /\ UNCHANGED <<todoC, todoS, stuck, rounds>>
        /\ UNCHANGED <<nChunks, coreChunks, allocated, pending, bound>>
        /\ UNCHANGED <<st, cL, cC, sL, sC, nComp, nStore, saved, fds, file, cycle>>
        /\ UNCHANGED <<wL, nUnload, weights, sync, compLeft, decompNum, loadNum>>
        /\ UNCHANGED <<todoL, todoD, reads, decomps, wreads, frees>>
    BY Zenon DEF Phase3, planVars, kvVars, fileVars, weightVars, taskVars
  <2>2. TypeOK
    BY DEF IInv
  <2>3. /\ arenaTop' \in [Layers -> Nat] /\ offUsed' \in [Layers -> Nat]
        /\ nextOff' \in -1 .. NumLayers - 1 /\ offBytes' \in Int
    <3>1. arenaTop \in [Layers -> Nat] /\ offUsed \in [Layers -> Nat] /\ offBytes \in Int
      BY <2>2, Zenon DEF TypeOK
    <3> QED
      BY <1>3, <1>4, <3>1 DEF Phase3
  <2>4. pc' \in {"idle", "p3"}
    BY DEF Phase3
  <2>5. target' \in Nat
    BY RememberedType, Zenon DEF Phase3
  <2> QED
    BY <2>1, <2>2, <2>3, <2>4, <2>5, Zenon DEF TypeOK
<1>6. LoopInv'
  BY <1>1, <1>2, Zenon DEF Phase3, IInv, LoopInv, loopVars, kvVars
<1>7. UnloadInv'
  BY Zenon DEF Phase3, IInv, UnloadInv, loopVars, weightVars, taskVars
<1> QED
  BY <1>2, <1>5, <1>6, <1>7 DEF IInv

\* The application unloads one more layer between swaps.
LEMMA AppUnloadStep == ASSUME SizeLaws, Consistent, AppUnload PROVE Consistent'
<1> SUFFICES ASSUME IInv PROVE IInv'
  BY DEF Consistent
<1>1. ~Restoring /\ ~Restoring' /\ UNCHANGED <<planVars, kvVars, reads, decomps, wreads, frees>>
  BY DEF AppUnload, Restoring, taskVars
<1>2. /\ PlanInv' /\ CursorInv' /\ LadderShape' /\ RestInv'
      /\ RestoreInv' /\ SyncCountsMissing'
      /\ MaxComp' = MaxComp /\ MaxStore' = MaxStore
  BY <1>1, ControlStep
<1>3. /\ NumLayers \in Nat /\ nUnload \in Nat /\ wL \in Nat /\ wL = NumLayers - 1 - nUnload
      /\ wreads = {} /\ weights = 0 .. wL
  <2>1. NumLayers \in Nat
    BY LadderAssumption, Zenon
  <2>2. /\ nUnload \in 0 .. NumLayers /\ wL \in -1 .. NumLayers - 1 /\ wL >= 0
        /\ wL = NumLayers - 1 - nUnload /\ wreads = {} /\ weights = 0 .. wL
    BY Zenon DEF AppUnload, IInv, TypeOK, UnloadInv
  <2> QED
    BY <2>1, <2>2
<1>4. /\ wL' = wL - 1 /\ nUnload' = nUnload + 1
      /\ weights' = weights \ {wL} /\ wreads' = wreads /\ pc' = "idle" /\ pc = "idle"
  BY DEF AppUnload, UnloadOne, taskVars
<1>5. weights' = 0 .. wL'
  BY <1>3, <1>4
<1>6. TypeOK'
  <2>1. /\ wL' \in -1 .. NumLayers - 1 /\ nUnload' \in 0 .. NumLayers
        /\ weights' \subseteq Layers
    BY <1>3, <1>4 DEF IInv, TypeOK
  <2> QED
    BY <1>4, <2>1, Zenon
       DEF AppUnload, IInv, TypeOK, loopVars, planVars, kvVars, fileVars, arenaVars, taskVars
<1>7. LoopInv'
  BY <1>1, <1>2, <1>4, Zenon DEF IInv, LoopInv, kvVars
<1>8. UnloadInv'
  BY <1>3, <1>4, <1>5 DEF UnloadInv
<1> QED
  BY <1>2, <1>6, <1>7, <1>8 DEF IInv

-----------------------------------------------------------------------------
(* Swap-out steps that move a cursor or a chunk.                           *)

\* The compress cursor steps to the next lower layer: the chunks still asked
\* for lie in layers below, so it stays on the layers.
LEMMA CompressSkipStep == ASSUME SizeLaws, Consistent, CompressSkip PROVE Consistent'
<1> SUFFICES ASSUME IInv PROVE IInv'
  BY DEF Consistent
<1>1. /\ ~Restoring /\ ~Restoring' /\ pc' = pc /\ cL' = cL - 1 /\ cC < 0 /\ todoC > 0
      /\ pc \in {"compress1", "compress2"}
      /\ UNCHANGED <<bound, nChunks, coreChunks, st, sL, sC, nComp, nStore>>
      /\ UNCHANGED <<reads, decomps, wreads, frees, todoC, todoS, stuck, rounds>>
      /\ UNCHANGED <<wL, nUnload, weights>>
  BY Zenon DEF CompressSkip, Restoring, planVars, taskVars, loopVars, weightVars
<1>2. /\ CompRegion(bound)' = CompRegion(bound)
      /\ StoreRegion(bound, nChunks)' = StoreRegion(bound, nChunks)
      /\ MaxComp' = MaxComp /\ MaxStore' = MaxStore
  BY <1>1, SamePlan, Zenon
<1>3. nComp < MaxComp
  <2>1. nComp \in Nat /\ todoC \in Int /\ MaxComp \in Nat /\ BalanceChunks \in Nat
    BY RegionFacts, BalanceType, Zenon DEF IInv, TypeOK
  <2>2. nComp + todoC <= MaxComp \/ nComp + todoC <= MaxComp - BalanceChunks
    BY <1>1, Zenon DEF IInv, LoopInv
  <2> QED
    BY <1>1, <2>1, <2>2
<1>4. PICK p \in CompRegion(bound) : p \notin CompTaken
  BY <1>1, <1>3, RestFacts, TakenFacts, Zenon DEF IInv
<1>5. p[1] < cL
  <2>1. p \in Pairs /\ ~(p[1] > cL) /\ ~(p[1] = cL /\ p[2] > cC)
    BY <1>4, RegionFacts, Zenon DEF IInv, CompTaken
  <2> QED
    BY <1>1, <2>1, CursorFacts
<1>6. cL - 1 \in Layers /\ cL - 1 >= 0 /\ cC' = bound[cL - 1] - 1
  <2>1. cL - 1 \in Layers /\ cL - 1 >= 0
    <3>1. p[1] \in Nat
      BY <1>4, RegionFacts, CursorFacts, Zenon DEF IInv
    <3> QED
      BY <1>5, <3>1, CursorFacts DEF Layers
  <2> QED
    BY <2>1, Zenon DEF CompressSkip
<1>7. CompTaken' = CompTaken /\ StoreTaken' = StoreTaken
  <2>1. StoreTaken' = StoreTaken
    BY <1>1, <1>2, Zenon DEF StoreTaken
  <2>2. ASSUME NEW q \in CompRegion(bound)
        PROVE  (q[1] > cL' \/ (q[1] = cL' /\ q[2] > cC')) <=> (q[1] > cL \/ (q[1] = cL /\ q[2] > cC))
    <3>1. q[1] \in Layers /\ q[1] \in Nat /\ q[2] \in Nat /\ q[2] < bound[q[1]]
      BY <2>2, RegionFacts, CursorFacts, Zenon DEF IInv, CompRegion
    <3> QED
      BY <1>1, <1>6, <3>1, CursorFacts
  <2>3. CompTaken' = CompTaken
    BY <1>2, <2>2, Zenon DEF CompTaken
  <2> QED
    BY <2>1, <2>3
<1>8. TypeOK'
  <2>1. cL' \in Int /\ cC' \in Int
    BY <1>1, <1>6, CursorFacts
  <2> QED
    BY <2>1, Zenon DEF CompressSkip, IInv, TypeOK, loopVars, planVars, fileVars, arenaVars, weightVars,
                taskVars
<1>9. PlanInv'
  BY <1>1, <1>2, Zenon DEF IInv, PlanInv, Monotone
<1>10. CursorInv'
  <2>1. cL' \in Layers /\ cC' \in -1 .. bound[cL'] - 1
    BY <1>1, <1>6, CursorFacts
  <2> QED
    BY <1>1, <2>1, Zenon DEF IInv, CursorInv
<1>11. LadderShape' /\ RestInv'
  BY <1>1, <1>7, Zenon DEF IInv, LadderShape, InState, RestInv
<1>12. LoopInv' /\ UnloadInv'
  BY <1>1, <1>2, Zenon DEF IInv, LoopInv, UnloadInv
<1>13. RestoreInv' /\ SyncCountsMissing'
  BY <1>1, Zenon DEF RestoreInv, SyncCountsMissing
<1> QED
  BY <1>8, <1>9, <1>10, <1>11, <1>12, <1>13, Zenon DEF IInv

\* One chunk is compressed: the chunk at the cursor, which was raw.
LEMMA CompressOneStep == ASSUME SizeLaws, Consistent, CompressOne PROVE Consistent'
<1> SUFFICES ASSUME IInv PROVE IInv'
  BY DEF Consistent
<1> DEFINE x == <<cL, cC>>
<1>1. /\ ~Restoring /\ ~Restoring' /\ pc' = pc /\ cL' = cL /\ cC' = cC - 1 /\ cC >= 0
      /\ pc \in {"compress1", "compress2"} /\ todoC > 0 /\ todoC' = todoC - 1
      /\ nComp' = nComp + 1 /\ st' = [st EXCEPT ![cL][cC] = "Compressed"]
      /\ UNCHANGED <<bound, nChunks, coreChunks, sL, sC, nStore>>
      /\ UNCHANGED <<reads, decomps, wreads, frees, todoS, stuck, rounds>>
      /\ UNCHANGED <<wL, nUnload, weights>>
  BY Zenon DEF CompressOne, Restoring, planVars, taskVars, weightVars
<1>2. /\ CompRegion(bound)' = CompRegion(bound)
      /\ StoreRegion(bound, nChunks)' = StoreRegion(bound, nChunks)
      /\ MaxComp' = MaxComp /\ MaxStore' = MaxStore
  BY <1>1, SamePlan, Zenon
<1>3. x \in CompRegion(bound) /\ x \notin CompTaken /\ x \notin StoreTaken /\ cC \in Chunks
  <2>1. cC \in Chunks
    BY <1>1, CursorFacts DEF Chunks
  <2>2. x \in CompRegion(bound)
    BY <1>1, <2>1, CursorFacts, Zenon DEF CompRegion
  <2>3. x \notin StoreTaken
    BY <2>2, RegionFacts DEF IInv
  <2>4. x \notin CompTaken
    BY <1>1, CursorFacts DEF CompTaken
  <2> QED
    BY <2>1, <2>2, <2>3, <2>4
<1>4. CompTaken' = CompTaken \cup {x} /\ StoreTaken' = StoreTaken
  <2>1. StoreTaken' = StoreTaken
    BY <1>1, <1>2, Zenon DEF StoreTaken
  <2>2. ASSUME NEW q \in CompRegion(bound)
        PROVE  (q[1] > cL' \/ (q[1] = cL' /\ q[2] > cC'))
                 <=> (q[1] > cL \/ (q[1] = cL /\ q[2] > cC)) \/ q = x
    <3>1. q[1] \in Layers /\ q[1] \in Nat /\ q[2] \in Nat /\ q = <<q[1], q[2]>>
      BY <2>2, RegionFacts, CursorFacts, Zenon DEF IInv
    <3>2. q = x <=> q[1] = cL /\ q[2] = cC
      BY <3>1
    <3> QED
      <4>1. cL' = cL /\ cC' = cC - 1
        BY <1>1, Zenon
      <4>2. cL \in Nat /\ cC \in Int
        BY CursorFacts, Zenon
      <4> QED
        BY <3>1, <3>2, <4>1, <4>2
  <2>3. CompTaken' = CompTaken \cup {x}
    BY <1>2, <1>3, <2>2, Zenon DEF CompTaken
  <2> QED
    BY <2>1, <2>3
<1>5. Cardinality(CompTaken') = nComp'
  <2>1. IsFiniteSet(CompTaken) /\ x \notin CompTaken
    BY <1>3, RegionFacts, Zenon DEF IInv
  <2>2. Cardinality(CompTaken \cup {x}) = Cardinality(CompTaken) + 1
    BY <2>1, Zenon DEF SizeLaws, ElementLaw
  <2>3. nComp = Cardinality(CompTaken) /\ nComp' = nComp + 1
    BY <1>1, RestFacts, Zenon DEF IInv
  <2> QED
    BY <1>4, <2>2, <2>3, Zenon
<1>6. /\ InState("Compressed")' = InState("Compressed") \cup {x}
      /\ InState("Stored")' = InState("Stored")
  <2>1. x \in Pairs /\ x \notin InState("Stored")
    BY <1>1, <1>3, RestFacts, RegionFacts, Zenon DEF IInv
  <2>2. ASSUME NEW q \in Pairs
        PROVE  st'[q[1]][q[2]] = IF q = x THEN "Compressed" ELSE st[q[1]][q[2]]
    <3>1. q[1] \in Layers /\ q[2] \in Chunks /\ q = <<q[1], q[2]>>
      BY DEF Pairs
    <3>2. st \in [Layers -> [Chunks -> ChunkStates]]
      BY Zenon DEF IInv, TypeOK
    <3> QED
      BY <1>1, <1>3, <3>1, <3>2, CursorFacts, Zenon
  <2> QED
    BY <2>1, <2>2, Zenon DEF InState
<1>7. TypeOK'
  <2>1. cC' \in Int /\ todoC' \in Int /\ nComp' \in Nat /\ saved' \in Int
    <3>1. /\ cC \in Int /\ todoC \in Int /\ nComp \in Nat /\ saved \in Int
      BY Zenon DEF IInv, TypeOK
    <3>2. RawBytes \in Int /\ CompBytes \in Int /\ MetaBytes \in Int
      BY LadderAssumption
    <3>3. saved' = SavedWithOne
      BY DEF CompressOne
    <3>4. SavedWithOne \in Int
      BY <3>1, <3>2 DEF SavedWithOne
    <3> QED
      BY <1>1, <3>1, <3>3, <3>4
  <2>2. st' \in [Layers -> [Chunks -> ChunkStates]]
    BY <1>1, Zenon DEF IInv, TypeOK, ChunkStates
  <2>3. arenaTop' \in [Layers -> Nat]
    <3>1. /\ arenaTop \in [Layers -> Nat] /\ CompBytes \in Nat
          /\ arenaTop' = [arenaTop EXCEPT ![cL] = @ + CompBytes]
      BY LadderAssumption, Zenon DEF CompressOne, IInv, TypeOK
    <3>2. arenaTop[cL] + CompBytes \in Nat
      BY <3>1, CursorFacts
    <3> QED
      BY <3>1, <3>2, Zenon
  <2> QED
    BY <2>1, <2>2, <2>3, Zenon DEF CompressOne, IInv, TypeOK, planVars, fileVars, weightVars, taskVars
<1>8. PlanInv'
  BY <1>1, <1>2, Zenon DEF IInv, PlanInv, Monotone
<1>9. CursorInv'
  <2>1. cC' \in -1 .. bound[cL'] - 1
    BY <1>1, CursorFacts
  <2> QED
    BY <1>1, <2>1, Zenon DEF IInv, CursorInv
<1>10. LadderShape' /\ RestInv'
  BY <1>1, <1>4, <1>5, <1>6, RestFacts, Zenon DEF LadderShape, RestInv
<1>11. LoopInv' /\ UnloadInv'
  <2>1. nComp \in Nat /\ todoC \in Int /\ MaxComp \in Nat /\ BalanceChunks \in Nat
    BY RegionFacts, BalanceType, Zenon DEF IInv, TypeOK
  <2>2. nComp' + todoC' = nComp + todoC
    BY <1>1, <2>1
  <2>3. /\ pc = "compress1" => nComp + todoC <= MaxComp - BalanceChunks
        /\ pc = "compress2" => nComp + todoC <= MaxComp /\ nStore = MaxStore
    BY <1>1, Zenon DEF IInv, LoopInv
  <2>4. nComp' > MaxComp - BalanceChunks => nStore = MaxStore
    BY <1>1, <2>1, <2>3
  <2>5. LoopInv'
    BY <1>1, <1>2, <2>2, <2>3, <2>4, Zenon DEF IInv, LoopInv
  <2>6. UnloadInv'
    BY <1>1, Zenon DEF IInv, UnloadInv
  <2> QED
    BY <2>5, <2>6
<1>12. RestoreInv' /\ SyncCountsMissing'
  BY <1>1, Zenon DEF RestoreInv, SyncCountsMissing
<1> QED
  BY <1>7, <1>8, <1>9, <1>10, <1>11, <1>12 DEF IInv
\* The store cursor steps to the next lower layer: the chunks still asked for
\* lie in layers below, so it stays on the layers, and as chunk_bound is
\* monotone the layer it leaves does store something.
LEMMA StoreSkipStep == ASSUME SizeLaws, Consistent, StoreSkip PROVE Consistent'
<1> SUFFICES ASSUME IInv PROVE IInv'
  BY DEF Consistent
<1>1. /\ ~Restoring /\ ~Restoring' /\ pc' = pc /\ pc = "store" /\ todoS > 0
      /\ sL' = sL - 1 /\ sC < bound[sL] /\ sC' = nChunks - 1
      /\ UNCHANGED <<bound, nChunks, coreChunks, st, cL, cC, nComp, nStore>>
      /\ UNCHANGED <<reads, decomps, wreads, frees, todoC, todoS, stuck, rounds>>
      /\ UNCHANGED <<wL, nUnload, weights>>
  BY Zenon DEF StoreSkip, NextStoreChunk, Restoring, planVars, taskVars, loopVars, weightVars
<1>2. /\ CompRegion(bound)' = CompRegion(bound)
      /\ StoreRegion(bound, nChunks)' = StoreRegion(bound, nChunks)
      /\ MaxComp' = MaxComp /\ MaxStore' = MaxStore
  BY <1>1, SamePlan, Zenon
<1>3. nStore < MaxStore
  <2>1. nStore \in Nat /\ todoS \in Int /\ MaxStore \in Nat
    BY RegionFacts, Zenon DEF IInv, TypeOK
  <2>2. nStore + todoS <= MaxStore
    BY <1>1, Zenon DEF IInv, LoopInv
  <2> QED
    BY <1>1, <2>1, <2>2
<1>4. PICK p \in StoreRegion(bound, nChunks) : p \notin StoreTaken
  BY <1>1, <1>3, RestFacts, TakenFacts, Zenon DEF IInv
<1>5. p \in Pairs /\ bound[p[1]] <= p[2] /\ p[2] < nChunks
  BY <1>4, RegionFacts, Zenon DEF IInv, StoreRegion
<1>6. p[1] < sL
  <2>1. ~(p[1] > sL) /\ ~(p[1] = sL /\ p[2] > sC)
    BY <1>4 DEF StoreTaken
  <2>2. p[1] = sL => bound[sL] <= p[2]
    BY <1>5
  <2> QED
    BY <1>1, <1>5, <2>1, <2>2, CursorFacts
<1>7. bound[sL] < nChunks
  <2>1. p[1] \in Layers /\ p[1] <= sL /\ bound[p[1]] \in Nat /\ bound[sL] \in Nat /\ p[2] \in Nat
    BY <1>5, <1>6, CursorFacts
  <2>2. bound[sL] <= bound[p[1]]
    BY <2>1, CursorFacts, Zenon DEF IInv, PlanInv, Monotone
  <2> QED
    BY <1>5, <2>1, <2>2, CursorFacts
<1>8. sL - 1 \in Layers
  BY <1>5, <1>6, CursorFacts DEF Layers
<1>9. CompTaken' = CompTaken /\ StoreTaken' = StoreTaken
  <2>1. CompTaken' = CompTaken
    BY <1>1, <1>2, Zenon DEF CompTaken
  <2>2. ASSUME NEW q \in StoreRegion(bound, nChunks)
        PROVE  (q[1] > sL' \/ (q[1] = sL' /\ q[2] > sC')) <=> (q[1] > sL \/ (q[1] = sL /\ q[2] > sC))
    <3>1. /\ q[1] \in Layers /\ q[1] \in Nat /\ q[2] \in Nat /\ bound[q[1]] <= q[2] /\ q[2] < nChunks
          /\ q[1] = sL => bound[sL] <= q[2]
      BY <2>2, RegionFacts, CursorFacts, Zenon DEF IInv, StoreRegion
    <3> QED
      BY <1>1, <1>8, <3>1, CursorFacts
  <2>3. StoreTaken' = StoreTaken
    BY <1>2, <2>2, Zenon DEF StoreTaken
  <2> QED
    BY <2>1, <2>3
<1>10. TypeOK'
  <2>1. sL' \in Int /\ sC' \in Int
    BY <1>1, <1>8, CursorFacts
  <2> QED
    BY <2>1, Zenon DEF StoreSkip, IInv, TypeOK, loopVars, planVars, arenaVars, weightVars, taskVars
<1>11. PlanInv'
  BY <1>1, <1>2, Zenon DEF IInv, PlanInv, Monotone
<1>12. CursorInv'
  <2>1. sL' \in Layers /\ sC' \in bound[sL'] - 1 .. nChunks - 1 /\ sL' + 1 = sL
    BY <1>1, <1>8, CursorFacts
  <2> QED
    BY <1>1, <1>7, <2>1, Zenon DEF IInv, CursorInv
<1>13. LadderShape' /\ RestInv'
  BY <1>1, <1>9, Zenon DEF IInv, LadderShape, InState, RestInv
<1>14. LoopInv' /\ UnloadInv'
  BY <1>1, <1>2, Zenon DEF IInv, LoopInv, UnloadInv
<1>15. RestoreInv' /\ SyncCountsMissing'
  BY <1>1, Zenon DEF RestoreInv, SyncCountsMissing
<1> QED
  BY <1>10, <1>11, <1>12, <1>13, <1>14, <1>15, Zenon DEF IInv

\* A write went through or failed.
LEMMA OutcomesFacts == Outcomes \subseteq BOOLEAN
<1>1. IoFaults \in BOOLEAN
  BY LadderAssumption, Zenon
<1> QED
  BY <1>1, Zenon DEF Outcomes

\* One chunk is stored: the chunk at the cursor, which was raw.
LEMMA StoreOneStep == ASSUME SizeLaws, Consistent, StoreOne PROVE Consistent'
<1> SUFFICES ASSUME IInv PROVE IInv'
  BY DEF Consistent
<1> DEFINE x == <<sL, sC>>
<1>1. /\ ~Restoring /\ ~Restoring' /\ pc' = pc /\ sL' = sL /\ sC' = sC - 1 /\ sC >= bound[sL]
      /\ pc = "store" /\ todoS > 0 /\ todoS' = todoS - 1
      /\ nStore' = nStore + 1 /\ st' = [st EXCEPT ![sL][sC] = "Stored"]
      /\ UNCHANGED <<bound, nChunks, coreChunks, cL, cC, nComp>>
      /\ UNCHANGED <<reads, decomps, wreads, frees, todoC, stuck, rounds>>
      /\ UNCHANGED <<wL, nUnload, weights>>
  BY Zenon DEF StoreOne, Restoring, planVars, taskVars, weightVars
<1>2. /\ CompRegion(bound)' = CompRegion(bound)
      /\ StoreRegion(bound, nChunks)' = StoreRegion(bound, nChunks)
      /\ MaxComp' = MaxComp /\ MaxStore' = MaxStore
  BY <1>1, SamePlan, Zenon
<1>3. /\ x \in StoreRegion(bound, nChunks) /\ x \notin CompTaken /\ x \notin StoreTaken
      /\ sC \in Chunks
  <2>1. sC \in Chunks
    BY <1>1, CursorFacts DEF Chunks
  <2>2. x \in StoreRegion(bound, nChunks)
    BY <1>1, <2>1, CursorFacts, Zenon DEF StoreRegion
  <2>3. x \notin CompTaken
    BY <2>2, RegionFacts DEF IInv
  <2>4. x \notin StoreTaken
    BY <1>1, CursorFacts DEF StoreTaken
  <2> QED
    BY <2>1, <2>2, <2>3, <2>4
<1>4. StoreTaken' = StoreTaken \cup {x} /\ CompTaken' = CompTaken
  <2>1. CompTaken' = CompTaken
    BY <1>1, <1>2, Zenon DEF CompTaken
  <2>2. ASSUME NEW q \in StoreRegion(bound, nChunks)
        PROVE  (q[1] > sL' \/ (q[1] = sL' /\ q[2] > sC'))
                 <=> (q[1] > sL \/ (q[1] = sL /\ q[2] > sC)) \/ q = x
    <3>1. q[1] \in Layers /\ q[1] \in Nat /\ q[2] \in Nat /\ q = <<q[1], q[2]>>
      BY <2>2, RegionFacts, CursorFacts, Zenon DEF IInv
    <3>2. q = x <=> q[1] = sL /\ q[2] = sC
      BY <3>1
    <3> QED
      BY <1>1, <3>1, <3>2, CursorFacts
  <2>3. StoreTaken' = StoreTaken \cup {x}
    BY <1>2, <1>3, <2>2, Zenon DEF StoreTaken
  <2> QED
    BY <2>1, <2>3
<1>5. Cardinality(StoreTaken') = nStore'
  <2>1. IsFiniteSet(StoreTaken) /\ x \notin StoreTaken
    BY <1>3, RegionFacts, Zenon DEF IInv
  <2>2. Cardinality(StoreTaken \cup {x}) = Cardinality(StoreTaken) + 1
    BY <2>1, Zenon DEF SizeLaws, ElementLaw
  <2>3. nStore = Cardinality(StoreTaken) /\ nStore' = nStore + 1
    BY <1>1, RestFacts, Zenon DEF IInv
  <2> QED
    BY <1>4, <2>2, <2>3, Zenon
<1>6. /\ InState("Stored")' = InState("Stored") \cup {x}
      /\ InState("Compressed")' = InState("Compressed")
  <2>1. x \in Pairs /\ x \notin InState("Compressed")
    BY <1>1, <1>3, RestFacts, RegionFacts, Zenon DEF IInv
  <2>2. ASSUME NEW q \in Pairs
        PROVE  st'[q[1]][q[2]] = IF q = x THEN "Stored" ELSE st[q[1]][q[2]]
    <3>1. q[1] \in Layers /\ q[2] \in Chunks /\ q = <<q[1], q[2]>>
      BY DEF Pairs
    <3>2. st \in [Layers -> [Chunks -> ChunkStates]]
      BY Zenon DEF IInv, TypeOK
    <3> QED
      BY <1>1, <1>3, <3>1, <3>2, CursorFacts, Zenon
  <2> QED
    BY <2>1, <2>2, Zenon DEF InState
<1>7. TypeOK'
  <2>1. sC' \in Int /\ todoS' \in Int /\ nStore' \in Nat
    <3>1. sC \in Int /\ todoS \in Int /\ nStore \in Nat
      BY Zenon DEF IInv, TypeOK
    <3>2. sC' = sC - 1 /\ todoS' = todoS - 1 /\ nStore' = nStore + 1
      BY <1>1, Zenon
    <3> QED
      BY <3>1, <3>2
  <2>2. st' \in [Layers -> [Chunks -> ChunkStates]]
    BY <1>1, Zenon DEF IInv, TypeOK, ChunkStates
  <2>3. file' \in [Layers -> [Chunks -> (0 .. MaxChunks) \X Nat \X BOOLEAN]]
    <3>1. PICK whole \in BOOLEAN : file' = [file EXCEPT ![sL][StoreSlot] = <<sC, cycle, whole>>]
      BY OutcomesFacts, Zenon DEF StoreOne
    <3>2. <<sC, cycle, whole>> \in (0 .. MaxChunks) \X Nat \X BOOLEAN
      <4>1. sC \in 0 .. MaxChunks
        BY <1>3, CursorFacts DEF Chunks
      <4>2. cycle \in Nat
        BY Zenon DEF IInv, TypeOK
      <4> QED
        BY <4>1, <4>2
    <3> QED
      BY <3>1, <3>2, Zenon DEF IInv, TypeOK
  <2>4. fds' \subseteq Layers
    BY CursorFacts, Zenon DEF StoreOne, IInv, TypeOK
  <2> QED
    BY <2>1, <2>2, <2>3, <2>4, Zenon DEF StoreOne, IInv, TypeOK, planVars, arenaVars, weightVars, taskVars
<1>8. PlanInv'
  BY <1>1, <1>2, Zenon DEF IInv, PlanInv, Monotone
<1>9. CursorInv'
  <2>1. sC' \in bound[sL'] - 1 .. nChunks - 1
    BY <1>1, CursorFacts
  <2> QED
    BY <1>1, <2>1, Zenon DEF IInv, CursorInv
<1>10. LadderShape' /\ RestInv'
  BY <1>1, <1>4, <1>5, <1>6, RestFacts, Zenon DEF LadderShape, RestInv
<1>11. LoopInv' /\ UnloadInv'
  <2>1. /\ nStore \in Nat /\ todoS \in Int /\ MaxStore \in Nat
        /\ nComp \in Nat /\ MaxComp \in Nat /\ BalanceChunks \in Nat
    BY RegionFacts, BalanceType, Zenon DEF IInv, TypeOK
  <2>2. nStore' + todoS' = nStore + todoS
    BY <1>1, <2>1
  <2>3. nStore + todoS <= MaxStore
    BY <1>1, Zenon DEF IInv, LoopInv
  <2>4. nStore # MaxStore
    BY <1>1, <2>1, <2>3
  <2>5. LoopInv'
    BY <1>1, <1>2, <2>2, <2>3, <2>4, Zenon DEF IInv, LoopInv
  <2>6. UnloadInv'
    BY <1>1, Zenon DEF IInv, UnloadInv
  <2> QED
    BY <2>5, <2>6
<1>12. RestoreInv' /\ SyncCountsMissing'
  BY <1>1, Zenon DEF RestoreInv, SyncCountsMissing
<1> QED
  BY <1>7, <1>8, <1>9, <1>10, <1>11, <1>12 DEF IInv

-----------------------------------------------------------------------------
(* Where the bytes of the compressed chunks are.                           *)

\* What the compressed chunks of a layer are, and how many.
LEMMA CompressedFacts ==
    ASSUME SizeLaws, Consistent, NEW i \in Layers
    PROVE  /\ IsFiniteSet(CompressedIn(i)) /\ Cardinality(CompressedIn(i)) \in Nat
           /\ Cardinality(CompressedIn(i)) = 0 <=> CompressedIn(i) = {}
           /\ CompressedBytes(i) \in Nat
           /\ CompressedIn(i) = {} => CompressedBytes(i) = 0
           /\ CompressedIn(i) = {c \in Chunks : <<i, c>> \in InState("Compressed")}
<1>1. CompressedIn(i) \in SUBSET Chunks
  BY Zenon DEF CompressedIn
<1>2. IsFiniteSet(CompressedIn(i)) /\ Cardinality(CompressedIn(i)) \in Nat
  BY <1>1, PairsFinite, Zenon
<1>3. Cardinality(CompressedIn(i)) = 0 <=> CompressedIn(i) = {}
  BY <1>2, Zenon DEF SizeLaws, EmptyLaw
<1>4. CompressedBytes(i) \in Nat /\ (CompressedIn(i) = {} => CompressedBytes(i) = 0)
  BY <1>2, <1>3, LadderAssumption DEF CompressedBytes
<1>5. CompressedIn(i) = {c \in Chunks : <<i, c>> \in InState("Compressed")}
  BY Zenon DEF CompressedIn, InState, Pairs
<1> QED
  BY <1>2, <1>3, <1>4, <1>5, Zenon

\* Without a compressed chunk no layer has any.
LEMMA NothingCompressed ==
    ASSUME SizeLaws, Consistent, InState("Compressed") = {}
    PROVE  \A i \in Layers : CompressedIn(i) = {} /\ CompressedBytes(i) = 0
  BY CompressedFacts, Zenon

\* Before a swap-in initialize_layer_sync counts the compressed chunks of a layer.
LEMMA CompressedCount ==
    ASSUME SizeLaws, Consistent, ~Restoring, NEW i \in Layers
    PROVE  Cardinality(CompressedIn(i)) = CompressInit(i)
<1> DEFINE b == bound[i]
           k == CompressInit(i)
<1>1. /\ k \in 0 .. b /\ b \in 0 .. nChunks /\ nChunks \in 1 .. MaxChunks /\ MaxChunks \in Nat
      /\ \A c \in Chunks : <<i, c>> \in CompTaken <=> c < b /\ b - k <= c
  BY InitTerms, Zenon DEF Consistent, IInv
<1>2. CompressedIn(i) = {c \in Chunks : <<i, c>> \in CompTaken}
  BY CompressedFacts, RestFacts, Zenon
<1> HIDE DEF b, k
<1>3. CompressedIn(i) = b - k .. b - 1
  BY <1>1, <1>2 DEF Chunks
<1>4. b - k \in Int /\ b - 1 \in Int /\ (IF b - k > b - 1 THEN 0 ELSE (b - 1) - (b - k) + 1) = k
  BY <1>1
<1>5. Cardinality(b - k .. b - 1) = IF b - k > b - 1 THEN 0 ELSE (b - 1) - (b - k) + 1
  BY <1>4, Zenon DEF SizeLaws, IntervalLaw
<1> QED
  BY <1>3, <1>4, <1>5, Zenon DEF k

\* The layers are offloaded from the last one down, and only with everything
\* swapped out.
LEMMA OffloadFacts ==
    ASSUME SizeLaws, Consistent, DataInv
    PROVE  /\ NumLayers \in Nat \ {0} /\ nextOff \in Int /\ -1 <= nextOff /\ nextOff <= NumLayers - 1
           /\ Restoring \/ ~AllSwappedOut => nextOff = NumLayers - 1 /\ offBytes = 0
           /\ \A i \in Layers : i \in Int /\ (nextOff = NumLayers - 1 => ~(i > nextOff))
<1>1. nextOff \in -1 .. NumLayers - 1
  BY Zenon DEF Consistent, IInv, TypeOK
<1>2. NumLayers \in Nat \ {0}
  BY LadderAssumption
<1>3. Restoring \/ ~AllSwappedOut => nextOff = NumLayers - 1
  BY <1>1, <1>2 DEF DataInv, ArenaInv
<1> QED
  BY <1>1, <1>2, <1>3 DEF DataInv, ArenaInv, Layers

\* What the counters of a swapout stay below.
LEMMA CounterBounds ==
    ASSUME SizeLaws, Consistent, ~Restoring
    PROVE  /\ nComp \in Nat /\ nStore \in Nat /\ nComp <= MaxComp /\ nStore <= MaxStore
           /\ MaxComp \in Nat /\ MaxStore \in Nat /\ MaxComp + MaxStore = TotalChunks
           /\ nComp = 0 => InState("Compressed") = {}
           /\ nComp < MaxComp \/ nStore < MaxStore => ~AllSwappedOut
<1>1. /\ MaxComp \in Nat /\ MaxStore \in Nat /\ MaxComp + MaxStore = TotalChunks
  BY RegionFacts DEF Consistent, IInv
<1>2. nComp \in 0 .. MaxComp /\ nStore \in 0 .. MaxStore
  BY TakenFacts, RestFacts, Zenon DEF Consistent, IInv
<1>3. nComp = 0 => InState("Compressed") = {}
  BY TakenFacts, RestFacts, Zenon DEF Consistent, IInv
<1> QED
  BY <1>1, <1>2, <1>3 DEF AllSwappedOut, Processed
-----------------------------------------------------------------------------
(* Steps that touch neither chunks nor bytes.                              *)

\* A chunk that is not stored any more leaves the others' slots alone.
LEMMA FreshKept ==
    ASSUME StoredSlotKept, UNCHANGED <<bound, file, cycle>>,
           InState("Stored")' \subseteq InState("Stored")
    PROVE  StoredSlotKept'
  BY Zenon DEF StoredSlotKept

\* What a step of the control flow leaves alone.
Quiet ==
    /\ UNCHANGED <<st, bound, nChunks, coreChunks, allocated, pending, file, cycle>>
    /\ UNCHANGED <<arenaTop, offUsed, nextOff, offBytes, nComp, nStore, saved>>
    /\ UNCHANGED <<compLeft, decompNum, frees>>
    /\ Restoring' = Restoring
    /\ pc = "idle" => pc' = "idle"
    /\ nUnload' = nUnload \/ nUnload # NumLayers
    /\ pc' \in {"idle", "p2", "compress2", "unload", "p3"} => fds' = {}

\* A step that leaves the chunks, their bytes and their counters alone keeps the
\* data invariant.
LEMMA QuietStep == ASSUME Quiet, DataInv PROVE DataInv'
<1>1. StoredSlotKept'
  <2>1. InState("Stored")' = InState("Stored")
    BY Zenon DEF Quiet, InState
  <2> QED
    BY <2>1, FreshKept, Zenon DEF DataInv, Quiet
<1>2. \A i : CompressedIn(i)' = CompressedIn(i) /\ CompressedBytes(i)' = CompressedBytes(i)
  BY Zenon DEF Quiet, CompressedIn, CompressedBytes
<1>3. nextOff < NumLayers - 1 => AllSwappedOut'
  BY Zenon DEF Quiet, DataInv, ArenaInv, AllSwappedOut, Processed, TotalChunks
<1>4. ArenaInv'
  BY <1>2, <1>3, Zenon DEF Quiet, DataInv, ArenaInv
<1>5. GrowthInv'
  BY Zenon DEF Quiet, DataInv, GrowthInv, Processed
<1>6. BookInv'
  BY Zenon DEF Quiet, DataInv, BookInv
<1> QED
  BY <1>1, <1>4, <1>5, <1>6 DEF DataInv

\* The control steps of swapout_impl: checks, loop ends, skipped layers, weight
\* unloads and the failures of a store file or an arena write.
LEMMA QuietSwapout ==
    ASSUME SizeLaws, Consistent, DataInv,
           \/ Phase1 \/ CompressSkip \/ CompressDone \/ StoreSkip \/ Phase1Check \/ Phase2
           \/ Phase2Unload \/ Phase2Refused \/ SwapoutEnd \/ StoreOpenFails \/ Phase3Fails
    PROVE  Quiet
<1>1. pc \in {"idle", "p2", "compress2", "unload", "p3"} => fds = {}
  BY DEF DataInv, BookInv
<1>2. /\ UNCHANGED <<st, bound, nChunks, coreChunks, allocated, pending, file, cycle>>
      /\ UNCHANGED <<arenaTop, offUsed, nextOff, offBytes, nComp, nStore, saved>>
      /\ UNCHANGED <<compLeft, decompNum, frees>>
      /\ nUnload' = nUnload \/ Phase2Unload
  BY Zenon DEF Phase1, CompressSkip, CompressDone, StoreSkip, StoreOpenFails, Phase1Check, Phase2,
               Phase2Unload, Phase2Refused, SwapoutEnd, Phase3Fails, planVars, kvVars, fileVars,
               arenaVars, weightVars, taskVars
<1>3. \/ pc = "p1" /\ pc' = "compress1" /\ fds' = fds
      \/ pc = "p1" /\ pc' = "p2" /\ fds' = {}
      \/ pc \in {"compress1", "compress2"} /\ pc' = pc /\ fds' = fds
      \/ pc = "compress1" /\ pc' = "store" /\ fds' = fds
      \/ pc = "compress2" /\ pc' = "unload" /\ fds' = fds
      \/ pc = "store" /\ pc' = "store"
      \/ pc = "store" /\ pc' = "p1" /\ fds' = fds
      \/ pc = "store" /\ pc' \in {"idle", "p2"} /\ fds' = {}
      \/ pc \in {"p2", "unload", "p3"} /\ pc' \in {"idle", "p2", "compress2", "p3"} /\ fds' = fds
  <2>1. CASE Phase1 \/ CompressSkip \/ CompressDone
    <3>1. CASE Phase1
      BY <3>1, Zenon DEF Phase1
    <3>2. CASE CompressSkip \/ CompressDone
      BY <3>2, Zenon DEF CompressSkip, CompressDone, fileVars
    <3> QED
      BY <2>1, <3>1, <3>2, Zenon
  <2>2. CASE StoreSkip \/ StoreOpenFails
    BY <2>2, Zenon DEF StoreSkip, StoreOpenFails
  <2>3. CASE Phase1Check
    <3>1. /\ pc = "store"
          /\ \/ pc' \in {"idle", "p2"} /\ fds' = {}
             \/ pc' = "p1" /\ fds' = fds
      BY <2>3, Zenon DEF Phase1Check
    <3> QED
      BY <3>1, Zenon
  <2>4. CASE Phase2 \/ Phase2Refused \/ SwapoutEnd \/ Phase3Fails \/ Phase2Unload
    <3>1. pc \in {"p2", "unload", "p3"} /\ fds' = fds
      BY <2>4, Zenon DEF Phase2, Phase2Refused, SwapoutEnd, Phase3Fails, Phase2Unload, fileVars
    <3>2. pc' \in {"idle", "p2", "compress2", "p3"}
      BY <2>4, Zenon DEF Phase2, Phase2Refused, SwapoutEnd, Phase3Fails, Phase2Unload
    <3> QED
      BY <3>1, <3>2, Zenon
  <2> QED
    BY <2>1, <2>2, <2>3, <2>4, Zenon
<1>4. ASSUME Phase2Unload PROVE nUnload # NumLayers
  <2>1. rounds > 0 /\ rounds = NumLayers - nUnload
    BY <1>4, Zenon DEF Consistent, IInv, UnloadInv, Phase2Unload
  <2>2. nUnload \in 0 .. NumLayers
    BY Zenon DEF Consistent, IInv, TypeOK
  <2> QED
    BY <2>1, <2>2, LadderAssumption
<1>5. /\ Restoring' = Restoring /\ (pc = "idle" => pc' = "idle")
      /\ pc' \in {"idle", "p2", "compress2", "unload", "p3"} => fds' = {}
  BY <1>1, <1>3 DEF Restoring
<1> QED
  BY <1>2, <1>4, <1>5, Zenon DEF Quiet

\* The enqueue loops of swapin_generate, the weight reads and unload_weight called
\* by the application.
LEMMA QuietOther ==
    ASSUME SizeLaws, Consistent, DataInv,
           \/ AppUnload \/ LoadNext \/ LoadDone \/ DecompNext \/ DecompDone \/ ReloadWeights
           \/ (\E i \in Layers : ReadWeights(i)) \/ UNCHANGED vars
    PROVE  Quiet
<1>1. pc \in {"idle", "p2", "compress2", "unload", "p3"} => fds = {}
  BY DEF DataInv, BookInv
<1>2. /\ UNCHANGED <<st, bound, nChunks, coreChunks, allocated, pending, file, cycle>>
      /\ UNCHANGED <<arenaTop, offUsed, nextOff, offBytes, nComp, nStore, saved>>
      /\ UNCHANGED <<compLeft, decompNum, frees>>
      /\ nUnload' = nUnload \/ AppUnload
  BY Zenon DEF AppUnload, LoadNext, LoadDone, DecompNext, DecompDone, ReloadWeights, ReadWeights,
               vars, planVars, kvVars, fileVars, arenaVars, weightVars, taskVars
<1>3. AppUnload => nUnload # NumLayers
  <2>1. AppUnload => wL >= 0 /\ wL = NumLayers - 1 - nUnload
    BY Zenon DEF Consistent, IInv, UnloadInv, AppUnload
  <2>2. nUnload \in 0 .. NumLayers
    BY Zenon DEF Consistent, IInv, TypeOK
  <2> QED
    BY <2>1, <2>2, LadderAssumption
<1>4. CASE AppUnload \/ (\E i \in Layers : ReadWeights(i)) \/ UNCHANGED vars
  <2>1. pc' = pc /\ fds' = fds
    BY <1>4, Zenon DEF AppUnload, ReadWeights, vars, fileVars
  <2> QED
    BY <1>1, <1>2, <1>3, <2>1, Zenon DEF Quiet, Restoring
<1>5. CASE LoadNext \/ LoadDone \/ DecompNext \/ DecompDone \/ ReloadWeights
  <2>1. pc \in {"load", "decomp", "weights"} /\ pc' \in {"load", "decomp", "weights", "finish"}
    BY <1>5, Zenon DEF LoadNext, LoadDone, DecompNext, DecompDone, ReloadWeights
  <2> QED
    BY <1>2, <1>3, <2>1, Zenon DEF Quiet, Restoring
<1> QED
  BY <1>4, <1>5
-----------------------------------------------------------------------------
(* The steps of swapout_impl that move chunks or bytes.                    *)

\* mzcache_compress_chunks: one chunk more in the layer's arena.  The loop was
\* asked for it, so not everything is swapped out and no arena is offloaded.
LEMMA CompressOneData == ASSUME SizeLaws, Consistent, DataInv, CompressOne PROVE DataInv'
<1>1. /\ pc \in {"compress1", "compress2"} /\ ~Restoring /\ ~Restoring' /\ todoC > 0
      /\ cL >= 0 /\ cC >= 0 /\ pc' = pc
      /\ st' = [st EXCEPT ![cL][cC] = "Compressed"]
      /\ arenaTop' = [arenaTop EXCEPT ![cL] = @ + CompBytes]
      /\ saved' = saved + (RawBytes - CompBytes - MetaBytes) /\ nComp' = nComp + 1
      /\ UNCHANGED <<nStore, offUsed, nextOff, offBytes, bound, file, cycle, fds>>
      /\ UNCHANGED <<nChunks, allocated, pending>>
  BY Zenon DEF CompressOne, SavedWithOne, Restoring, planVars, fileVars
<1>2. cL \in Layers /\ cC \in Chunks
  BY <1>1, CursorFacts DEF Chunks
<1>3. /\ st \in [Layers -> [Chunks -> ChunkStates]] /\ arenaTop \in [Layers -> Nat]
      /\ saved \in Int /\ nStore \in Nat /\ todoC \in Int
  BY Zenon DEF Consistent, IInv, TypeOK
<1>4. nextOff = NumLayers - 1 /\ offBytes = 0
  <2>1. nComp + todoC <= MaxComp
    <3>1. \/ nComp + todoC <= MaxComp
          \/ nComp + todoC <= MaxComp - BalanceChunks
      BY <1>1, Zenon DEF Consistent, IInv, LoopInv
    <3> QED
      BY <1>1, <1>3, <3>1, CounterBounds, BalanceType
  <2>2. nComp < MaxComp
    BY <1>1, <1>3, <2>1, CounterBounds
  <2> QED
    BY <1>1, <2>2, CounterBounds, OffloadFacts, Zenon
<1>5. ASSUME NEW i \in Layers, NEW c \in Chunks
      PROVE  st'[i][c] = IF i = cL /\ c = cC THEN "Compressed" ELSE st[i][c]
  BY <1>1, <1>2, <1>3, Zenon
<1>6. InState("Stored")' \subseteq InState("Stored")
  BY <1>5, Zenon DEF InState, Pairs
<1>7. ASSUME NEW i \in Layers, i = cL
      PROVE  CompressedIn(i)' = CompressedIn(i) \cup {cC} /\ cC \notin CompressedIn(i)
  <2>1. <<cL, cC>> \notin CompTaken
    BY <1>2, CursorFacts DEF CompTaken
  <2>2. <<cL, cC>> \notin InState("Compressed")
    BY <1>1, <2>1, RestFacts, Zenon
  <2>3. cC \notin CompressedIn(i)
    BY <1>2, <1>7, <2>2, Zenon DEF CompressedIn, InState, Pairs
  <2>4. CompressedIn(i)' = CompressedIn(i) \cup {cC}
    BY <1>2, <1>5, <1>7, Zenon DEF CompressedIn
  <2> QED
    BY <2>3, <2>4
<1>8. \A i \in Layers : i # cL => CompressedIn(i)' = CompressedIn(i)
  BY <1>5, Zenon DEF CompressedIn
<1>9. ASSUME NEW i \in Layers PROVE arenaTop'[i] = CompressedBytes(i)'
  <2>1. arenaTop[i] = CompressedBytes(i) /\ arenaTop[i] \in Nat
    BY <1>1, <1>3, <1>4, OffloadFacts, Zenon DEF DataInv, ArenaInv
  <2>2. CASE i = cL
    <3>1. Cardinality(CompressedIn(i))' = Cardinality(CompressedIn(i)) + 1
      <4>1. /\ IsFiniteSet(CompressedIn(i)) /\ cC \notin CompressedIn(i)
            /\ CompressedIn(i)' = CompressedIn(i) \cup {cC}
        BY <1>7, <2>2, CompressedFacts, Zenon
      <4> QED
        BY <4>1, Zenon DEF SizeLaws, ElementLaw
    <3>2. arenaTop'[i] = arenaTop[i] + CompBytes
      BY <1>1, <1>3, <2>2, Zenon
    <3>3. Cardinality(CompressedIn(i)) \in Nat /\ CompBytes \in Nat
      BY CompressedFacts, LadderAssumption, Zenon
    <3>4. CompressedBytes(i) = Cardinality(CompressedIn(i)) * CompBytes
      BY Zenon DEF CompressedBytes
    <3>5. CompressedBytes(i)' = Cardinality(CompressedIn(i))' * CompBytes
      BY Zenon DEF CompressedBytes
    <3> QED
      <4>1. (Cardinality(CompressedIn(i)) + 1) * CompBytes
              = Cardinality(CompressedIn(i)) * CompBytes + CompBytes
        BY <3>3, ProductStep, Zenon
      <4> QED
        BY <2>1, <3>1, <3>2, <3>4, <3>5, <4>1, Zenon
  <2>3. CASE i # cL
    <3>1. arenaTop'[i] = arenaTop[i]
      BY <1>1, <1>3, <2>3, Zenon
    <3> QED
      BY <1>8, <2>1, <2>3, <3>1, Zenon DEF CompressedBytes
  <2> QED
    BY <2>2, <2>3
<1>10. ArenaInv'
  <2>1. nextOff' = NumLayers - 1 /\ offBytes' = 0 /\ ~Restoring'
    BY <1>1, <1>4, Zenon
  <2>2. ~(nextOff' < NumLayers - 1) /\ \A i \in Layers : ~(i > nextOff')
    BY <1>4, <2>1, OffloadFacts
  <2> QED
    BY <1>9, <2>1, <2>2, Zenon DEF ArenaInv
<1>11. BookInv'
  <2>1. nComp' * (RawBytes - CompBytes - MetaBytes)
          = nComp * (RawBytes - CompBytes - MetaBytes) + (RawBytes - CompBytes - MetaBytes)
    BY <1>1, CounterBounds, LadderAssumption
  <2> QED
    BY <1>1, <2>1, Zenon DEF DataInv, BookInv
<1>12. GrowthInv'
  BY <1>1, <1>3, CounterBounds DEF DataInv, GrowthInv, Processed
<1> QED
  BY <1>1, <1>6, <1>10, <1>11, <1>12, FreshKept, Zenon DEF DataInv

\* mzcache_store_chunks: each chunk of the region has a slot of its own.
LEMMA StoreOneData == ASSUME SizeLaws, Consistent, DataInv, StoreOne PROVE DataInv'
<1> DEFINE k == sC - bound[sL]
<1>0. PICK whole \in Outcomes : file' = [file EXCEPT ![sL][k] = <<sC, cycle, whole>>]
  BY Zenon DEF StoreOne, StoreSlot
<1>1. /\ pc = "store" /\ ~Restoring /\ ~Restoring' /\ todoS > 0 /\ pc' = pc
      /\ sC >= bound[sL]
      /\ st' = [st EXCEPT ![sL][sC] = "Stored"] /\ nStore' = nStore + 1
      /\ UNCHANGED <<nComp, saved, arenaTop, offUsed, nextOff, offBytes, bound, cycle>>
      /\ UNCHANGED <<nChunks, coreChunks, allocated, pending, nUnload>>
  BY Zenon DEF StoreOne, Restoring, planVars, arenaVars, weightVars
<1>2. sL \in Layers /\ sC \in Chunks /\ k \in Chunks
  BY <1>1, CursorFacts DEF Chunks
<1>3. /\ st \in [Layers -> [Chunks -> ChunkStates]]
      /\ file \in [Layers -> [Chunks -> (0 .. MaxChunks) \X Nat \X BOOLEAN]] /\ nStore \in Nat /\ todoS \in Int
  BY Zenon DEF Consistent, IInv, TypeOK
<1>4. nextOff = NumLayers - 1 /\ offBytes = 0
  <2>1. nStore + todoS <= MaxStore
    BY <1>1, Zenon DEF Consistent, IInv, LoopInv
  <2>2. nStore < MaxStore
    <3>1. todoS > 0 /\ MaxStore \in Nat
      BY <1>1, CounterBounds, Zenon
    <3> QED
      BY <1>3, <2>1, <3>1
  <2> QED
    BY <1>1, <2>2, CounterBounds, OffloadFacts, Zenon
<1>5. ASSUME NEW i \in Layers, NEW c \in Chunks
      PROVE  /\ st'[i][c] = IF i = sL /\ c = sC THEN "Stored" ELSE st[i][c]
             /\ file'[i][c] = IF i = sL /\ c = k THEN <<sC, cycle, whole>> ELSE file[i][c]
  BY <1>0, <1>1, <1>2, <1>3, Zenon
<1>6. StoredSlotKept'
  <2> SUFFICES ASSUME NEW p \in InState("Stored")'
               PROVE  /\ p[2] - bound[p[1]] \in Chunks
                      /\ \E w \in Outcomes : file'[p[1]][p[2] - bound[p[1]]] = <<p[2], cycle, w>>
    BY <1>1, Zenon DEF StoredSlotKept
  <2>1. p \in Pairs /\ p[1] \in Layers /\ p[2] \in Chunks /\ p[2] \in Nat /\ st'[p[1]][p[2]] = "Stored"
    BY CursorFacts, Zenon DEF InState, Pairs
  <2>2. CASE p[1] = sL /\ p[2] = sC
    <3>1. p[2] - bound[p[1]] \in Chunks /\ file'[p[1]][p[2] - bound[p[1]]] = <<p[2], cycle, whole>>
      BY <1>2, <1>5, <2>2, Zenon
    <3> QED
      BY <1>0, <3>1, Zenon
  <2>3. CASE ~(p[1] = sL /\ p[2] = sC)
    <3>1. p \in InState("Stored")
      BY <1>5, <2>1, <2>3, Zenon DEF InState
    <3>2. /\ p[2] - bound[p[1]] \in Chunks
          /\ \E w \in Outcomes : file[p[1]][p[2] - bound[p[1]]] = <<p[2], cycle, w>>
      BY <3>1, Zenon DEF DataInv, StoredSlotKept
    <3>3. ~(p[1] = sL /\ p[2] - bound[p[1]] = k)
      BY <2>1, <2>3, CursorFacts
    <3> QED
      BY <1>5, <2>1, <3>2, <3>3, Zenon
  <2> QED
    BY <2>2, <2>3, Zenon
<1>7. \A i \in Layers : CompressedIn(i)' = CompressedIn(i) /\ CompressedBytes(i)' = CompressedBytes(i)
  <2>1. <<sL, sC>> \notin InState("Compressed")
    <3>1. <<sL, sC>> \notin CompTaken
      BY <1>1, CursorFacts DEF CompTaken, CompRegion
    <3> QED
      BY <1>1, <3>1, RestFacts, Zenon
  <2>2. st[sL][sC] # "Compressed"
    BY <1>2, <2>1, Zenon DEF InState, Pairs
  <2>3. \A i \in Layers : CompressedIn(i)' = CompressedIn(i)
    BY <1>5, <2>2, Zenon DEF CompressedIn
  <2> QED
    BY <2>3 DEF CompressedBytes
<1>8. ArenaInv'
  <2>1. nextOff' = NumLayers - 1 /\ offBytes' = 0 /\ ~Restoring'
    BY <1>1, <1>4, Zenon
  <2>2. ~(nextOff' < NumLayers - 1) /\ \A i \in Layers : ~(i > nextOff') /\ ~(i > nextOff)
    BY <1>4, <2>1, OffloadFacts
  <2>3. \A i \in Layers : arenaTop'[i] = CompressedBytes(i)'
    BY <1>1, <1>7, <2>2, Zenon DEF DataInv, ArenaInv
  <2> QED
    BY <2>1, <2>2, <2>3, Zenon DEF ArenaInv
<1>9. GrowthInv' /\ BookInv'
  <2>1. GrowthInv'
    <3>1. /\ GrowthInv /\ nStore' = nStore + 1 /\ nComp \in Nat
          /\ UNCHANGED <<pc, nComp, nChunks, coreChunks, allocated, pending>>
      BY <1>1, CounterBounds, Zenon DEF DataInv
    <3> QED
      BY <1>3, <3>1 DEF GrowthInv, Processed
  <2>2. BookInv'
    BY <1>1, Zenon DEF DataInv, BookInv
  <2> QED
    BY <2>1, <2>2
<1> QED
  BY <1>6, <1>8, <1>9 DEF DataInv

\* mzcache_offload_arenas: the bytes of the layer's compressed chunks go to the
\* swap file.
LEMMA Phase3Data == ASSUME SizeLaws, Consistent, DataInv, Phase3 PROVE DataInv'
<1>1. /\ pc = "p3" /\ pc' \in {"idle", "p3"} /\ ~Restoring /\ ~Restoring' /\ AllSwappedOut /\ nextOff >= 0
      /\ offUsed' = [offUsed EXCEPT ![nextOff] = arenaTop[nextOff]]
      /\ arenaTop' = [arenaTop EXCEPT ![nextOff] = 0]
      /\ offBytes' = offBytes + Pad(arenaTop[nextOff])
      /\ nextOff' = nextOff - 1
      /\ UNCHANGED <<st, bound, file, cycle, fds, nComp, nStore, saved>>
      /\ UNCHANGED <<nChunks, coreChunks, allocated, pending, nUnload>>
  BY Zenon DEF Phase3, Restoring, planVars, kvVars, fileVars, weightVars
<1>2. arenaTop \in [Layers -> Nat] /\ offUsed \in [Layers -> Nat] /\ offBytes \in Int
  BY Zenon DEF Consistent, IInv, TypeOK
<1>3. nextOff \in Layers
  BY <1>1, OffloadFacts DEF Layers
<1>4. \A i \in Layers : CompressedIn(i)' = CompressedIn(i) /\ CompressedBytes(i)' = CompressedBytes(i)
  BY <1>1, Zenon DEF CompressedIn, CompressedBytes
<1>5. ASSUME NEW i \in Layers
      PROVE  IF i > nextOff' THEN arenaTop'[i] = 0 /\ offUsed'[i] = CompressedBytes(i)
             ELSE arenaTop'[i] = CompressedBytes(i)
  <2>1. IF i > nextOff THEN arenaTop[i] = 0 /\ offUsed[i] = CompressedBytes(i)
        ELSE arenaTop[i] = CompressedBytes(i)
    BY <1>1, Zenon DEF DataInv, ArenaInv
  <2>2. i \in Int /\ nextOff \in Int
    BY OffloadFacts
  <2> QED
    BY <1>1, <1>2, <1>3, <2>1, <2>2
<1>6. nComp' = 0 \/ nextOff' = NumLayers - 1 => offBytes' = 0
  <2>1. nextOff' # NumLayers - 1
    BY <1>1, OffloadFacts
  <2>2. ASSUME nComp = 0 PROVE arenaTop[nextOff] = 0 /\ offBytes = 0
    <3>1. CompressedBytes(nextOff) = 0
      BY <1>1, <1>3, <2>2, CounterBounds, NothingCompressed, Zenon
    <3>2. ~(nextOff > nextOff)
      BY OffloadFacts
    <3> QED
      BY <1>1, <1>3, <2>2, <3>1, <3>2, Zenon DEF DataInv, ArenaInv
  <2>3. Pad(0) = 0
    BY LadderAssumption DEF Pad
  <2> QED
    BY <1>1, <2>1, <2>2, <2>3
<1>7. ArenaInv'
  BY <1>1, <1>4, <1>5, <1>6, Zenon DEF DataInv, ArenaInv, AllSwappedOut, Processed, TotalChunks
<1>8. StoredSlotKept'
  BY <1>1, FreshKept, Zenon DEF DataInv, InState
<1>9. GrowthInv' /\ BookInv'
  BY <1>1, Zenon DEF DataInv, GrowthInv, BookInv, Processed
<1> QED
  BY <1>7, <1>8, <1>9 DEF DataInv
=============================================================================
