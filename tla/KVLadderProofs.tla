--------------------------- MODULE KVLadderProofs ---------------------------
(***************************************************************************)
(* The invariants IInv and LadderInv of KVLadderInv are inductive, and the *)
(* safety properties of KVLadder follow from them, for every number of     *)
(* layers and chunks, every plan and every sequence of targets: from IInv  *)
(* those of the bookkeeping (LadderShape, SyncCountsMissing, ...), from    *)
(* LadderInv those of the bytes behind it (StoredSlotKept,                *)
(* CompressedDataHeld, GrowthCovered, CountersExact).  The steps of        *)
(* swap-out are in KVLadderFacts; those of swap-in, of the pool workers    *)
(* and of growth come first here.                                          *)
(***************************************************************************)
EXTENDS KVLadderFacts

\* The time the provers get for a leaf.
USE SMTT(15), ZenonT(20)

-----------------------------------------------------------------------------
(* The enqueue loops of swapin_generate.                                   *)

\* initialize_layer_sync counts what is missing, layer by layer.
LEMMA SwapinStartStep == ASSUME SizeLaws, Consistent, SwapinStart PROVE Consistent'
<1> SUFFICES ASSUME IInv PROVE IInv'
  BY DEF Consistent
<1>1. /\ ~Restoring /\ Restoring' /\ pc = "idle" /\ pc' = "load"
      /\ UNCHANGED <<bound, nChunks, coreChunks, st, cL, cC, sL, sC, nComp, nStore>>
      /\ UNCHANGED <<reads, decomps, wreads, frees, wL, nUnload, weights>>
      /\ sync' = [i \in Layers |-> CompressInit(i) + StoreInit(i) + WeightInit(i)]
      /\ compLeft' = [i \in Layers |-> CompressInit(i)]
      /\ decompNum' = DecompNum /\ loadNum' = LoadNum /\ todoD' = DecompNum /\ todoL' = LoadNum
  BY DEF SwapinStart, Restoring, planVars, kvVars, weightVars
<1>2. /\ CompRegion(bound)' = CompRegion(bound)
      /\ StoreRegion(bound, nChunks)' = StoreRegion(bound, nChunks)
      /\ CompTaken' = CompTaken /\ StoreTaken' = StoreTaken
      /\ MaxComp' = MaxComp /\ MaxStore' = MaxStore
  BY <1>1, SameCursors
<1>3. DecompNum = Cardinality(CompTaken) /\ LoadNum = Cardinality(StoreTaken)
  BY DecompCount, LoadCount DEF IInv
<1>4. /\ nComp = DecompNum /\ nStore = LoadNum
      /\ reads = {} /\ decomps = {} /\ wreads = {} /\ frees = {}
  BY <1>1, <1>3, RestFacts
<1>5. /\ DecompNum \in Nat /\ LoadNum \in Nat
      /\ DecompNum = 0 => CompTaken = {}
      /\ LoadNum = 0 => StoreTaken = {}
  BY <1>3, RegionFacts, TakenFacts DEF IInv
<1>6. ASSUME NEW i \in Layers
      PROVE  /\ CompressInit(i) \in Int /\ StoreInit(i) \in Int /\ WeightInit(i) \in Int
             /\ WeightInit(i) = IF i \in weights THEN 0 ELSE 1
             /\ Cardinality({c \in Chunks : st[i][c] \in {"Compressed", "Stored"}})
                  = CompressInit(i) + StoreInit(i)
  <2>1. CompressInit(i) \in Int /\ StoreInit(i) \in Int
    BY InitTerms DEF IInv
  <2>2. weights = 0 .. wL /\ wL \in Int /\ i \in Nat
    <3>1. weights = 0 .. wL
      BY <1>1 DEF IInv, UnloadInv
    <3>2. NumLayers \in Nat /\ i \in Nat
      BY LadderAssumption DEF Layers
    <3> QED
      BY <3>1, <3>2 DEF IInv, TypeOK
  <2>3. WeightInit(i) \in Int /\ WeightInit(i) = IF i \in weights THEN 0 ELSE 1
    BY <2>2 DEF WeightInit
  <2> QED
    BY <1>4, <2>1, <2>3, LayerCount, Zenon DEF IInv
<1>7. TypeOK'
  <2>1. sync' \in [Layers -> Int] /\ compLeft' \in [Layers -> Int]
    <3>1. ASSUME NEW i \in Layers
          PROVE  CompressInit(i) \in Int /\ CompressInit(i) + StoreInit(i) + WeightInit(i) \in Int
      <4>1. CompressInit(i) \in Int /\ StoreInit(i) \in Int /\ WeightInit(i) \in Int
        BY <1>6, Zenon
      <4> QED
        BY <4>1
    <3>2. /\ sync' = [i \in Layers |-> CompressInit(i) + StoreInit(i) + WeightInit(i)]
          /\ compLeft' = [i \in Layers |-> CompressInit(i)]
      BY <1>1
    <3> QED
      BY <3>1, <3>2, Zenon
  <2>2. /\ arenaTop' \in [Layers -> Nat] /\ offUsed' \in [Layers -> Nat]
        /\ nextOff' \in -1 .. NumLayers - 1 /\ offBytes' \in Int
    BY CursorFacts DEF SwapinStart, ReloadAllArenas, IInv, TypeOK
  <2>3. fds' \subseteq Layers
    BY CursorFacts DEF SwapinStart, IInv, TypeOK
  <2> QED
    BY <1>1, <1>5, <2>1, <2>2, <2>3, Zenon
       DEF SwapinStart, IInv, TypeOK, loopVars, planVars, kvVars, weightVars
<1>8. PlanInv' /\ CursorInv'
  BY <1>1, <1>2 DEF IInv, PlanInv, Monotone, CursorInv
<1>9. LadderShape' /\ RestInv'
  BY <1>1, <1>2, Zenon DEF IInv, LadderShape, InState, RestInv
<1>10. LoopInv' /\ UnloadInv'
  BY <1>1, <1>2 DEF IInv, LoopInv, UnloadInv
<1>11. RestoreInv'
  BY <1>1, <1>2, <1>3, <1>4, <1>5, Zenon DEF RestoreInv
<1>12. SyncCountsMissing'
  BY <1>1, <1>6 DEF SyncCountsMissing
<1> QED
  BY <1>7, <1>8, <1>9, <1>10, <1>11, <1>12 DEF IInv

\* One turn of the LOAD loop enqueues the lowest chunk above the store cursor:
\* it exists, so the cursor stays on the layers.
LEMMA LoadNextStep == ASSUME SizeLaws, Consistent, LoadNext PROVE Consistent'
<1> SUFFICES ASSUME IInv PROVE IInv'
  BY DEF Consistent
<1> DEFINE wrap == sC + 1 = nChunks
           l == IF wrap THEN sL + 1 ELSE sL
           c == IF wrap THEN bound[l] ELSE sC + 1
           x == <<l, c>>
<1>1. /\ Restoring /\ Restoring' /\ pc = "load" /\ pc' = "load" /\ todoL > 0
      /\ UNCHANGED <<bound, nChunks, coreChunks, st, cL, cC, nComp, nStore>>
      /\ UNCHANGED <<decomps, wreads, frees, wL, nUnload, weights, rounds>>
      /\ UNCHANGED <<sync, decompNum, loadNum, todoD>>
  BY DEF LoadNext, Restoring, planVars, loopVars, weightVars
<1>2. /\ CompRegion(bound)' = CompRegion(bound)
      /\ StoreRegion(bound, nChunks)' = StoreRegion(bound, nChunks)
      /\ MaxComp' = MaxComp /\ MaxStore' = MaxStore
  BY <1>1, SamePlan
<1>3. todoL = Cardinality(StoreTaken) /\ StoreTaken # {}
  <2>1. todoL = Cardinality(StoreTaken)
    BY <1>1 DEF IInv, RestoreInv
  <2> QED
    BY <1>1, <2>1 DEF SizeLaws, EmptyLaw
<1>4. PICK p \in StoreTaken : TRUE
  BY <1>3
<1>5. /\ p \in Pairs /\ p[2] < nChunks /\ (p[1] > sL \/ (p[1] = sL /\ p[2] > sC))
  BY <1>4, RegionFacts DEF IInv, StoreTaken, StoreRegion
<1>6. /\ l \in Layers /\ c \in Chunks /\ bound[l] <= c /\ c < nChunks
      /\ l > sL \/ (l = sL /\ c > sC)
  <2>1. CASE wrap
    <3>1. sL + 1 <= p[1] /\ p[1] \in Layers
      BY <1>5, <2>1, CursorFacts
    <3>2. sL + 1 \in Layers /\ sL < NumLayers - 1
      BY <3>1, CursorFacts DEF Layers
    <3>3. bound[sL + 1] < nChunks /\ bound[sL + 1] \in Nat
      BY <3>2, CursorFacts DEF IInv, CursorInv
    <3> QED
      BY <2>1, <3>2, <3>3, CursorFacts DEF Chunks
  <2>2. CASE ~wrap
    BY <2>2, CursorFacts DEF Chunks
  <2> QED
    BY <2>1, <2>2
<1>7. /\ sL' = l /\ sC' = c /\ reads' = reads \cup {x} /\ todoL' = todoL - 1
      /\ fds' = IF wrap THEN fds \cup {l} ELSE fds
  <2>1. ~(l >= NumLayers)
    BY <1>6, CursorFacts DEF Layers
  <2> QED
    BY <2>1 DEF LoadNext
<1>8. x \in StoreTaken /\ x \in StoreRegion(bound, nChunks)
  BY <1>6 DEF StoreTaken, StoreRegion
<1>9. StoreTaken' = StoreTaken \ {x} /\ CompTaken' = CompTaken
  <2>1. CompTaken' = CompTaken
    BY <1>1, <1>2 DEF CompTaken
  <2>2. ASSUME NEW q \in StoreRegion(bound, nChunks)
        PROVE  (q[1] > l \/ (q[1] = l /\ q[2] > c))
                 <=> (q[1] > sL \/ (q[1] = sL /\ q[2] > sC)) /\ q # x
    <3>1. /\ q[1] \in Layers /\ q[1] \in Nat /\ q[2] \in Nat /\ q = <<q[1], q[2]>>
          /\ q[2] < nChunks /\ bound[q[1]] <= q[2] /\ (q[1] = l => bound[l] <= q[2])
      BY <2>2, RegionFacts, CursorFacts DEF IInv, StoreRegion
    <3>2. q = x <=> q[1] = l /\ q[2] = c
      BY <3>1
    <3>3. CASE wrap
      BY <3>1, <3>2, <3>3, CursorFacts
    <3>4. CASE ~wrap
      BY <3>1, <3>2, <3>4, CursorFacts
    <3> QED
      BY <3>3, <3>4
  <2>3. StoreTaken' = StoreTaken \ {x}
    <3> HIDE DEF l, c, x
    <3> QED
      BY <1>2, <1>7, <2>2 DEF StoreTaken
  <2> QED
    BY <2>1, <2>3
<1>10. todoL' = Cardinality(StoreTaken')
  <2> HIDE DEF x
  <2> QED
    BY <1>3, <1>7, <1>8, <1>9, RegionFacts, Zenon DEF SizeLaws, ElementLaw, IInv
<1>11. CursorInv'
  <2>1. c \in bound[l] - 1 .. nChunks - 1 /\ l \in Nat
    BY <1>6, CursorFacts DEF Chunks
  <2>2. l < NumLayers - 1 => bound[l + 1] < nChunks
    <3>1. CASE wrap
      <4>1. l < NumLayers - 1 => l + 1 \in Layers
        BY <1>6, CursorFacts DEF Layers
      <4>2. l + 1 \in Layers => bound[l + 1] <= bound[l] /\ bound[l + 1] \in Nat
        BY <1>6, <2>1, CursorFacts DEF IInv, PlanInv, Monotone
      <4> QED
        BY <1>6, <2>1, <4>1, <4>2, CursorFacts DEF Chunks
    <3>2. CASE ~wrap
      BY <3>2 DEF IInv, CursorInv
    <3> QED
      BY <3>1, <3>2
  <2> HIDE DEF l, c
  <2> QED
    BY <1>1, <1>6, <1>7, <2>1, <2>2 DEF IInv, CursorInv
<1> HIDE DEF wrap, l, c
<1>12. TypeOK'
  <2>1. sL' \in Int /\ sC' \in Int /\ reads' \subseteq Pairs /\ fds' \subseteq Layers
    <3>1. l \in Int /\ c \in Int
      BY <1>6, LadderAssumption DEF Layers, Chunks
    <3>2. reads' \subseteq Pairs
      BY <1>6, <1>7 DEF IInv, TypeOK, Pairs
    <3>3. fds' \subseteq Layers
      BY <1>6, <1>7 DEF IInv, TypeOK
    <3> QED
      BY <1>7, <3>1, <3>2, <3>3
  <2>2. todoL' \in Nat
    BY <1>1, <1>7 DEF IInv, TypeOK
  <2> QED
    BY <2>1, <2>2, Zenon DEF LoadNext, IInv, TypeOK, loopVars, planVars, arenaVars, weightVars
<1>13. PlanInv'
  BY <1>1, <1>2 DEF IInv, PlanInv, Monotone
<1> HIDE DEF x
<1>14. LadderShape'
  BY <1>1, <1>7, <1>8, <1>9 DEF IInv, LadderShape, InState
<1>15. RestInv' /\ LoopInv' /\ UnloadInv'
  BY <1>1 DEF IInv, RestInv, LoopInv, UnloadInv
<1>16. RestoreInv'
  BY <1>1, <1>2, <1>4, <1>7, <1>8, <1>9, <1>10 DEF IInv, RestoreInv
<1>17. SyncCountsMissing'
  BY <1>1 DEF IInv, SyncCountsMissing
<1> QED
  BY <1>11, <1>12, <1>13, <1>14, <1>15, <1>16, <1>17 DEF IInv
\* One turn of the DECOMP loop enqueues the lowest chunk above the compress
\* cursor.  When the cursor wraps, a chunk of a higher layer is compressed, and
\* as chunk_bound is monotone the next layer has a compress region.
LEMMA DecompNextStep == ASSUME SizeLaws, Consistent, DecompNext PROVE Consistent'
<1> SUFFICES ASSUME IInv PROVE IInv'
  BY DEF Consistent
<1> DEFINE wrap == DecompWraps
           l == IF wrap THEN cL + 1 ELSE cL
           c == IF wrap THEN 0 ELSE cC + 1
           x == <<l, c>>
<1>1. /\ Restoring /\ Restoring' /\ pc = "decomp" /\ pc' = "decomp" /\ todoD > 0
      /\ UNCHANGED <<bound, nChunks, coreChunks, st, sL, sC, nComp, nStore>>
      /\ UNCHANGED <<reads, wreads, frees, wL, nUnload, weights, rounds>>
      /\ UNCHANGED <<sync, decompNum, loadNum, todoL>>
  BY DEF DecompNext, Restoring, planVars, loopVars, weightVars
<1>2. /\ CompRegion(bound)' = CompRegion(bound)
      /\ StoreRegion(bound, nChunks)' = StoreRegion(bound, nChunks)
      /\ MaxComp' = MaxComp /\ MaxStore' = MaxStore
  BY <1>1, SamePlan
<1>3. todoD = Cardinality(CompTaken) /\ CompTaken # {}
  <2>1. todoD = Cardinality(CompTaken)
    BY <1>1 DEF IInv, RestoreInv
  <2> QED
    BY <1>1, <2>1 DEF SizeLaws, EmptyLaw
<1>4. PICK p \in CompTaken : TRUE
  BY <1>3
<1>5. p \in Pairs /\ p[2] < bound[p[1]] /\ (p[1] > cL \/ (p[1] = cL /\ p[2] > cC))
  BY <1>4, RegionFacts DEF IInv, CompTaken, CompRegion
<1>6. /\ l \in Layers /\ c \in Chunks /\ c < bound[l]
      /\ l > cL \/ (l = cL /\ c > cC)
  <2>1. CASE wrap
    <3>1. cL + 1 <= p[1] /\ p[1] \in Layers
      BY <1>5, <2>1, CursorFacts DEF DecompWraps
    <3>2. cL + 1 \in Layers
      BY <3>1, CursorFacts DEF Layers
    <3>3. bound[p[1]] <= bound[cL + 1] /\ bound[cL + 1] \in Nat /\ bound[p[1]] \in Nat
      BY <3>1, <3>2, CursorFacts DEF IInv, PlanInv, Monotone
    <3>4. p[2] \in Nat
      BY <1>5, CursorFacts
    <3>5. 0 < bound[cL + 1]
      BY <1>5, <3>3, <3>4
    <3> QED
      BY <2>1, <3>2, <3>5, CursorFacts DEF Chunks
  <2>2. CASE ~wrap
    BY <2>2, CursorFacts DEF Chunks, DecompWraps
  <2> QED
    BY <2>1, <2>2
<1>7. cL' = l /\ cC' = c /\ decomps' = decomps \cup {x} /\ todoD' = todoD - 1
  <2>1. ~(l >= NumLayers)
    BY <1>6, CursorFacts DEF Layers
  <2> QED
    BY <2>1 DEF DecompNext
<1>8. x \in CompTaken /\ x \in CompRegion(bound)
  BY <1>6 DEF CompTaken, CompRegion
<1>9. CompTaken' = CompTaken \ {x} /\ StoreTaken' = StoreTaken
  <2>1. StoreTaken' = StoreTaken
    BY <1>1, <1>2 DEF StoreTaken
  <2>2. ASSUME NEW q \in CompRegion(bound)
        PROVE  (q[1] > l \/ (q[1] = l /\ q[2] > c))
                 <=> (q[1] > cL \/ (q[1] = cL /\ q[2] > cC)) /\ q # x
    <3>1. /\ q[1] \in Layers /\ q[1] \in Nat /\ q[2] \in Nat /\ q = <<q[1], q[2]>>
          /\ q[2] < bound[q[1]] /\ (q[1] = cL => q[2] < bound[cL])
      BY <2>2, RegionFacts, CursorFacts DEF IInv, CompRegion
    <3>2. q = x <=> q[1] = l /\ q[2] = c
      BY <3>1
    <3>3. CASE wrap
      BY <3>1, <3>2, <3>3, CursorFacts DEF DecompWraps
    <3>4. CASE ~wrap
      BY <3>1, <3>2, <3>4, CursorFacts
    <3> QED
      BY <3>3, <3>4
  <2>3. CompTaken' = CompTaken \ {x}
    <3> HIDE DEF l, c, x
    <3> QED
      BY <1>2, <1>7, <2>2 DEF CompTaken
  <2> QED
    BY <2>1, <2>3
<1>10. todoD' = Cardinality(CompTaken')
  <2> HIDE DEF x
  <2> QED
    BY <1>3, <1>7, <1>8, <1>9, RegionFacts, Zenon DEF SizeLaws, ElementLaw, IInv
<1> HIDE DEF wrap, l, c
<1>11. CursorInv'
  <2>1. c \in -1 .. bound[l] - 1
    BY <1>6, CursorFacts DEF Chunks
  <2> QED
    BY <1>1, <1>6, <1>7, <2>1 DEF IInv, CursorInv
<1>12. TypeOK'
  <2>1. cL' \in Int /\ cC' \in Int
    BY <1>6, <1>7, LadderAssumption DEF Layers, Chunks
  <2>2. decomps' \subseteq Pairs
    BY <1>6, <1>7 DEF IInv, TypeOK, Pairs
  <2>3. todoD' \in Nat
    BY <1>1, <1>7 DEF IInv, TypeOK
  <2> QED
    BY <2>1, <2>2, <2>3, Zenon DEF DecompNext, IInv, TypeOK, loopVars, planVars, fileVars, arenaVars,
                            weightVars
<1>13. PlanInv'
  BY <1>1, <1>2 DEF IInv, PlanInv, Monotone
<1> HIDE DEF x
<1>14. LadderShape'
  BY <1>1, <1>7, <1>8, <1>9 DEF IInv, LadderShape, InState
<1>15. RestInv' /\ LoopInv' /\ UnloadInv'
  BY <1>1 DEF IInv, RestInv, LoopInv, UnloadInv
<1>16. RestoreInv'
  BY <1>1, <1>2, <1>4, <1>7, <1>8, <1>9, <1>10 DEF IInv, RestoreInv
<1>17. SyncCountsMissing'
  BY <1>1 DEF IInv, SyncCountsMissing
<1> QED
  BY <1>11, <1>12, <1>13, <1>14, <1>15, <1>16, <1>17 DEF IInv

\* A loop that has nothing left has passed every swapped-out chunk.
LEMMA LoopEnds ==
    ASSUME SizeLaws, Consistent, Restoring, Restoring',
           UNCHANGED <<loopVars, planVars, kvVars, fileVars, arenaVars, weightVars, taskVars>>,
           \/ pc = "load" /\ todoL = 0 /\ pc' = "decomp"
           \/ pc = "decomp" /\ todoD = 0 /\ pc' = "weights"
    PROVE  Consistent'
<1> SUFFICES ASSUME IInv PROVE IInv'
  BY DEF Consistent
<1>1. /\ UNCHANGED <<bound, nChunks, coreChunks, st, cL, cC, sL, sC, nComp, nStore>>
      /\ UNCHANGED <<reads, decomps, wreads, frees, wL, nUnload, weights, rounds>>
      /\ UNCHANGED <<sync, decompNum, loadNum, todoL, todoD>>
  BY DEF planVars, kvVars, loopVars, weightVars, taskVars
<1>2. /\ CompRegion(bound)' = CompRegion(bound)
      /\ StoreRegion(bound, nChunks)' = StoreRegion(bound, nChunks)
      /\ CompTaken' = CompTaken /\ StoreTaken' = StoreTaken
      /\ MaxComp' = MaxComp /\ MaxStore' = MaxStore
  BY <1>1, SameCursors
<1>3. /\ Cardinality(CompTaken) = 0 => CompTaken = {}
      /\ Cardinality(StoreTaken) = 0 => StoreTaken = {}
  BY TakenFacts DEF IInv
<1>4. TypeOK'
  BY Zenon DEF IInv, TypeOK, loopVars, planVars, kvVars, fileVars, arenaVars, weightVars, taskVars
<1>5. PlanInv' /\ CursorInv'
  BY <1>1, <1>2 DEF IInv, PlanInv, Monotone, CursorInv
<1>6. LadderShape'
  BY <1>1, <1>2, Zenon DEF IInv, LadderShape, InState
<1>7. RestInv' /\ LoopInv' /\ UnloadInv'
  BY <1>1 DEF IInv, RestInv, LoopInv, UnloadInv
<1>8. RestoreInv'
  BY <1>1, <1>2, <1>3 DEF IInv, RestoreInv
<1>9. SyncCountsMissing'
  BY <1>1, Zenon DEF IInv, SyncCountsMissing
<1> QED
  BY <1>4, <1>5, <1>6, <1>7, <1>8, <1>9 DEF IInv
-----------------------------------------------------------------------------
(* The end of swapin_generate.                                             *)

\* mzcache_reload_w_layers: the reads are exactly the layers not resident.
LEMMA ReloadWeightsStep == ASSUME SizeLaws, Consistent, ReloadWeights PROVE Consistent'
<1> SUFFICES ASSUME IInv PROVE IInv'
  BY DEF Consistent
<1>1. /\ Restoring /\ Restoring' /\ pc = "weights" /\ pc' = "finish"
      /\ wreads' = {i \in Layers : i > wL} /\ wL' = NumLayers - 1
      /\ UNCHANGED <<bound, nChunks, coreChunks, st, cL, cC, sL, sC, nComp, nStore>>
      /\ UNCHANGED <<reads, decomps, frees, nUnload, weights, rounds>>
      /\ UNCHANGED <<sync, decompNum, loadNum, todoL, todoD>>
  BY DEF ReloadWeights, Restoring, planVars, kvVars, loopVars
<1>2. /\ CompRegion(bound)' = CompRegion(bound)
      /\ StoreRegion(bound, nChunks)' = StoreRegion(bound, nChunks)
      /\ CompTaken' = CompTaken /\ StoreTaken' = StoreTaken
      /\ MaxComp' = MaxComp /\ MaxStore' = MaxStore
  BY <1>1, SameCursors
<1>3. weights = Layers \ {i \in Layers : i > wL}
  <2>1. NumLayers \in Nat
    BY LadderAssumption
  <2>2. weights = 0 .. wL /\ wL \in -1 .. NumLayers - 1
    BY <1>1 DEF IInv, UnloadInv, TypeOK
  <2> QED
    BY <2>1, <2>2 DEF Layers
<1>4. TypeOK'
  <2>1. wreads' \subseteq Layers /\ wL' \in -1 .. NumLayers - 1
    BY <1>1, LadderAssumption
  <2> QED
    BY <2>1, Zenon DEF ReloadWeights, IInv, TypeOK, loopVars, planVars, kvVars, fileVars, arenaVars
<1>5. PlanInv' /\ CursorInv'
  BY <1>1, <1>2 DEF IInv, PlanInv, Monotone, CursorInv
<1>6. LadderShape'
  BY <1>1, <1>2, Zenon DEF IInv, LadderShape, InState
<1>7. RestInv' /\ LoopInv' /\ UnloadInv'
  BY <1>1 DEF IInv, RestInv, LoopInv, UnloadInv
<1>8. RestoreInv'
  BY <1>1, <1>2, <1>3 DEF IInv, RestoreInv
<1>9. SyncCountsMissing'
  BY <1>1, Zenon DEF IInv, SyncCountsMissing
<1> QED
  BY <1>4, <1>5, <1>6, <1>7, <1>8, <1>9 DEF IInv
-----------------------------------------------------------------------------
(* The reads and the decompressions of the pool workers.                   *)

\* A restored chunk is one missing chunk less, in the layer and in its sync.
LEMMA ChunkRestored ==
    ASSUME SizeLaws, Consistent, Restoring, NEW i \in Layers, NEW c \in Chunks,
           st[i][c] \in {"Compressed", "Stored"},
           st' = [st EXCEPT ![i][c] = "Raw"], sync' = [sync EXCEPT ![i] = @ - 1],
           weights' = weights
    PROVE  /\ SyncCountsMissing'
           /\ \A s \in {"Compressed", "Stored"} : InState(s)' = InState(s) \ {<<i, c>>}
           /\ st' \in [Layers -> [Chunks -> ChunkStates]] /\ sync' \in [Layers -> Int]
<1> IInv
  BY DEF Consistent
<1> DEFINE S(j) == {d \in Chunks : st[j][d] \in {"Compressed", "Stored"}}
<1>1. st \in [Layers -> [Chunks -> ChunkStates]] /\ sync \in [Layers -> Int]
  BY Zenon DEF IInv, TypeOK
<1>2. ASSUME NEW j \in Layers, NEW d \in Chunks
      PROVE  st'[j][d] = IF j = i /\ d = c THEN "Raw" ELSE st[j][d]
  BY <1>1
<1>3. ASSUME NEW j \in Layers
      PROVE  {d \in Chunks : st'[j][d] \in {"Compressed", "Stored"}}
               = IF j = i THEN S(j) \ {c} ELSE S(j)
  BY <1>2
<1>4. c \in S(i)
  OBVIOUS
<1>5. ASSUME NEW j \in Layers
      PROVE  sync'[j] = IF j = i THEN sync[j] - 1 ELSE sync[j]
  BY <1>1
<1>6. ASSUME NEW j \in Layers
      PROVE  IsFiniteSet(S(j)) /\ Cardinality(S(j)) \in Nat
  <2>1. S(j) \in SUBSET Chunks
    OBVIOUS
  <2> QED
    BY <2>1, PairsFinite
<1>7. \A j \in Layers : sync[j] = Cardinality(S(j)) + (IF j \in weights THEN 0 ELSE 1)
  BY DEF IInv, SyncCountsMissing
<1>8. Cardinality(S(i) \ {c}) = Cardinality(S(i)) - 1
  <2> HIDE DEF S
  <2> QED
    BY <1>4, <1>6, Zenon DEF SizeLaws, ElementLaw
<1>9. ASSUME NEW j \in Layers
      PROVE  sync'[j] = Cardinality({d \in Chunks : st'[j][d] \in {"Compressed", "Stored"}})
                          + (IF j \in weights THEN 0 ELSE 1)
  <2>1. CASE j = i
    <3>1. {d \in Chunks : st'[j][d] \in {"Compressed", "Stored"}} = S(i) \ {c}
      BY <1>3, <2>1
    <3> DEFINE w == IF j \in weights THEN 0 ELSE 1
    <3>2. sync'[j] = sync[j] - 1 /\ sync[j] = Cardinality(S(i)) + w
      BY <1>5, <1>7, <2>1
    <3>3. Cardinality(S(i)) \in Nat /\ w \in Nat
      BY <1>6
    <3>4. sync'[j] = Cardinality(S(i) \ {c}) + w
      <4> HIDE DEF S, w
      <4> QED
        BY <1>8, <3>2, <3>3
    <3> QED
      BY <3>1, <3>4
  <2>2. CASE j # i
    BY <1>3, <1>5, <1>7, <2>2
  <2> QED
    BY <2>1, <2>2
<1>10. SyncCountsMissing'
  BY <1>9 DEF SyncCountsMissing
<1>11. ASSUME NEW s \in {"Compressed", "Stored"}
       PROVE  InState(s)' = InState(s) \ {<<i, c>>}
  <2>1. ASSUME NEW q \in Pairs
        PROVE  st'[q[1]][q[2]] = s <=> st[q[1]][q[2]] = s /\ q # <<i, c>>
    <3>1. q[1] \in Layers /\ q[2] \in Chunks /\ (q = <<i, c>> <=> q[1] = i /\ q[2] = c)
      BY DEF Pairs
    <3> QED
      BY <1>2, <3>1
  <2> QED
    BY <2>1 DEF InState
<1>12. st' \in [Layers -> [Chunks -> ChunkStates]] /\ sync' \in [Layers -> Int]
  BY <1>1 DEF ChunkStates
<1> QED
  BY <1>10, <1>11, <1>12

\* A task is queued only during a swap-in.
LEMMA TaskFacts ==
    ASSUME SizeLaws, Consistent
    PROVE  /\ reads # {} => Restoring /\ loadNum # 0
           /\ decomps # {} => Restoring /\ decompNum # 0
           /\ frees # {} => Restoring
           /\ wreads # {} => pc = "finish" /\ Restoring
  BY DEF Consistent, IInv, RestInv, RestoreInv, UnloadInv, Restoring

\* kv_read_worker
LEMMA ReadChunkStep ==
    ASSUME SizeLaws, Consistent, NEW i \in Layers, NEW c \in Chunks, ReadChunk(i, c)
    PROVE  Consistent'
<1> SUFFICES ASSUME IInv PROVE IInv'
  BY DEF Consistent
<1> DEFINE x == <<i, c>>
<1>1. /\ x \in reads /\ reads' = reads \ {x} /\ pc' = pc
      /\ st' = [st EXCEPT ![i][c] = "Raw"] /\ sync' = [sync EXCEPT ![i] = @ - 1]
      /\ UNCHANGED <<bound, nChunks, coreChunks, cL, cC, sL, sC, nComp, nStore>>
      /\ UNCHANGED <<decomps, wreads, frees, wL, nUnload, weights, rounds>>
      /\ UNCHANGED <<decompNum, loadNum, todoL, todoD>>
  BY DEF ReadChunk, planVars, loopVars, weightVars
<1>2. Restoring /\ Restoring' /\ loadNum # 0
  BY <1>1, TaskFacts DEF Restoring
<1>3. /\ CompRegion(bound)' = CompRegion(bound)
      /\ StoreRegion(bound, nChunks)' = StoreRegion(bound, nChunks)
      /\ CompTaken' = CompTaken /\ StoreTaken' = StoreTaken
      /\ MaxComp' = MaxComp /\ MaxStore' = MaxStore
  BY <1>1, SameCursors
<1>4. st[i][c] = "Stored"
  BY <1>1 DEF IInv, LadderShape, InState
<1>5. /\ SyncCountsMissing'
      /\ InState("Compressed")' = InState("Compressed") \ {x}
      /\ InState("Stored")' = InState("Stored") \ {x}
      /\ st' \in [Layers -> [Chunks -> ChunkStates]] /\ sync' \in [Layers -> Int]
  BY <1>1, <1>2, <1>4, ChunkRestored, Zenon
<1>6. x \notin InState("Compressed")
  BY <1>4 DEF InState
<1>7. TypeOK'
  <2>1. reads' \subseteq Pairs
    BY <1>1, Zenon DEF IInv, TypeOK
  <2> QED
    BY <1>5, <2>1, Zenon DEF ReadChunk, IInv, TypeOK, loopVars, planVars, fileVars, arenaVars, weightVars
<1>8. PlanInv' /\ CursorInv'
  BY <1>1, <1>3, Zenon DEF IInv, PlanInv, Monotone, CursorInv
<1> HIDE DEF x
<1>9. LadderShape'
  BY <1>1, <1>3, <1>5, <1>6, Zenon DEF IInv, LadderShape
<1>10. RestInv' /\ LoopInv' /\ UnloadInv'
  BY <1>1, <1>2, Zenon DEF IInv, RestInv, LoopInv, UnloadInv, Restoring
<1>11. RestoreInv'
  BY <1>1, <1>2, <1>3, Zenon DEF IInv, RestoreInv
<1> QED
  BY <1>5, <1>7, <1>8, <1>9, <1>10, <1>11 DEF IInv

\* kv_decomp_worker
LEMMA DecompressChunkStep ==
    ASSUME SizeLaws, Consistent, NEW i \in Layers, NEW c \in Chunks, DecompressChunk(i, c)
    PROVE  Consistent'
<1> SUFFICES ASSUME IInv PROVE IInv'
  BY DEF Consistent
<1> DEFINE x == <<i, c>>
<1>1. /\ x \in decomps /\ decomps' = decomps \ {x} /\ pc' = pc
      /\ st' = [st EXCEPT ![i][c] = "Raw"] /\ sync' = [sync EXCEPT ![i] = @ - 1]
      /\ UNCHANGED <<bound, nChunks, coreChunks, cL, cC, sL, sC, nComp, nStore>>
      /\ UNCHANGED <<reads, wreads, wL, nUnload, weights, rounds>>
      /\ UNCHANGED <<decompNum, loadNum, todoL, todoD>>
  BY Zenon DEF DecompressChunk, planVars, loopVars, weightVars
<1>2. Restoring /\ Restoring' /\ decompNum # 0
  BY <1>1, TaskFacts DEF Restoring
<1>3. /\ CompRegion(bound)' = CompRegion(bound)
      /\ StoreRegion(bound, nChunks)' = StoreRegion(bound, nChunks)
      /\ CompTaken' = CompTaken /\ StoreTaken' = StoreTaken
      /\ MaxComp' = MaxComp /\ MaxStore' = MaxStore
  BY <1>1, SameCursors
<1>4. st[i][c] = "Compressed"
  BY <1>1 DEF IInv, LadderShape, InState
<1>5. /\ SyncCountsMissing'
      /\ InState("Compressed")' = InState("Compressed") \ {x}
      /\ InState("Stored")' = InState("Stored") \ {x}
      /\ st' \in [Layers -> [Chunks -> ChunkStates]] /\ sync' \in [Layers -> Int]
  BY <1>1, <1>2, <1>4, ChunkRestored, Zenon
<1>6. x \notin InState("Stored")
  BY <1>4 DEF InState
<1>7. TypeOK'
  <2>1. decomps' \subseteq Pairs
    BY <1>1, Zenon DEF IInv, TypeOK
  <2>2. compLeft' \in [Layers -> Int] /\ frees' \subseteq Layers
    <3>1. compLeft \in [Layers -> Int] /\ frees \subseteq Layers
      BY Zenon DEF IInv, TypeOK
    <3> QED
      BY <3>1 DEF DecompressChunk
  <2> QED
    BY <1>5, <2>1, <2>2, Zenon DEF DecompressChunk, IInv, TypeOK, loopVars, planVars, fileVars, arenaVars,
                            weightVars
<1>8. PlanInv' /\ CursorInv'
  BY <1>1, <1>3, Zenon DEF IInv, PlanInv, Monotone, CursorInv
<1> HIDE DEF x
<1>9. LadderShape'
  BY <1>1, <1>3, <1>5, <1>6, Zenon DEF IInv, LadderShape
<1>10. RestInv' /\ LoopInv' /\ UnloadInv'
  BY <1>1, <1>2, Zenon DEF IInv, RestInv, LoopInv, UnloadInv, Restoring
<1>11. RestoreInv'
  BY <1>1, <1>2, <1>3, Zenon DEF IInv, RestoreInv
<1> QED
  BY <1>5, <1>7, <1>8, <1>9, <1>10, <1>11 DEF IInv

\* free_layer_arenas
LEMMA FreeArenasStep ==
    ASSUME SizeLaws, Consistent, NEW i \in Layers, FreeArenas(i)
    PROVE  Consistent'
<1> SUFFICES ASSUME IInv PROVE IInv'
  BY DEF Consistent
<1>1. /\ i \in frees /\ frees' = frees \ {i} /\ pc' = pc /\ arenaTop' = [arenaTop EXCEPT ![i] = 0]
      /\ UNCHANGED <<bound, nChunks, coreChunks, st, cL, cC, sL, sC, nComp, nStore>>
      /\ UNCHANGED <<reads, decomps, wreads, wL, nUnload, weights, rounds>>
      /\ UNCHANGED <<sync, decompNum, loadNum, todoL, todoD>>
  BY DEF FreeArenas, planVars, kvVars, loopVars, weightVars
<1>2. Restoring /\ Restoring'
  BY <1>1, TaskFacts DEF Restoring
<1>3. /\ CompRegion(bound)' = CompRegion(bound)
      /\ StoreRegion(bound, nChunks)' = StoreRegion(bound, nChunks)
      /\ CompTaken' = CompTaken /\ StoreTaken' = StoreTaken
      /\ MaxComp' = MaxComp /\ MaxStore' = MaxStore
  BY <1>1, SameCursors
<1>4. TypeOK'
  <2>1. arenaTop \in [Layers -> Nat] /\ frees \subseteq Layers
    BY Zenon DEF IInv, TypeOK
  <2>2. arenaTop' \in [Layers -> Nat] /\ frees' \subseteq Layers
    BY <1>1, <2>1
  <2>3. UNCHANGED <<loopVars, planVars, kvVars, fileVars, weightVars, offUsed, nextOff, offBytes,
                    compLeft, sync>>
    BY DEF FreeArenas
  <2> QED
    BY <1>1, <2>2, <2>3, Zenon DEF IInv, TypeOK, loopVars, planVars, kvVars, fileVars, weightVars
<1>5. PlanInv' /\ CursorInv'
  BY <1>1, <1>3, Zenon DEF IInv, PlanInv, Monotone, CursorInv
<1>6. LadderShape'
  BY <1>1, <1>3, Zenon DEF IInv, LadderShape, InState
<1>7. RestInv' /\ LoopInv' /\ UnloadInv'
  BY <1>1, <1>2, Zenon DEF IInv, RestInv, LoopInv, UnloadInv, Restoring
<1>8. RestoreInv'
  BY <1>1, <1>2, <1>3, Zenon DEF IInv, RestoreInv
<1>9. SyncCountsMissing'
  BY <1>1, <1>2, Zenon DEF IInv, SyncCountsMissing
<1> QED
  BY <1>4, <1>5, <1>6, <1>7, <1>8, <1>9 DEF IInv

\* weight_read_worker
LEMMA ReadWeightsStep ==
    ASSUME SizeLaws, Consistent, NEW i \in Layers, ReadWeights(i)
    PROVE  Consistent'
<1> SUFFICES ASSUME IInv PROVE IInv'
  BY DEF Consistent
<1>1. /\ i \in wreads /\ wreads' = wreads \ {i} /\ weights' = weights \cup {i} /\ pc' = pc
      /\ sync' = [sync EXCEPT ![i] = @ - 1]
      /\ UNCHANGED <<bound, nChunks, coreChunks, st, cL, cC, sL, sC, nComp, nStore>>
      /\ UNCHANGED <<reads, decomps, frees, wL, nUnload, rounds>>
      /\ UNCHANGED <<decompNum, loadNum, todoL, todoD>>
  BY DEF ReadWeights, planVars, kvVars, loopVars
<1>2. Restoring /\ Restoring' /\ pc = "finish"
  BY <1>1, TaskFacts DEF Restoring
<1>3. /\ CompRegion(bound)' = CompRegion(bound)
      /\ StoreRegion(bound, nChunks)' = StoreRegion(bound, nChunks)
      /\ CompTaken' = CompTaken /\ StoreTaken' = StoreTaken
      /\ MaxComp' = MaxComp /\ MaxStore' = MaxStore
  BY <1>1, SameCursors
<1>4. weights = Layers \ wreads /\ i \notin weights /\ weights' = Layers \ wreads'
  BY <1>1, <1>2, Zenon DEF IInv, RestoreInv, TypeOK
<1>5. TypeOK'
  <2>1. /\ wreads' \subseteq Layers /\ weights' \subseteq Layers /\ sync' \in [Layers -> Int]
    <3>1. wreads \subseteq Layers /\ weights \subseteq Layers /\ sync \in [Layers -> Int]
      BY Zenon DEF IInv, TypeOK
    <3> QED
      BY <1>1, <3>1
  <2> QED
    BY <1>1, <2>1, Zenon DEF ReadWeights, IInv, TypeOK, loopVars, planVars, kvVars, fileVars, arenaVars
<1>6. PlanInv' /\ CursorInv'
  BY <1>1, <1>3, Zenon DEF IInv, PlanInv, Monotone, CursorInv
<1>7. LadderShape'
  BY <1>1, <1>3, Zenon DEF IInv, LadderShape, InState
<1>8. RestInv' /\ LoopInv' /\ UnloadInv'
  BY <1>1, <1>2, Zenon DEF IInv, RestInv, LoopInv, UnloadInv
<1>9. RestoreInv'
  BY <1>1, <1>2, <1>3, <1>4, Zenon DEF IInv, RestoreInv
<1>10. SyncCountsMissing'
  <2> DEFINE k(j) == Cardinality({c \in Chunks : st[j][c] \in {"Compressed", "Stored"}})
  <2>1. ASSUME NEW j \in Layers PROVE k(j) \in Nat
    <3>1. {c \in Chunks : st[j][c] \in {"Compressed", "Stored"}} \in SUBSET Chunks
      OBVIOUS
    <3> QED
      BY <3>1, PairsFinite
  <2>2. \A j \in Layers : sync[j] = k(j) + (IF j \in weights THEN 0 ELSE 1)
    BY <1>2, Zenon DEF IInv, SyncCountsMissing
  <2>3. ASSUME NEW j \in Layers
        PROVE  sync'[j] = IF j = i THEN sync[j] - 1 ELSE sync[j]
    BY <1>1, Zenon DEF IInv, TypeOK
  <2>4. SyncCountsMissing' <=> \A j \in Layers : sync'[j] = k(j) + (IF j \in weights' THEN 0 ELSE 1)
    BY <1>1, <1>2, Zenon DEF SyncCountsMissing
  <2> HIDE DEF k
  <2>5. ASSUME NEW j \in Layers PROVE sync'[j] = k(j) + (IF j \in weights' THEN 0 ELSE 1)
    <3>1. CASE j = i
      <4>1. j \notin weights /\ j \in weights' /\ sync[j] = k(j) + 1 /\ sync'[j] = sync[j] - 1
        BY <1>1, <1>4, <2>2, <2>3, <3>1, Zenon
      <4> QED
        BY <2>1, <4>1
    <3>2. CASE j # i
      <4>1. (j \in weights <=> j \in weights') /\ sync'[j] = sync[j]
        BY <1>1, <2>3, <3>2
      <4> QED
        BY <2>2, <4>1, Zenon
    <3> QED
      BY <3>1, <3>2
  <2> QED
    BY <2>4, <2>5
<1> QED
  BY <1>5, <1>6, <1>7, <1>8, <1>9, <1>10 DEF IInv

\* finish_swapin_cycle finds everything restored, and leaves a clean ladder.
LEMMA FinishStep == ASSUME SizeLaws, Consistent, Finish PROVE Consistent'
<1> SUFFICES ASSUME IInv PROVE IInv'
  BY DEF Consistent
<1>1. /\ Restoring /\ ~Restoring' /\ pc = "finish" /\ pc' = "idle"
      /\ reads = {} /\ decomps = {} /\ wreads = {} /\ frees = {}
      /\ nStore' = Max2(0, nStore - loadNum) /\ wL' = NumLayers - 1 /\ nUnload' = 0
      /\ UNCHANGED <<bound, nChunks, coreChunks, st, cL, cC, sL, sC>>
      /\ UNCHANGED <<reads, decomps, wreads, frees, weights, rounds>>
  BY Zenon DEF Finish, Restoring, planVars, taskVars, loopVars
<1>2. /\ CompRegion(bound)' = CompRegion(bound)
      /\ StoreRegion(bound, nChunks)' = StoreRegion(bound, nChunks)
      /\ CompTaken' = CompTaken /\ StoreTaken' = StoreTaken
      /\ MaxComp' = MaxComp /\ MaxStore' = MaxStore
  BY <1>1, SameCursors
<1>3. /\ CompTaken = {} /\ StoreTaken = {} /\ decompNum = nComp /\ loadNum = nStore
      /\ weights = Layers /\ nComp \in Nat /\ nStore \in Nat /\ saved \in Int
  BY <1>1, Zenon DEF IInv, RestoreInv, TypeOK
<1>4. nComp' = 0 /\ nStore' = 0 /\ saved' \in Int
  <2>1. nStore' = 0
    BY <1>1, <1>3 DEF Max2
  <2>2. CASE decompNum <= 0
    BY <1>3, <2>1, <2>2 DEF Finish
  <2>3. CASE ~(decompNum <= 0)
    BY <1>3, <2>1, <2>3 DEF Finish, Max2
  <2> QED
    BY <2>2, <2>3
<1>5. TypeOK'
  <2>1. arenaTop' \in [Layers -> Nat]
    <3>1. ASSUME NEW i \in Layers PROVE Cardinality(Compressed(i)) * CompBytes \in Nat
      <4>1. Compressed(i) \in SUBSET Chunks
        BY DEF Compressed
      <4>2. Cardinality(Compressed(i)) \in Nat /\ CompBytes \in Nat
        BY <4>1, PairsFinite, LadderAssumption
      <4> QED
        BY <4>2, ProductOrder
    <3>2. \/ arenaTop' = arenaTop
          \/ arenaTop' = [i \in Layers |-> Cardinality(Compressed(i)) * CompBytes]
      BY Zenon DEF Finish
    <3>3. arenaTop \in [Layers -> Nat]
      BY Zenon DEF IInv, TypeOK
    <3> QED
      BY <3>1, <3>2, <3>3, Zenon
  <2>2. fds' \subseteq Layers /\ cycle' \in Nat
    <3>1. fds \subseteq Layers /\ cycle \in Nat
      BY Zenon DEF IInv, TypeOK
    <3>2. fds' = {} /\ cycle' = cycle + 1
      BY Zenon DEF Finish
    <3> QED
      BY <3>1, <3>2
  <2>3. wL' \in -1 .. NumLayers - 1 /\ nUnload' \in 0 .. NumLayers
    BY <1>1, LadderAssumption
  <2> QED
    <3>1. /\ UNCHANGED <<target, todoC, todoS, stuck, rounds, nChunks, coreChunks>>
          /\ UNCHANGED <<allocated, pending, bound, st, cL, cC, sL, sC, file>>
          /\ UNCHANGED <<offUsed, nextOff, offBytes, weights, sync, compLeft>>
          /\ UNCHANGED <<decompNum, loadNum, todoL, todoD, reads, decomps, wreads, frees>>
      BY Zenon DEF Finish, loopVars, planVars, taskVars
    <3>2. pc' = "idle" /\ nComp' \in Nat /\ nStore' \in Nat /\ saved' \in Int
      BY <1>1, <1>4
    <3>3. TypeOK
      BY DEF IInv
    <3> QED
      BY <2>1, <2>2, <2>3, <3>1, <3>2, <3>3, Zenon DEF TypeOK
<1>6. PlanInv' /\ CursorInv'
  BY <1>1, <1>2, Zenon DEF IInv, PlanInv, Monotone, CursorInv
<1>7. LadderShape'
  BY <1>1, <1>2, Zenon DEF IInv, LadderShape, InState
<1>8. RestInv'
  BY <1>1, <1>2, <1>3, <1>4, Zenon DEF SizeLaws, EmptyLaw, RestInv
<1>9. LoopInv'
  <2>1. MaxComp \in Nat /\ BalanceChunks \in Nat
    BY RegionFacts, BalanceType DEF IInv
  <2>2. 0 > MaxComp - BalanceChunks => MaxStore = 0
    BY <2>1, TakenFacts DEF IInv, PlanInv
  <2> QED
    BY <1>1, <1>2, <1>4, <2>2, Zenon DEF LoopInv
<1>10. UnloadInv'
  <2>1. Layers = 0 .. NumLayers - 1 /\ NumLayers - 1 - 0 = NumLayers - 1
    BY LadderAssumption DEF Layers
  <2> QED
    BY <1>1, <1>3, <2>1, Zenon DEF UnloadInv
<1>11. RestoreInv' /\ SyncCountsMissing'
  BY <1>1, Zenon DEF RestoreInv, SyncCountsMissing
<1> QED
  BY <1>5, <1>6, <1>7, <1>8, <1>9, <1>10, <1>11 DEF IInv

-----------------------------------------------------------------------------
(* Plans: construction, and growth of the chunk set.                       *)

\* A plan of derive_swapout_plan satisfies what PlanInv says of a plan.
LEMMA PlanFacts ==
    ASSUME SizeLaws, NEW n \in 1 .. MaxChunks
    PROVE  /\ PlanBound(n) \in [Layers -> 0 .. MaxChunks]
           /\ \A i \in Layers : PlanBound(n)[i] \in 0 .. n
           /\ Monotone(PlanBound(n))
           /\ Cardinality(CompRegion(PlanBound(n))) < BalanceChunks =>
                StoreRegion(PlanBound(n), n) = {}
           /\ NumLayers - 1 \in Layers /\ n \in Nat \ {0}
           /\ PlanBound(n)[NumLayers - 1] = ChunkBound(n, NumLayers - 1)
           /\ ChunkBound(n, NumLayers - 1) \in Int
<1>1. NumLayers \in Nat \ {0} /\ MaxChunks \in Nat /\ n \in Nat \ {0} /\ NumLayers - 1 \in Layers
  BY LadderAssumption DEF Layers
<1>2. ASSUME NEW i \in Layers PROVE PlanBound(n)[i] = ChunkBound(n, i) /\ ChunkBound(n, i) \in 0 .. n
  BY <1>1, BoundType DEF PlanBound
<1>3. PlanBound(n) \in [Layers -> 0 .. MaxChunks]
  <2>1. ASSUME NEW i \in Layers PROVE ChunkBound(n, i) \in 0 .. MaxChunks
    BY <1>1, <1>2
  <2> QED
    BY <2>1 DEF PlanBound
<1>4. Monotone(PlanBound(n))
  BY <1>1, <1>2, BoundMonotone DEF Monotone
<1>5. Cardinality(CompRegion(PlanBound(n))) < BalanceChunks => StoreRegion(PlanBound(n), n) = {}
  <2>1. Cardinality(CompRegion(PlanBound(n))) \in Nat /\ BalanceChunks \in Nat
    BY PairsFinite, BalanceType DEF CompRegion
  <2> QED
    BY <2>1, PlanReserve
<1> QED
  BY <1>1, <1>2, <1>3, <1>4, <1>5

\* With both cursors at the top of a plan no chunk is taken.
LEMMA FreshCursors ==
    ASSUME SizeLaws, NEW n \in 1 .. MaxChunks
    PROVE  /\ {p \in CompRegion(PlanBound(n)) :
                 p[1] > NumLayers - 1
                 \/ (p[1] = NumLayers - 1 /\ p[2] > ChunkBound(n, NumLayers - 1) - 1)} = {}
           /\ {p \in StoreRegion(PlanBound(n), n) :
                 p[1] > NumLayers - 1 \/ (p[1] = NumLayers - 1 /\ p[2] > n - 1)} = {}
<1>1. NumLayers \in Nat \ {0} /\ MaxChunks \in Nat /\ n \in Nat
  BY LadderAssumption
<1>2. ASSUME NEW p \in Layers \X Chunks
      PROVE  p[1] \in Nat /\ p[1] <= NumLayers - 1 /\ p[2] \in Nat
  BY <1>1 DEF Layers, Chunks
<1>3. ASSUME NEW p \in CompRegion(PlanBound(n)), p[1] = NumLayers - 1
      PROVE  ~(p[2] > ChunkBound(n, NumLayers - 1) - 1)
  <2>1. p \in Layers \X Chunks /\ p[2] < PlanBound(n)[p[1]]
    BY DEF CompRegion
  <2>2. /\ ChunkBound(n, NumLayers - 1) \in Int
        /\ PlanBound(n)[NumLayers - 1] = ChunkBound(n, NumLayers - 1)
    BY PlanFacts
  <2> QED
    BY <1>2, <1>3, <2>1, <2>2
<1>4. ASSUME NEW p \in CompRegion(PlanBound(n)) PROVE ~(p[1] > NumLayers - 1)
  BY <1>1, <1>2 DEF CompRegion
<1>5. ASSUME NEW p \in StoreRegion(PlanBound(n), n)
      PROVE  ~(p[1] > NumLayers - 1) /\ ~(p[2] > n - 1)
  BY <1>1, <1>2 DEF StoreRegion
<1> QED
  BY <1>3, <1>4, <1>5, Zenon

\* No chunk is in a state that none is in.
LEMMA NoneInState ==
    ASSUME NEW i \in Layers, NEW c \in Chunks, NEW s, InState(s) = {}
    PROVE  st[i][c] # s
<1>1. <<i, c>> \in Pairs
  BY DEF Pairs
<1>2. <<i, c>> \notin InState(s)
  OBVIOUS
<1> QED
  BY <1>1, <1>2, Zenon DEF InState

\* register_grown_chunks on a clean ladder: nothing is taken before or after.
LEMMA RegisterStep ==
    ASSUME SizeLaws, Consistent, NEW n \in 1 .. MaxChunks, n > nChunks, RegisterChunks(n), coreChunks' = n,
           InState("Compressed") = {}, InState("Stored") = {}
    PROVE  /\ PlanInv' /\ CursorInv'
           /\ CompTaken' = {} /\ StoreTaken' = {}
           /\ InState("Compressed")' = {} /\ InState("Stored")' = {}
           /\ st' \in [Layers -> [Chunks -> ChunkStates]]
           /\ 0 > MaxComp' - BalanceChunks => MaxStore' = 0
           /\ \A i \in Layers :
                {c \in Chunks : st'[i][c] \in {"Compressed", "Stored"}}
                  = {c \in Chunks : st[i][c] \in {"Compressed", "Stored"}}
<1> IInv
  BY DEF Consistent
<1>1. /\ nChunks' = n /\ st' = Registered(st, nChunks, n) /\ bound' = PlanBound(n)
      /\ cL' = NumLayers - 1 /\ cC' = ChunkBound(n, NumLayers - 1) - 1
      /\ sL' = NumLayers - 1 /\ sC' = n - 1
  BY RegisterTerms, Zenon
<1>2. CompTaken' = {} /\ StoreTaken' = {}
  BY <1>1, FreshCursors, Zenon DEF CompTaken, StoreTaken
<1>3. /\ MaxComp' = Cardinality(CompRegion(PlanBound(n)))
      /\ MaxStore' = Cardinality(StoreRegion(PlanBound(n), n))
      /\ StoreRegion(bound, nChunks)' = StoreRegion(PlanBound(n), n)
  BY <1>1, Zenon DEF MaxComp, MaxStore, StoreRegion, CompRegion
<1>4. PlanInv'
  BY <1>1, <1>3, PlanFacts DEF PlanInv, Monotone
<1>5. CursorInv'
  <2>1. NumLayers \in Nat \ {0} /\ n \in Nat \ {0} /\ bound' = PlanBound(n)
    BY <1>1, LadderAssumption, PlanFacts, Zenon
  <2>2. /\ NumLayers - 1 \in Layers /\ bound'[NumLayers - 1] = ChunkBound(n, NumLayers - 1)
        /\ bound'[NumLayers - 1] \in 0 .. n
    BY <1>1, PlanFacts, Zenon
  <2>3. /\ cC' \in -1 .. bound'[cL'] - 1 /\ sC' \in bound'[sL'] - 1 .. nChunks' - 1
        /\ ~(sL' < NumLayers - 1)
    BY <1>1, <2>1, <2>2
  <2> QED
    BY <1>1, <2>2, <2>3, Zenon DEF CursorInv
<1>6. st \in [Layers -> [Chunks -> ChunkStates]]
  BY Zenon DEF IInv, TypeOK
<1>7. ASSUME NEW i \in Layers, NEW c \in Chunks
      PROVE  /\ st'[i][c] \in ChunkStates
             /\ st[i][c] \notin {"Compressed", "Stored"}
             /\ st'[i][c] \notin {"Compressed", "Stored"}
  <2>1. st[i][c] # "Compressed" /\ st[i][c] # "Stored"
    BY NoneInState, Zenon
  <2>2. st'[i][c] \in {st[i][c], "Raw", "None"}
    BY <1>1, Zenon DEF Registered
  <2> QED
    BY <1>6, <2>1, <2>2, Zenon DEF ChunkStates
<1>8. st' \in [Layers -> [Chunks -> ChunkStates]]
  <2>1. st' = [i \in Layers |-> [c \in Chunks |->
                 IF c < nChunks THEN st[i][c] ELSE IF c < n THEN "Raw" ELSE "None"]]
    BY <1>1, Zenon DEF Registered
  <2>2. ASSUME NEW i \in Layers, NEW c \in Chunks
        PROVE  (IF c < nChunks THEN st[i][c] ELSE IF c < n THEN "Raw" ELSE "None") \in ChunkStates
    BY <1>6 DEF ChunkStates
  <2> QED
    BY <2>1, <2>2, Zenon
<1>9. InState("Compressed")' = {} /\ InState("Stored")' = {}
  BY <1>7, Zenon DEF InState, Pairs
<1>10. 0 > MaxComp' - BalanceChunks => MaxStore' = 0
  <2>1. MaxComp' \in Nat /\ BalanceChunks \in Nat
    BY <1>3, PairsFinite, BalanceType, Zenon DEF CompRegion, Pairs
  <2>2. Cardinality({}) = 0
    BY DEF SizeLaws, EmptyLaw
  <2>3. MaxComp' < BalanceChunks => MaxStore' = 0
    BY <1>3, <2>2, PlanFacts, Zenon
  <2>4. \A a, b \in Nat : 0 > a - b => a < b
    OBVIOUS
  <2> QED
    BY <2>1, <2>3, <2>4, Zenon
<1>11. \A i \in Layers :
         {c \in Chunks : st'[i][c] \in {"Compressed", "Stored"}}
           = {c \in Chunks : st[i][c] \in {"Compressed", "Stored"}}
  BY <1>7, Zenon
<1> QED
  BY <1>2, <1>4, <1>5, <1>8, <1>9, <1>10, <1>11, Zenon

\* On a clean ladder no chunk is swapped out and none is on its way back.
LEMMA CleanFacts ==
    ASSUME SizeLaws, Consistent, nComp = 0, nStore = 0
    PROVE  /\ CompTaken = {} /\ StoreTaken = {} /\ reads = {} /\ decomps = {}
           /\ InState("Compressed") = {} /\ InState("Stored") = {}
<1> IInv
  BY DEF Consistent
<1>1. CompTaken = {} /\ StoreTaken = {} /\ reads = {} /\ decomps = {}
  <2>1. CASE Restoring
    BY <2>1, Zenon DEF IInv, RestoreInv
  <2>2. CASE ~Restoring
    BY <2>2, RestFacts, TakenFacts, Zenon DEF IInv
  <2> QED
    BY <2>1, <2>2
<1> QED
  BY <1>1 DEF IInv, LadderShape

\* The state of construction.
LEMMA InitStep == ASSUME SizeLaws, Init PROVE Consistent
<1> SUFFICES IInv
  BY DEF Consistent
<1>1. InitChunks \in 1 .. MaxChunks /\ NumLayers \in Nat \ {0} /\ MaxChunks \in Nat \ {0}
  BY LadderAssumption
<1>2. /\ pc = "idle" /\ ~Restoring /\ nChunks = InitChunks /\ coreChunks = InitChunks
      /\ bound = PlanBound(InitChunks)
      /\ cL = NumLayers - 1 /\ cC = ChunkBound(InitChunks, NumLayers - 1) - 1
      /\ sL = NumLayers - 1 /\ sC = InitChunks - 1 /\ nComp = 0 /\ nStore = 0
      /\ wL = NumLayers - 1 /\ nUnload = 0 /\ weights = Layers
      /\ reads = {} /\ decomps = {} /\ wreads = {} /\ frees = {}
  BY Zenon DEF Init, Restoring
<1>3. CompTaken = {} /\ StoreTaken = {}
  BY <1>1, <1>2, FreshCursors, Zenon DEF CompTaken, StoreTaken
<1>4. PlanInv
  <2>1. /\ \A i \in Layers : bound[i] \in 0 .. InitChunks
        /\ Monotone(bound)
        /\ MaxComp < BalanceChunks => StoreRegion(bound, InitChunks) = {}
    BY <1>1, <1>2, PlanFacts, Zenon DEF MaxComp
  <2>2. \A i \in Layers : bound[i] <= InitChunks
    BY <1>1, <2>1
  <2> QED
    BY <1>2, <2>1, <2>2, Zenon DEF PlanInv
<1>5. /\ NumLayers - 1 \in Layers /\ bound[NumLayers - 1] = ChunkBound(InitChunks, NumLayers - 1)
      /\ bound[NumLayers - 1] \in 0 .. InitChunks
  BY <1>1, <1>2, PlanFacts, Zenon
<1>6. CursorInv
  BY <1>1, <1>2, <1>5 DEF CursorInv
<1>7. ASSUME NEW i \in Layers, NEW c \in Chunks PROVE st[i][c] \in {"Raw", "None"}
  <2>1. c \in Nat
    BY <1>1 DEF Chunks
  <2>2. st[i][c] = IF c < 0 THEN Empty[i][c] ELSE IF c < InitChunks THEN "Raw" ELSE "None"
    BY Zenon DEF Init, Registered
  <2> QED
    BY <2>1, <2>2
<1>8. LadderShape
  BY <1>2, <1>3, <1>7, Zenon DEF LadderShape, InState, Pairs
<1>9. TypeOK
  <2>1. st \in [Layers -> [Chunks -> ChunkStates]]
    <3>1. st = [i \in Layers |-> [c \in Chunks |->
                  IF c < 0 THEN Empty[i][c] ELSE IF c < InitChunks THEN "Raw" ELSE "None"]]
      BY Zenon DEF Init, Registered
    <3>2. ASSUME NEW i \in Layers, NEW c \in Chunks
          PROVE  (IF c < 0 THEN Empty[i][c] ELSE IF c < InitChunks THEN "Raw" ELSE "None")
                   \in ChunkStates
      BY <1>1 DEF ChunkStates, Chunks
    <3> QED
      BY <3>1, <3>2, Zenon
  <2>2. file \in [Layers -> [Chunks -> (0 .. MaxChunks) \X Nat \X BOOLEAN]]
    <3>1. NoChunk \in (0 .. MaxChunks) \X Nat \X BOOLEAN
      <4>1. MaxChunks \in 0 .. MaxChunks /\ 0 \in Nat
        BY <1>1
      <4>2. \A w \in BOOLEAN : <<MaxChunks, 0, w>> \in (0 .. MaxChunks) \X Nat \X BOOLEAN
        BY <4>1
      <4>3. FALSE \in BOOLEAN
        OBVIOUS
      <4> QED
        BY <4>2, <4>3, Zenon DEF NoChunk
    <3> QED
      BY <3>1, Zenon DEF Init
  <2>3. bound \in [Layers -> 0 .. MaxChunks]
    BY <1>1, <1>2, PlanFacts, Zenon
  <2>4. Zero \in [Layers -> Nat] /\ Zero \in [Layers -> Int]
    BY DEF Zero
  <2>5. /\ cL \in Int /\ sL \in Int /\ sC \in Int /\ cC \in Int
        /\ nextOff \in -1 .. NumLayers - 1 /\ wL \in -1 .. NumLayers - 1
        /\ nUnload \in 0 .. NumLayers
    <3>1. nextOff = NumLayers - 1
      BY Zenon DEF Init
    <3> QED
      BY <1>1, <1>2, <1>5, <3>1
  <2>6. /\ target \in Nat /\ todoC \in Int /\ todoS \in Int /\ rounds \in Nat
        /\ nComp \in Nat /\ nStore \in Nat /\ saved \in Int /\ cycle \in Nat /\ offBytes \in Int
        /\ decompNum \in Nat /\ loadNum \in Nat /\ todoL \in Nat /\ todoD \in Nat
    BY DEF Init
  <2>7. /\ nChunks \in 1 .. MaxChunks /\ coreChunks \in 1 .. MaxChunks
        /\ allocated \in 1 .. MaxChunks /\ pending \in 0 .. MaxChunks
    BY <1>1 DEF Init
  <2>8. /\ arenaTop \in [Layers -> Nat] /\ offUsed \in [Layers -> Nat]
        /\ sync \in [Layers -> Int] /\ compLeft \in [Layers -> Int]
    BY <2>4, Zenon DEF Init
  <2>9. /\ fds \subseteq Layers /\ weights \subseteq Layers
        /\ reads \subseteq Pairs /\ decomps \subseteq Pairs
        /\ wreads \subseteq Layers /\ frees \subseteq Layers
    BY Zenon DEF Init
  <2>10. stuck \in BOOLEAN
    BY Zenon DEF Init
  <2> QED
    BY <1>2, <2>1, <2>2, <2>3, <2>5, <2>6, <2>7, <2>8, <2>9, <2>10, Zenon DEF TypeOK
<1>10. RestInv
  BY <1>2, <1>3, Zenon DEF SizeLaws, EmptyLaw, RestInv
<1>11. LoopInv
  <2>1. MaxComp \in Nat /\ BalanceChunks \in Nat
    BY <1>4, <1>9, RegionFacts, BalanceType
  <2>2. 0 > MaxComp - BalanceChunks => MaxStore = 0
    BY <1>4, <1>9, <2>1, TakenFacts DEF PlanInv
  <2> QED
    BY <1>2, <2>2, Zenon DEF LoopInv
<1>12. UnloadInv
  <2>1. Layers = 0 .. NumLayers - 1 /\ NumLayers - 1 - 0 = NumLayers - 1
    BY <1>1 DEF Layers
  <2> QED
    BY <1>2, <2>1 DEF UnloadInv
<1>13. RestoreInv /\ SyncCountsMissing
  BY <1>2, Zenon DEF RestoreInv, SyncCountsMissing
<1> QED
  BY <1>4, <1>6, <1>8, <1>9, <1>10, <1>11, <1>12, <1>13 DEF IInv
\* A step that changes nothing the invariant looks at but types.
LEMMA FrameStep ==
    ASSUME SizeLaws, Consistent, TypeOK',
           UNCHANGED <<pc, coreChunks, nChunks, bound, loopVars, kvVars, weightVars, taskVars>>
    PROVE  Consistent'
<1> SUFFICES ASSUME IInv PROVE IInv'
  BY DEF Consistent
<1>1. /\ UNCHANGED <<bound, nChunks, coreChunks, st, cL, cC, sL, sC, nComp, nStore>>
      /\ UNCHANGED <<reads, decomps, wreads, frees, wL, nUnload, weights>>
      /\ UNCHANGED <<sync, decompNum, loadNum, todoL, todoD, pc, todoC, todoS, stuck, rounds>>
  BY Zenon DEF kvVars, loopVars, weightVars, taskVars
<1>2. /\ CompRegion(bound)' = CompRegion(bound)
      /\ StoreRegion(bound, nChunks)' = StoreRegion(bound, nChunks)
      /\ CompTaken' = CompTaken /\ StoreTaken' = StoreTaken
      /\ MaxComp' = MaxComp /\ MaxStore' = MaxStore
  BY <1>1, SameCursors, Zenon
<1>3. Restoring' = Restoring
  BY <1>1, Zenon DEF Restoring
<1>4. PlanInv' /\ CursorInv'
  <2>1. PlanInv'
    BY <1>1, <1>2, Zenon DEF IInv, PlanInv, Monotone
  <2>2. CursorInv'
    BY <1>1, <1>2, Zenon DEF IInv, CursorInv
  <2> QED
    BY <2>1, <2>2
<1>5. LadderShape'
  BY <1>1, <1>2, Zenon DEF IInv, LadderShape, InState
<1>6. RestInv'
  BY <1>1, <1>2, <1>3, Zenon DEF IInv, RestInv
<1>7. LoopInv' /\ UnloadInv'
  BY <1>1, <1>2, <1>3, Zenon DEF IInv, LoopInv, UnloadInv
<1>8. RestoreInv'
  BY <1>1, <1>2, <1>3, Zenon DEF IInv, RestoreInv
<1>9. SyncCountsMissing'
  BY <1>1, <1>3, Zenon DEF IInv, SyncCountsMissing
<1> QED
  BY <1>4, <1>5, <1>6, <1>7, <1>8, <1>9, Zenon DEF IInv

\* The cache materialises chunks: registered at once on a clean ladder, parked
\* otherwise.
LEMMA GrowStep == ASSUME SizeLaws, Consistent, NEW n \in 1 .. MaxChunks, Grow(n) PROVE Consistent'
<1> SUFFICES ASSUME IInv PROVE IInv'
  BY DEF Consistent
<1>1. /\ allocated' = n /\ UNCHANGED <<pc, loopVars, fileVars, arenaVars, weightVars, taskVars>>
      /\ pc = "idle" \/ Restoring
  BY Zenon DEF Grow, Decoding, Restoring
<1>2. CASE ~(n > nChunks /\ CleanLadder)
  <2>1. /\ UNCHANGED <<nChunks, coreChunks, bound, kvVars>>
        /\ pending' \in {pending, n}
    <3>1. CASE n <= nChunks
      BY <3>1, Zenon DEF Grow
    <3>2. CASE ~(n <= nChunks)
      <4>0. nChunks \in 1 .. MaxChunks /\ pending \in 0 .. MaxChunks
        BY Zenon DEF IInv, TypeOK
      <4>1. nChunks \in Int /\ n \in Int /\ pending \in Int
        BY <4>0, LadderAssumption
      <4>2. ~CleanLadder
        BY <1>2, <3>2, <4>1
      <4> QED
        BY <3>2, <4>2, Zenon DEF Grow, Max2
    <3> QED
      BY <3>1, <3>2, Zenon
  <2>2. TypeOK'
    <3>0. pending \in 0 .. MaxChunks
      BY Zenon DEF IInv, TypeOK
    <3>1. pending' \in 0 .. MaxChunks
      BY <2>1, <3>0, LadderAssumption
    <3> QED
      BY <1>1, <2>1, <3>1, Zenon DEF IInv, TypeOK, loopVars, kvVars, fileVars, arenaVars, weightVars, taskVars
  <2> QED
    BY <1>1, <2>1, <2>2, FrameStep, Zenon DEF Consistent
<1>3. CASE n > nChunks /\ CleanLadder
  <2>1. /\ RegisterChunks(n) /\ coreChunks' = n /\ pending' = pending
        /\ nComp = 0 /\ nStore = 0
    <3>0. nChunks \in 1 .. MaxChunks
      BY Zenon DEF IInv, TypeOK
    <3>1. nChunks \in Int /\ n \in Int
      BY <3>0, LadderAssumption
    <3>2. ~(n <= nChunks)
      BY <1>3, <3>1
    <3> QED
      BY <1>3, <3>2, Zenon DEF Grow, CleanLadder
  <2>2. /\ CompTaken = {} /\ StoreTaken = {} /\ reads = {} /\ decomps = {}
        /\ InState("Compressed") = {} /\ InState("Stored") = {}
    BY <2>1, CleanFacts
  <2>3. /\ PlanInv' /\ CursorInv'
        /\ CompTaken' = {} /\ StoreTaken' = {}
        /\ InState("Compressed")' = {} /\ InState("Stored")' = {}
        /\ st' \in [Layers -> [Chunks -> ChunkStates]]
        /\ 0 > MaxComp' - BalanceChunks => MaxStore' = 0
        /\ \A i \in Layers :
             {c \in Chunks : st'[i][c] \in {"Compressed", "Stored"}}
               = {c \in Chunks : st[i][c] \in {"Compressed", "Stored"}}
    BY <1>3, <2>1, <2>2, RegisterStep, Zenon
  <2>4. UNCHANGED <<nComp, nStore, saved>> /\ nChunks' = n /\ bound' = PlanBound(n)
    BY <2>1, RegisterTerms, Zenon
  <2>5. /\ UNCHANGED <<reads, decomps, wreads, frees, wL, nUnload, weights, pc>>
        /\ UNCHANGED <<sync, decompNum, loadNum, todoL, todoD, rounds>>
    BY <1>1, Zenon DEF loopVars, weightVars, taskVars
  <2>6. Restoring' = Restoring
    BY <2>5 DEF Restoring
  <2>7. TypeOK'
    <3>1. cL' \in Int /\ cC' \in Int /\ sL' \in Int /\ sC' \in Int
      <4>1. /\ cL' = NumLayers - 1 /\ cC' = ChunkBound(n, NumLayers - 1) - 1
            /\ sL' = NumLayers - 1 /\ sC' = n - 1
        BY <2>1, RegisterTerms, Zenon
      <4>2. ChunkBound(n, NumLayers - 1) \in Int
        BY PlanFacts, Zenon
      <4>3. NumLayers \in Int /\ n \in Int
        BY LadderAssumption
      <4> QED
        BY <4>1, <4>2, <4>3
    <3>2. bound' \in [Layers -> 0 .. MaxChunks]
      BY <2>4, PlanFacts, Zenon
    <3> QED
      BY <1>1, <2>1, <2>3, <2>4, <3>1, <3>2, Zenon
         DEF IInv, TypeOK, loopVars, fileVars, arenaVars, weightVars, taskVars
  <2>8. LadderShape'
    BY <2>2, <2>3, <2>5, Zenon DEF LadderShape
  <2>9. RestInv'
    BY <2>1, <2>2, <2>3, <2>4, <2>5, <2>6, Zenon DEF SizeLaws, EmptyLaw, IInv, RestInv
  <2>10. LoopInv' /\ UnloadInv'
    BY <1>1, <2>1, <2>3, <2>4, <2>5, <2>6, Zenon DEF IInv, LoopInv, UnloadInv, Restoring
  <2>11. RestoreInv'
    BY <2>1, <2>2, <2>3, <2>4, <2>5, <2>6, Zenon DEF IInv, RestoreInv
  <2>12. SyncCountsMissing'
    BY <2>3, <2>5, <2>6, Zenon DEF IInv, SyncCountsMissing
  <2> QED
    BY <2>3, <2>7, <2>8, <2>9, <2>10, <2>11, <2>12, Zenon DEF IInv
<1> QED
  BY <1>2, <1>3

\* A swapout starts: parked growth is registered if the ladder is clean.
LEMMA SwapoutStartStep == ASSUME SizeLaws, Consistent, NEW t \in Targets, SwapoutStart(t) PROVE Consistent'
<1> SUFFICES ASSUME IInv PROVE IInv'
  BY DEF Consistent
<1>1. /\ pc = "idle" /\ pc' \in {"idle", "p1"} /\ target' \in {0, t} /\ rounds' = NumLayers - nUnload
      /\ coreChunks' = nChunks' /\ ApplyPendingGrowth
      /\ UNCHANGED <<todoC, todoS, stuck, allocated, fileVars, arenaVars, weightVars, taskVars>>
  BY Zenon DEF SwapoutStart, UnloadRounds
<1>2. /\ ~Restoring /\ ~Restoring'
      /\ UNCHANGED <<reads, decomps, wreads, frees, wL, nUnload, weights>>
  BY <1>1, Zenon DEF Restoring, weightVars, taskVars
<1>3. target' \in Nat /\ rounds' \in Nat
  <2>1. nUnload \in 0 .. NumLayers
    BY Zenon DEF IInv, TypeOK
  <2> QED
    BY <1>1, <2>1, LadderAssumption
<1>4. UnloadInv'
  BY <1>1, <1>2, Zenon DEF IInv, UnloadInv
<1>5. RestoreInv' /\ SyncCountsMissing'
  BY <1>2, Zenon DEF RestoreInv, SyncCountsMissing
<1>6. CASE pending > nChunks /\ CleanLadder
  <2>1. /\ pending' = 0 /\ RegisterChunks(pending) /\ nComp = 0 /\ nStore = 0
        /\ pending \in 1 .. MaxChunks /\ coreChunks' = pending
    <3>1. pending \in 0 .. MaxChunks /\ nChunks \in 1 .. MaxChunks /\ MaxChunks \in Nat
      BY LadderAssumption, Zenon DEF IInv, TypeOK
    <3>2. /\ pending' = 0 /\ RegisterChunks(pending) /\ nComp = 0 /\ nStore = 0
      BY <1>1, <1>6, Zenon DEF ApplyPendingGrowth, CleanLadder
    <3>3. pending \in 1 .. MaxChunks /\ nChunks' = pending
      BY <1>6, <3>1, <3>2 DEF RegisterChunks
    <3> QED
      BY <1>1, <3>2, <3>3
  <2>2. /\ CompTaken = {} /\ StoreTaken = {} /\ reads = {} /\ decomps = {}
        /\ InState("Compressed") = {} /\ InState("Stored") = {}
    BY <2>1, CleanFacts, Zenon
  <2>3. /\ PlanInv' /\ CursorInv'
        /\ CompTaken' = {} /\ StoreTaken' = {}
        /\ InState("Compressed")' = {} /\ InState("Stored")' = {}
        /\ st' \in [Layers -> [Chunks -> ChunkStates]]
        /\ 0 > MaxComp' - BalanceChunks => MaxStore' = 0
    BY <1>6, <2>1, <2>2, RegisterStep, Zenon
  <2>4. UNCHANGED <<nComp, nStore, saved>> /\ nChunks' = pending /\ bound' = PlanBound(pending)
    BY <2>1, RegisterTerms, Zenon
  <2>5. TypeOK'
    <3>1. cL' \in Int /\ cC' \in Int /\ sL' \in Int /\ sC' \in Int
      <4>1. /\ cL' = NumLayers - 1 /\ cC' = ChunkBound(pending, NumLayers - 1) - 1
            /\ sL' = NumLayers - 1 /\ sC' = pending - 1
        BY <2>1, RegisterTerms, Zenon
      <4>2. ChunkBound(pending, NumLayers - 1) \in Int
        BY <2>1, PlanFacts, Zenon
      <4>3. NumLayers \in Int /\ pending \in Int
        BY <2>1, LadderAssumption
      <4> QED
        BY <4>1, <4>2, <4>3
    <3>2. bound' \in [Layers -> 0 .. MaxChunks]
      BY <2>1, <2>4, PlanFacts, Zenon
    <3>3. pending' \in 0 .. MaxChunks
      BY <2>1, LadderAssumption
    <3> QED
      BY <1>1, <1>3, <2>1, <2>3, <2>4, <3>1, <3>2, <3>3, Zenon
         DEF IInv, TypeOK, fileVars, arenaVars, weightVars, taskVars
  <2>6. LadderShape'
    BY <1>2, <2>2, <2>3, Zenon DEF LadderShape
  <2>7. RestInv'
    BY <1>2, <2>1, <2>2, <2>3, <2>4, Zenon DEF SizeLaws, EmptyLaw, IInv, RestInv
  <2>8. LoopInv'
    BY <1>1, <2>1, <2>3, <2>4, Zenon DEF LoopInv
  <2> QED
    BY <1>4, <1>5, <2>3, <2>5, <2>6, <2>7, <2>8, Zenon DEF IInv
<1>7. CASE ~(pending > nChunks /\ CleanLadder)
  <2>1. UNCHANGED <<nChunks, bound, kvVars>> /\ pending' \in {0, pending}
    BY <1>1, <1>7, Zenon DEF ApplyPendingGrowth
  <2>2. /\ UNCHANGED <<bound, nChunks, coreChunks, st, cL, cC, sL, sC, nComp, nStore>>
    BY <1>1, <2>1, Zenon DEF kvVars, IInv, PlanInv
  <2>3. /\ CompRegion(bound)' = CompRegion(bound)
        /\ StoreRegion(bound, nChunks)' = StoreRegion(bound, nChunks)
        /\ CompTaken' = CompTaken /\ StoreTaken' = StoreTaken
        /\ MaxComp' = MaxComp /\ MaxStore' = MaxStore
    BY <2>2, SameCursors, Zenon
  <2>4. TypeOK'
    <3>0. pending \in 0 .. MaxChunks
      BY Zenon DEF IInv, TypeOK
    <3>1. pending' \in 0 .. MaxChunks
      BY <2>1, <3>0, LadderAssumption
    <3> QED
      BY <1>1, <1>3, <2>1, <2>2, <3>1, Zenon
         DEF IInv, TypeOK, kvVars, fileVars, arenaVars, weightVars, taskVars
  <2>5. PlanInv' /\ CursorInv'
    BY <2>2, <2>3, Zenon DEF IInv, PlanInv, Monotone, CursorInv
  <2>6. LadderShape' /\ RestInv'
    BY <1>2, <2>2, <2>3, Zenon DEF IInv, LadderShape, InState, RestInv
  <2>7. LoopInv'
    BY <1>1, <1>2, <2>2, <2>3, Zenon DEF IInv, LoopInv
  <2> QED
    BY <1>4, <1>5, <2>4, <2>5, <2>6, <2>7, Zenon DEF IInv
<1> QED
  BY <1>6, <1>7
-----------------------------------------------------------------------------
(* The bytes behind the bookkeeping, in swap-in and growth.                *)

\* swapin_generate begins: reload_all_arenas brings every offloaded layer back,
\* and comp_left counts what initialize_layer_sync finds compressed.
LEMMA SwapinStartData == ASSUME SizeLaws, Consistent, DataInv, SwapinStart PROVE DataInv'
<1>1. /\ pc = "idle" /\ ~Restoring /\ Restoring' /\ pc' = "load"
      /\ compLeft' = [i \in Layers |-> CompressInit(i)] /\ decompNum' = DecompNum
      /\ arenaTop' = [i \in Layers |-> IF i > nextOff /\ offUsed[i] > 0 THEN offUsed[i] ELSE arenaTop[i]]
      /\ nextOff' = NumLayers - 1
      /\ offBytes' = IF nextOff + 1 >= NumLayers THEN offBytes ELSE 0
      /\ UNCHANGED <<st, bound, file, cycle, nComp, nStore, saved, frees>>
      /\ UNCHANGED <<nChunks, coreChunks, allocated, pending>>
  BY Zenon DEF SwapinStart, ReloadAllArenas, Restoring, planVars, kvVars
<1>2. arenaTop \in [Layers -> Nat] /\ offUsed \in [Layers -> Nat]
  BY Zenon DEF Consistent, IInv, TypeOK
<1>3. \A i \in Layers : CompressedIn(i)' = CompressedIn(i) /\ CompressedBytes(i)' = CompressedBytes(i)
  BY <1>1, Zenon DEF CompressedIn, CompressedBytes
<1>4. ASSUME NEW i \in Layers
      PROVE  arenaTop'[i] = CompressedBytes(i)
  <2>1. IF i > nextOff THEN arenaTop[i] = 0 /\ offUsed[i] = CompressedBytes(i)
        ELSE arenaTop[i] = CompressedBytes(i)
    BY <1>1, Zenon DEF DataInv, ArenaInv
  <2>2. arenaTop'[i] = IF i > nextOff /\ offUsed[i] > 0 THEN offUsed[i] ELSE arenaTop[i]
    BY <1>1, Zenon
  <2> QED
    BY <1>2, <2>1, <2>2
<1>5. DecompNum = 0 => \A i \in Layers : CompressedBytes(i) = 0
  <2>1. DecompNum = nComp
    BY <1>1, DecompCount, RestFacts, Zenon DEF Consistent, IInv
  <2> QED
    BY <1>1, <2>1, CounterBounds, NothingCompressed, Zenon
<1>6. offBytes' = 0
  <2>1. /\ nextOff \in Int /\ NumLayers \in Nat /\ nextOff <= NumLayers - 1
        /\ nextOff = NumLayers - 1 => offBytes = 0
    BY OffloadFacts, Zenon DEF DataInv, ArenaInv
  <2>2. nextOff + 1 >= NumLayers => nextOff = NumLayers - 1
    BY <2>1
  <2> QED
    BY <1>1, <2>1, <2>2, Zenon
<1>7. \A i \in Layers :
        /\ compLeft'[i] = Cardinality(CompressedIn(i)')
        /\ arenaTop'[i] >= CompressedBytes(i)'
        /\ i \notin frees'
        /\ decompNum' = 0 => arenaTop'[i] = 0
  <2> SUFFICES ASSUME NEW i \in Layers
               PROVE  /\ compLeft'[i] = Cardinality(CompressedIn(i))
                      /\ arenaTop'[i] >= CompressedBytes(i)
                      /\ i \notin frees'
                      /\ decompNum' = 0 => arenaTop'[i] = 0
    BY <1>3, Zenon
  <2>1. compLeft'[i] = Cardinality(CompressedIn(i))
    BY <1>1, CompressedCount, Zenon
  <2>2. i \notin frees'
    BY <1>1, RestFacts, Zenon
  <2>3. arenaTop'[i] = CompressedBytes(i) /\ CompressedBytes(i) \in Nat
    BY <1>4, CompressedFacts, Zenon
  <2> QED
    BY <1>1, <1>5, <2>1, <2>2, <2>3
<1>8. ArenaInv'
  <2>1. ~(nextOff' < NumLayers - 1)
    BY <1>1, LadderAssumption
  <2> QED
    BY <1>1, <1>6, <1>7, <2>1, Zenon DEF ArenaInv
<1>9. StoredSlotKept'
  BY <1>1, FreshKept, Zenon DEF DataInv, InState
<1>10. GrowthInv' /\ BookInv'
  BY <1>1, Zenon DEF DataInv, GrowthInv, BookInv, Processed
<1> QED
  BY <1>8, <1>9, <1>10 DEF DataInv

\* A task of the pool disturbs only what ArenaInv says of the layers.
LEMMA TaskData ==
    ASSUME SizeLaws, Consistent, DataInv, Restoring, pc' = pc,
           UNCHANGED <<bound, nChunks, allocated, pending, file, cycle, nComp, nStore, saved,
                       nextOff, offBytes>>,
           InState("Stored")' \subseteq InState("Stored"),
           \A i \in Layers :
             /\ compLeft'[i] = Cardinality(CompressedIn(i)')
             /\ arenaTop'[i] >= CompressedBytes(i)'
             /\ i \in frees' => CompressedIn(i)' = {}
             /\ decompNum' = 0 => arenaTop'[i] = 0
    PROVE  DataInv'
<1>1. Restoring'
  BY Zenon DEF Restoring
<1>2. ArenaInv'
  BY <1>1, OffloadFacts DEF ArenaInv
<1>3. GrowthInv' /\ BookInv'
  BY <1>1, Zenon DEF DataInv, GrowthInv, BookInv, Restoring
<1> QED
  BY <1>2, <1>3, FreshKept, Zenon DEF DataInv

\* kv_read_worker: a slot less is needed, no compressed chunk is touched.
LEMMA ReadChunkData ==
    ASSUME SizeLaws, Consistent, DataInv, NEW i \in Layers, NEW c \in Chunks, ReadChunk(i, c)
    PROVE  DataInv'
<1>1. /\ <<i, c>> \in reads /\ pc' = pc /\ st' = [st EXCEPT ![i][c] = "Raw"]
      /\ UNCHANGED <<bound, nChunks, allocated, pending, file, cycle, nComp, nStore, saved>>
      /\ UNCHANGED <<arenaTop, nextOff, offBytes, compLeft, frees, decompNum>>
  BY Zenon DEF ReadChunk, planVars, fileVars, arenaVars
<1>2. Restoring
  BY <1>1, TaskFacts, Zenon
<1>3. st[i][c] = "Stored"
  BY <1>1 DEF Consistent, IInv, LadderShape, InState
<1>4. st \in [Layers -> [Chunks -> ChunkStates]]
  BY Zenon DEF Consistent, IInv, TypeOK
<1>5. ASSUME NEW j \in Layers, NEW d \in Chunks
      PROVE  st'[j][d] = IF j = i /\ d = c THEN "Raw" ELSE st[j][d]
  BY <1>1, <1>4, Zenon
<1>6. \A j \in Layers : CompressedIn(j)' = CompressedIn(j) /\ CompressedBytes(j)' = CompressedBytes(j)
  <2>1. \A j \in Layers : CompressedIn(j)' = CompressedIn(j)
    BY <1>3, <1>5, Zenon DEF CompressedIn
  <2> QED
    BY <2>1 DEF CompressedBytes
<1>7. InState("Stored")' \subseteq InState("Stored")
  BY <1>5, Zenon DEF InState, Pairs
<1>8. \A j \in Layers :
        /\ compLeft'[j] = Cardinality(CompressedIn(j)')
        /\ arenaTop'[j] >= CompressedBytes(j)'
        /\ j \in frees' => CompressedIn(j)' = {}
        /\ decompNum' = 0 => arenaTop'[j] = 0
  BY <1>1, <1>2, <1>6, Zenon DEF DataInv, ArenaInv
<1> QED
  BY <1>1, <1>2, <1>7, <1>8, TaskData, Zenon

\* kv_decomp_worker: comp_left counts down with the chunks, and the one that takes
\* it to zero is the last.
LEMMA DecompressChunkData ==
    ASSUME SizeLaws, Consistent, DataInv, NEW i \in Layers, NEW c \in Chunks, DecompressChunk(i, c)
    PROVE  DataInv'
<1>1. /\ <<i, c>> \in decomps /\ pc' = pc /\ st' = [st EXCEPT ![i][c] = "Raw"]
      /\ compLeft' = [compLeft EXCEPT ![i] = @ - 1]
      /\ frees' = IF compLeft[i] = 1 THEN frees \cup {i} ELSE frees
      /\ UNCHANGED <<bound, nChunks, allocated, pending, file, cycle, nComp, nStore, saved>>
      /\ UNCHANGED <<arenaTop, nextOff, offBytes, decompNum>>
  BY Zenon DEF DecompressChunk, LastOfLayer, planVars, fileVars, arenaVars
<1>2. Restoring
  BY <1>1, TaskFacts, Zenon
<1>3. st[i][c] = "Compressed"
  BY <1>1 DEF Consistent, IInv, LadderShape, InState
<1>4. /\ st \in [Layers -> [Chunks -> ChunkStates]] /\ compLeft \in [Layers -> Int]
      /\ arenaTop \in [Layers -> Nat]
  BY Zenon DEF Consistent, IInv, TypeOK
<1>5. ASSUME NEW j \in Layers, NEW d \in Chunks
      PROVE  st'[j][d] = IF j = i /\ d = c THEN "Raw" ELSE st[j][d]
  BY <1>1, <1>4, Zenon
<1>6. CompressedIn(i)' = CompressedIn(i) \ {c} /\ c \in CompressedIn(i)
  BY <1>3, <1>5, Zenon DEF CompressedIn
<1>7. InState("Stored")' \subseteq InState("Stored")
  <2>1. "Raw" # "Stored" /\ \A p \in Pairs : p[1] \in Layers /\ p[2] \in Chunks
    BY DEF Pairs
  <2> QED
    BY <1>5, <2>1, Zenon DEF InState
<1>8. ASSUME NEW j \in Layers
      PROVE  /\ compLeft'[j] = Cardinality(CompressedIn(j)')
             /\ arenaTop'[j] >= CompressedBytes(j)'
             /\ j \in frees' => CompressedIn(j)' = {}
             /\ decompNum' = 0 => arenaTop'[j] = 0
  <2>1. /\ compLeft[j] = Cardinality(CompressedIn(j)) /\ arenaTop[j] >= CompressedBytes(j)
        /\ j \in frees => CompressedIn(j) = {}
        /\ decompNum = 0 => arenaTop[j] = 0
    BY <1>2, Zenon DEF DataInv, ArenaInv
  <2>2. CASE j = i
    <3>0. /\ IsFiniteSet(CompressedIn(j)) /\ c \in CompressedIn(j)
          /\ CompressedIn(j)' = CompressedIn(j) \ {c}
      BY <1>6, <2>2, CompressedFacts, Zenon
    <3>1. /\ Cardinality(CompressedIn(j)') = Cardinality(CompressedIn(j)) - 1
          /\ IsFiniteSet(CompressedIn(j)')
      BY <3>0, Zenon DEF SizeLaws, ElementLaw
    <3>2. PICK n \in Nat : n = Cardinality(CompressedIn(j)) /\ n # 0
      BY <1>6, <2>2, CompressedFacts, Zenon
    <3>3. CompressedBytes(j)' <= CompressedBytes(j) /\ CompressedBytes(j)' \in Int
      <4>1. (n - 1) * CompBytes <= n * CompBytes /\ (n - 1) * CompBytes \in Int
        <5>1. CompBytes \in Nat
          BY LadderAssumption, Zenon
        <5> QED
          BY <3>2, <5>1, ProductStep, Zenon
      <4> QED
        BY <3>1, <3>2, <4>1, Zenon DEF CompressedBytes
    <3>4. compLeft[j] = 1 => CompressedIn(j)' = {}
      <4>1. compLeft[j] = 1 => n - 1 = 0 /\ Cardinality(CompressedIn(j)') = n - 1
        <5>1. compLeft[j] = n /\ Cardinality(CompressedIn(j)') = n - 1
          BY <2>1, <3>1, <3>2, Zenon
        <5>2. n = 1 => n - 1 = 0
          OBVIOUS
        <5> QED
          BY <5>1, <5>2, Zenon
      <4> QED
        BY <3>1, <4>1, Zenon DEF SizeLaws, EmptyLaw
    <3>5. compLeft'[j] = compLeft[j] - 1 /\ arenaTop'[j] = arenaTop[j] /\ arenaTop[j] \in Nat
      BY <1>1, <1>4, <2>2, Zenon
    <3>6. CompressedBytes(j) \in Nat
      BY CompressedFacts, Zenon
    <3> QED
      <4>1. compLeft'[j] = Cardinality(CompressedIn(j)')
        BY <2>1, <3>1, <3>5, Zenon
      <4>2. arenaTop'[j] >= CompressedBytes(j)'
        BY <2>1, <3>3, <3>5, <3>6, OrderChain, Zenon
      <4> QED
        BY <1>1, <1>6, <2>1, <2>2, <3>4, <3>5, <4>1, <4>2, Zenon
  <2>3. CASE j # i
    <3>1. CompressedIn(j)' = CompressedIn(j) /\ CompressedBytes(j)' = CompressedBytes(j)
      <4>1. CompressedIn(j)' = CompressedIn(j)
        BY <1>5, <2>3, Zenon DEF CompressedIn
      <4> QED
        BY <4>1 DEF CompressedBytes
    <3>2. compLeft'[j] = compLeft[j] /\ (j \in frees' => j \in frees)
      BY <1>1, <1>4, <2>3, Zenon
    <3> QED
      BY <1>1, <2>1, <3>1, <3>2, Zenon
  <2> QED
    BY <2>2, <2>3, Zenon
<1> QED
  BY <1>1, <1>2, <1>7, <1>8, TaskData, Zenon

\* free_layer_arenas: nothing of the layer is compressed any more.
LEMMA FreeArenasData ==
    ASSUME SizeLaws, Consistent, DataInv, NEW i \in Layers, FreeArenas(i)
    PROVE  DataInv'
<1>1. /\ i \in frees /\ pc' = pc /\ arenaTop' = [arenaTop EXCEPT ![i] = 0] /\ frees' \subseteq frees
      /\ UNCHANGED <<bound, nChunks, allocated, pending, file, cycle, nComp, nStore, saved>>
      /\ UNCHANGED <<st, nextOff, offBytes, compLeft, decompNum>>
  BY Zenon DEF FreeArenas, planVars, kvVars, fileVars
<1>2. Restoring
  BY <1>1, TaskFacts, Zenon
<1>3. \A j \in Layers : CompressedIn(j)' = CompressedIn(j) /\ CompressedBytes(j)' = CompressedBytes(j)
  BY <1>1, Zenon DEF CompressedIn, CompressedBytes
<1>4. ASSUME NEW j \in Layers
      PROVE  /\ compLeft'[j] = Cardinality(CompressedIn(j)')
             /\ arenaTop'[j] >= CompressedBytes(j)'
             /\ j \in frees' => CompressedIn(j)' = {}
             /\ decompNum' = 0 => arenaTop'[j] = 0
  <2>1. /\ compLeft[j] = Cardinality(CompressedIn(j)) /\ arenaTop[j] >= CompressedBytes(j)
        /\ j \in frees => CompressedIn(j) = {}
        /\ decompNum = 0 => arenaTop[j] = 0
    BY <1>2, Zenon DEF DataInv, ArenaInv
  <2>2. arenaTop'[j] = IF j = i THEN 0 ELSE arenaTop[j]
    <3>1. arenaTop \in [Layers -> Nat]
      BY Zenon DEF Consistent, IInv, TypeOK
    <3> QED
      BY <1>1, <3>1
  <2>3. j = i => CompressedBytes(j) = 0
    BY <1>1, <2>1, CompressedFacts, Zenon
  <2> QED
    BY <1>1, <1>3, <2>1, <2>2, <2>3
<1> QED
  BY <1>1, <1>2, <1>4, TaskData, Zenon DEF InState

\* finish_swapin_cycle: everything is back, so the arenas are empty, the saved
\* bytes are zero and no slot of a store file is needed.
LEMMA FinishData == ASSUME SizeLaws, Consistent, DataInv, Finish PROVE DataInv'
<1>1. /\ pc = "finish" /\ Restoring /\ pc' = "idle" /\ ~Restoring' /\ fds' = {}
      /\ reads = {} /\ decomps = {}
      /\ IF decompNum <= 0
         THEN UNCHANGED <<arenaTop, nComp, saved>>
         ELSE /\ arenaTop' = [i \in Layers |-> Cardinality(Compressed(i)) * CompBytes]
              /\ nComp' = Max2(0, nComp - decompNum)
              /\ saved' = IF decompNum >= nComp THEN 0
                          ELSE (saved * (nComp - decompNum)) \div nComp
      /\ UNCHANGED <<st, nextOff, offBytes, nChunks, allocated, pending>>
  BY Zenon DEF Finish, Restoring, planVars
<1>2. decompNum = nComp /\ CompTaken = {} /\ StoreTaken = {}
  BY <1>1, Zenon DEF Consistent, IInv, RestoreInv
<1>3. InState("Compressed") = {} /\ InState("Stored") = {}
  BY <1>1, <1>2, Zenon DEF Consistent, IInv, LadderShape
<1>4. nComp \in Nat /\ saved \in Int
  BY Zenon DEF Consistent, IInv, TypeOK
<1>5. \A i \in Layers : CompressedBytes(i)' = 0 /\ Compressed(i) = {}
  <2>1. \A i \in Layers : CompressedIn(i) = {} /\ CompressedBytes(i) = 0
    BY <1>3, NothingCompressed
  <2>2. \A i \in Layers : CompressedBytes(i)' = CompressedBytes(i) /\ Compressed(i) \subseteq CompressedIn(i)
    BY <1>1, Zenon DEF CompressedIn, CompressedBytes, Compressed
  <2> QED
    BY <2>1, <2>2
<1>6. \A i \in Layers : arenaTop'[i] = 0
  <2>1. CASE decompNum <= 0
    BY <1>1, <1>2, <1>4, <2>1 DEF DataInv, ArenaInv
  <2>2. CASE ~(decompNum <= 0)
    <3>1. Cardinality({}) * CompBytes = 0
      BY LadderAssumption DEF SizeLaws, EmptyLaw
    <3> QED
      BY <1>1, <1>5, <2>2, <3>1, Zenon
  <2> QED
    BY <2>1, <2>2
<1>7. nComp' = 0 /\ saved' = 0
  <2>1. CASE decompNum <= 0
    <3>1. nComp = 0 /\ nComp' = nComp /\ saved' = saved
      BY <1>1, <1>2, <1>4, <2>1
    <3>2. saved = nComp * (RawBytes - CompBytes - MetaBytes)
      BY Zenon DEF DataInv, BookInv
    <3>3. 0 * (RawBytes - CompBytes - MetaBytes) = 0
      BY LadderAssumption
    <3> QED
      BY <3>1, <3>2, <3>3
  <2>2. CASE ~(decompNum <= 0)
    BY <1>1, <1>2, <1>4, <2>2 DEF Max2
  <2> QED
    BY <2>1, <2>2
<1>8. ArenaInv'
  <2>1. ~Restoring' /\ nextOff = NumLayers - 1 /\ nextOff' = nextOff /\ offBytes' = 0
    BY <1>1, OffloadFacts, Zenon
  <2>2. \A i \in Layers : ~(i > nextOff)
    BY <2>1, OffloadFacts, Zenon
  <2>3. ~(nextOff < NumLayers - 1)
    <3>1. nextOff \in Int
      BY OffloadFacts, Zenon
    <3> QED
      BY <2>1, <3>1
  <2> QED
    BY <1>5, <1>6, <2>1, <2>2, <2>3, Zenon DEF ArenaInv
<1>9. StoredSlotKept'
  <2>1. InState("Stored")' = {}
    BY <1>1, <1>3, Zenon DEF InState
  <2> QED
    BY <2>1, Zenon DEF StoredSlotKept
<1>10. GrowthInv'
  BY <1>1, Zenon DEF DataInv, GrowthInv
<1>11. BookInv'
  BY <1>1, <1>7, LadderAssumption DEF BookInv
<1> QED
  BY <1>8, <1>9, <1>10, <1>11 DEF DataInv

\* register_grown_chunks on a clean ladder: no layer holds compressed bytes, none
\* is offloaded, and no slot of a store file is in use.
LEMMA RegisterData ==
    ASSUME SizeLaws, Consistent, DataInv, NEW n \in 1 .. MaxChunks, n > nChunks, CleanLadder,
           RegisterChunks(n), coreChunks' = n, Restoring' = Restoring,
           UNCHANGED <<arenaVars, compLeft, decompNum, frees>>
    PROVE  StoredSlotKept' /\ ArenaInv'
<1>1. nComp = 0 /\ nStore = 0 /\ nComp' = nComp /\ UNCHANGED <<arenaTop, offUsed, nextOff, offBytes>>
  BY RegisterTerms, Zenon DEF CleanLadder, arenaVars
<1>2. InState("Compressed") = {} /\ InState("Stored") = {}
  BY <1>1, CleanFacts, Zenon
<1>3. /\ InState("Compressed")' = {} /\ InState("Stored")' = {}
  BY <1>2, RegisterStep, Zenon
<1>4. \A i \in Layers : CompressedIn(i)' = CompressedIn(i) /\ CompressedBytes(i)' = CompressedBytes(i)
  <2>1. \A i \in Layers : CompressedIn(i)' = {}
    <3> SUFFICES ASSUME NEW i \in Layers, NEW c \in Chunks, st'[i][c] = "Compressed" PROVE FALSE
      BY Zenon DEF CompressedIn
    <3>1. <<i, c>> \in InState("Compressed")'
      BY Zenon DEF InState, Pairs
    <3> QED
      BY <1>3, <3>1, Zenon
  <2> QED
    BY <1>2, <2>1, NothingCompressed, Zenon DEF CompressedBytes
<1>5. ~AllSwappedOut
  <2>1. coreChunks \in 1 .. MaxChunks
    BY Zenon DEF Consistent, IInv, TypeOK
  <2>2. coreChunks * NumLayers # 0
    BY <2>1, LadderAssumption
  <2> QED
    BY <1>1, <2>2 DEF AllSwappedOut, Processed, TotalChunks
<1>6. ~(nextOff < NumLayers - 1)
  BY <1>5, Zenon DEF DataInv, ArenaInv
<1>7. ArenaInv'
  BY <1>1, <1>4, <1>6, Zenon DEF DataInv, ArenaInv
<1> QED
  BY <1>3, <1>7, Zenon DEF StoredSlotKept

\* mz_grow_chunks: registered at once, or parked with what was parked before.
LEMMA GrowData ==
    ASSUME SizeLaws, Consistent, DataInv, NEW n \in 1 .. MaxChunks, Grow(n)
    PROVE  DataInv'
<1>1. /\ pc' = pc /\ (pc = "idle" \/ Restoring) /\ n > allocated /\ allocated' = n
      /\ UNCHANGED <<fileVars, arenaVars, weightVars, taskVars>>
  BY Zenon DEF Grow, Decoding, Restoring
<1>2. /\ nChunks \in Nat /\ allocated \in Nat /\ pending \in Nat /\ n \in Nat
      /\ nChunks <= allocated /\ pending <= allocated
  <2>1. nChunks \in 1 .. MaxChunks /\ allocated \in 1 .. MaxChunks /\ pending \in 0 .. MaxChunks
    BY Zenon DEF Consistent, IInv, TypeOK
  <2> QED
    BY <2>1, LadderAssumption DEF DataInv, GrowthInv
<1>3. n > nChunks /\ ~(n <= nChunks) /\ Max2(pending, n) = n
  BY <1>1, <1>2 DEF Max2
<1>4. UNCHANGED <<fds, file, cycle, nUnload, compLeft, decompNum, frees>> /\ Restoring' = Restoring
  BY <1>1, Zenon DEF fileVars, weightVars, taskVars, Restoring
<1>5. CASE CleanLadder
  <2>1. RegisterChunks(n) /\ coreChunks' = n /\ pending' = pending
    BY <1>3, <1>5, Zenon DEF Grow
  <2>2. nChunks' = n /\ UNCHANGED <<nComp, nStore, saved>>
    BY <2>1, RegisterTerms, Zenon
  <2>3. StoredSlotKept' /\ ArenaInv'
    BY <1>1, <1>3, <1>4, <1>5, <2>1, RegisterData, Zenon
  <2>4. GrowthInv'
    BY <1>1, <1>2, <2>1, <2>2 DEF GrowthInv
  <2>5. BookInv'
    BY <1>1, <1>4, <2>2, Zenon DEF DataInv, BookInv
  <2> QED
    BY <2>3, <2>4, <2>5 DEF DataInv
<1>6. CASE ~CleanLadder
  <2>1. pending' = n /\ UNCHANGED <<nChunks, coreChunks, bound, kvVars>>
    BY <1>3, <1>6, Zenon DEF Grow
  <2>2. UNCHANGED <<st, nComp, nStore, saved, arenaTop, offUsed, nextOff, offBytes>>
    BY <1>1, <2>1, Zenon DEF kvVars, arenaVars
  <2>3. StoredSlotKept'
    BY <1>4, <2>1, <2>2, FreshKept, Zenon DEF DataInv, InState
  <2>4. ArenaInv'
    BY <1>4, <2>1, <2>2, Zenon DEF DataInv, ArenaInv, CompressedIn, CompressedBytes, AllSwappedOut,
                                   Processed, TotalChunks
  <2>5. GrowthInv'
    BY <1>1, <1>2, <1>4, <2>1 DEF GrowthInv, Restoring
  <2>6. BookInv'
    BY <1>1, <1>4, <2>2, Zenon DEF DataInv, BookInv
  <2> QED
    BY <2>3, <2>4, <2>5, <2>6 DEF DataInv
<1> QED
  BY <1>5, <1>6

\* A swapout starts: on a clean ladder it takes in all that was parked.
LEMMA SwapoutStartData ==
    ASSUME SizeLaws, Consistent, DataInv, NEW t \in Targets, SwapoutStart(t)
    PROVE  DataInv'
<1>1. /\ pc = "idle" /\ pc' \in {"idle", "p1"} /\ ~Restoring /\ ~Restoring'
      /\ coreChunks' = nChunks' /\ ApplyPendingGrowth /\ allocated' = allocated
      /\ UNCHANGED <<fileVars, arenaVars, weightVars, taskVars>>
  BY Zenon DEF SwapoutStart, Restoring
<1>2. /\ nChunks \in Nat /\ allocated \in Nat /\ pending \in Nat /\ pending <= MaxChunks
      /\ nChunks <= allocated /\ pending <= allocated
      /\ nChunks < allocated => pending = allocated
  <2>1. nChunks \in 1 .. MaxChunks /\ allocated \in 1 .. MaxChunks /\ pending \in 0 .. MaxChunks
    BY Zenon DEF Consistent, IInv, TypeOK
  <2> QED
    BY <2>1, LadderAssumption DEF DataInv, GrowthInv
<1>3. UNCHANGED <<fds, file, cycle, nUnload, compLeft, decompNum, frees>>
  BY <1>1, Zenon DEF fileVars, weightVars, taskVars
<1>4. CASE pending > nChunks /\ CleanLadder
  <2>1. pending' = 0 /\ RegisterChunks(pending)
    BY <1>1, <1>4, Zenon DEF ApplyPendingGrowth
  <2>2. nChunks' = pending /\ UNCHANGED <<nComp, nStore, saved>> /\ pending = allocated
    BY <1>2, <1>4, <2>1, RegisterTerms
  <2>3. StoredSlotKept' /\ ArenaInv'
    <3>1. \E m \in 1 .. MaxChunks : m = pending
      BY <1>2, <1>4, LadderAssumption
    <3>2. PICK m \in 1 .. MaxChunks : m = pending
      BY <3>1
    <3>3. m > nChunks /\ CleanLadder /\ RegisterChunks(m) /\ coreChunks' = m
      BY <1>1, <1>4, <2>1, <2>2, <3>2, Zenon
    <3>4. Restoring' = Restoring
      BY <1>1 DEF Restoring
    <3> QED
      BY <1>1, <1>3, <3>3, <3>4, RegisterData, Zenon
  <2>4. GrowthInv'
    BY <1>1, <1>2, <2>1, <2>2 DEF GrowthInv
  <2>5. BookInv'
    BY <1>1, <1>3, <2>2, Zenon DEF DataInv, BookInv
  <2> QED
    BY <2>3, <2>4, <2>5 DEF DataInv
<1>5. CASE ~(pending > nChunks /\ CleanLadder)
  <2>1. /\ UNCHANGED <<nChunks, bound, kvVars>>
        /\ pending' = IF pending > nChunks THEN pending ELSE 0
    BY <1>1, <1>5, Zenon DEF ApplyPendingGrowth
  <2>2. UNCHANGED <<st, coreChunks, nComp, nStore, saved, arenaTop, offUsed, nextOff, offBytes>>
    BY <1>1, <2>1, Zenon DEF kvVars, arenaVars, Consistent, IInv, PlanInv
  <2>3. StoredSlotKept'
    BY <1>3, <2>1, <2>2, FreshKept, Zenon DEF DataInv, InState
  <2>4. ArenaInv'
    BY <1>1, <1>3, <2>1, <2>2, Zenon DEF DataInv, ArenaInv, CompressedIn, CompressedBytes, AllSwappedOut,
                                   Processed, TotalChunks
  <2>5. GrowthInv'
    <3>1. Processed' = 0 => CleanLadder
      <4>1. nComp \in Nat /\ nStore \in Nat
        BY Zenon DEF Consistent, IInv, TypeOK
      <4> QED
        BY <2>2, <4>1 DEF Processed, CleanLadder, DataInv, ArenaInv
    <3> QED
      BY <1>1, <1>2, <1>5, <2>1, <3>1 DEF GrowthInv
  <2>6. BookInv'
    BY <1>1, <1>3, <2>2, Zenon DEF DataInv, BookInv
  <2> QED
    BY <2>3, <2>4, <2>5, <2>6 DEF DataInv
<1> QED
  BY <1>4, <1>5

\* Every step of the ladder keeps the data where the bookkeeping says it is.
LEMMA DataStep == ASSUME SizeLaws, Consistent, DataInv, [Next]_vars PROVE DataInv'
<1>1. CASE Swapout \/ StoreOpenFails \/ Phase3Fails
  BY <1>1, CompressOneData, StoreOneData, Phase3Data, QuietSwapout, QuietStep DEF Swapout, LoopStep
<1>2. CASE Swapin \/ AppUnload \/ UNCHANGED vars
  BY <1>2, FinishData, QuietOther, QuietStep DEF Swapin
<1>3. CASE Worker
  BY <1>3, ReadChunkData, DecompressChunkData, FreeArenasData, QuietOther, QuietStep DEF Worker
<1> QED
  BY <1>1, <1>2, <1>3, SwapoutStartData, GrowData, SwapinStartData DEF Next

\* The constructor leaves every chunk raw and every arena empty.
LEMMA DataInit == ASSUME SizeLaws, Init PROVE DataInv
<1>1. Consistent
  BY InitStep
<1>2. /\ pc = "idle" /\ ~Restoring /\ nComp = 0 /\ saved = 0 /\ fds = {} /\ nextOff = NumLayers - 1
      /\ offBytes = 0 /\ arenaTop = Zero /\ nChunks = InitChunks /\ allocated = InitChunks /\ pending = 0
      /\ nStore = 0
  BY Zenon DEF Init, Restoring
<1>3. InState("Compressed") = {} /\ InState("Stored") = {}
  BY <1>1, <1>2, CleanFacts, Zenon
<1>4. ArenaInv
  <2>1. \A i \in Layers : arenaTop[i] = CompressedBytes(i) /\ ~(i > nextOff)
    <3>1. \A i \in Layers : CompressedBytes(i) = 0
      BY <1>1, <1>3, NothingCompressed
    <3>2. \A i \in Layers : arenaTop[i] = 0 /\ ~(i > nextOff)
      BY <1>2, LadderAssumption DEF Zero, Layers
    <3> QED
      BY <3>1, <3>2
  <2> QED
    BY <1>2, <2>1, LadderAssumption DEF ArenaInv
<1>5. StoredSlotKept
  BY <1>3, Zenon DEF StoredSlotKept
<1>6. GrowthInv /\ BookInv
  BY <1>2, LadderAssumption DEF GrowthInv, BookInv
<1> QED
  BY <1>4, <1>5, <1>6 DEF DataInv

-----------------------------------------------------------------------------
(* Every step preserves the invariant.                                     *)

LEMMA SwapoutStep == ASSUME SizeLaws, Consistent, Swapout PROVE Consistent'
  BY Phase1Step, CompressSkipStep, CompressOneStep, CompressDoneStep, StoreSkipStep,
     StoreOneStep, Phase1CheckStep, Phase2Step, Phase2UnloadStep, Phase2RefusedStep,
     Phase3Step, SwapoutEndStep DEF Swapout, LoopStep

LEMMA SwapinStep == ASSUME SizeLaws, Consistent, Swapin PROVE Consistent'
<1>1. CASE LoadDone
  BY <1>1, LoopEnds, Zenon DEF LoadDone, Restoring
<1>2. CASE DecompDone
  BY <1>2, LoopEnds, Zenon DEF DecompDone, Restoring
<1> QED
  BY <1>1, <1>2, LoadNextStep, DecompNextStep, ReloadWeightsStep, FinishStep DEF Swapin

LEMMA WorkerStep == ASSUME SizeLaws, Consistent, Worker PROVE Consistent'
  BY ReadChunkStep, DecompressChunkStep, FreeArenasStep, ReadWeightsStep DEF Worker

LEMMA NextStep == ASSUME SizeLaws, Consistent, [Next]_vars PROVE Consistent'
<1>1. CASE \E t \in Targets : SwapoutStart(t)
  BY <1>1, SwapoutStartStep
<1>2. CASE \E n \in 1 .. MaxChunks : Grow(n)
  BY <1>2, GrowStep
<1>3. CASE UNCHANGED vars
  <2>1. UNCHANGED <<pc, coreChunks, nChunks, bound, loopVars, kvVars, weightVars, taskVars>>
    BY <1>3, Zenon DEF vars, planVars
  <2>2. TypeOK'
    BY <1>3, Zenon DEF Consistent, IInv, TypeOK, vars, planVars, loopVars, kvVars, fileVars, arenaVars,
                weightVars, taskVars
  <2> QED
    BY <2>1, <2>2, FrameStep
<1> QED
  BY <1>1, <1>2, <1>3, SwapoutStep, StoreOpenFailsStep, Phase3FailsStep, AppUnloadStep,
     SwapinStartStep, SwapinStep, WorkerStep, Zenon DEF Next

-----------------------------------------------------------------------------
(* The theorems.  The laws of SizeLaws are theorems of the library.        *)

INSTANCE FiniteSetTheorems

\* The sizes of finite sets obey the laws the proofs rest on.
LEMMA SizeLawsHold == SizeLaws
<1>1. IntervalLaw
  BY FS_Interval DEF IntervalLaw
<1>2. NumberLaw
  BY FS_CardinalityType, Zenon DEF NumberLaw
<1>3. EmptyLaw
  BY FS_EmptySet, Zenon DEF EmptyLaw
<1>4. ElementLaw
  BY FS_AddElement, FS_RemoveElement, Zenon DEF ElementLaw
<1>5. SubsetLaw
  BY FS_Subset, Zenon DEF SubsetLaw
<1>6. UnionLaw
  BY FS_Union, Zenon DEF UnionLaw
<1>7. ProductLaw
  BY FS_Product, Zenon DEF ProductLaw
<1>8. MappingLaw
  <2> SUFFICES ASSUME NEW S, NEW T, NEW f \in [S -> T], OneToOne(f, S)
               PROVE  /\ IsFiniteSet(T) => IsFiniteSet(S) /\ Cardinality(S) <= Cardinality(T)
                      /\ IsFiniteSet(S) /\ (\A y \in T : \E x \in S : f[x] = y)
                         => Cardinality(T) = Cardinality(S)
    BY Zenon DEF MappingLaw
  <2>1. f \in Injection(S, T)
    BY DEF OneToOne, Injection, IsInjective
  <2>2. ASSUME IsFiniteSet(S), \A y \in T : \E x \in S : f[x] = y
        PROVE  Cardinality(T) = Cardinality(S)
    <3>1. f \in Bijection(S, T)
      BY <2>1, <2>2, Zenon DEF Bijection, Surjection
    <3> QED
      BY <2>2, <3>1, FS_Bijection, Zenon DEF ExistsBijection
  <2>3. IsFiniteSet(T) => IsFiniteSet(S) /\ Cardinality(S) <= Cardinality(T)
    BY <2>1, FS_Injection, Zenon
  <2> QED
    BY <2>2, <2>3, Zenon
<1> QED
  BY <1>1, <1>2, <1>3, <1>4, <1>5, <1>6, <1>7, <1>8 DEF SizeLaws

\* For every number of layers and chunks, every plan and every sequence of
\* swapouts, failures, growths, swap-ins and worker steps, the cursors, the
\* counters and the chunk states of mzcache_kv_state stay in step.
THEOREM LadderInvariant == Spec => []IInv
<1>1. Init => IInv
  BY InitStep, SizeLawsHold DEF Consistent
<1>2. IInv /\ [Next]_vars => IInv'
  BY NextStep, SizeLawsHold DEF Consistent
<1> QED
  BY <1>1, <1>2, PTL DEF Spec

\* Type correctness of the swap bookkeeping.
THEOREM LadderTypes == Spec => []TypeOK
<1>1. IInv => TypeOK
  BY DEF IInv
<1> QED
  BY <1>1, LadderInvariant, PTL

\* The cursors say exactly which chunks are compressed and which are stored.
THEOREM LadderShapeHolds == Spec => []LadderShape
<1>1. IInv => LadderShape
  BY DEF IInv
<1> QED
  BY <1>1, LadderInvariant, PTL

\* No cursor of mzcache_compress_chunks, mzcache_store_chunks or the enqueue
\* loops leaves the layers.
THEOREM CursorsStay == Spec => []CursorsOnLayers
<1>1. IInv => CursorsOnLayers
  BY CursorFacts, SizeLawsHold, Zenon DEF IInv, CursorInv, CursorsOnLayers
<1> QED
  BY <1>1, LadderInvariant, PTL

\* While a swap-in runs, the layer sync of each layer counts exactly the
\* chunks and weights that layer still misses.
THEOREM SyncExact == Spec => []SyncCountsMissing
<1>1. IInv => SyncCountsMissing
  BY DEF IInv
<1> QED
  BY <1>1, LadderInvariant, PTL

\* Phase 2 unloads weights only when phase 1 has stored all it may store.
THEOREM StoresFirst == Spec => []StoresBeforeUnload
<1>1. IInv => StoresBeforeUnload
  BY DEF IInv, LoopInv, StoresBeforeUnload
<1> QED
  BY <1>1, LadderInvariant, PTL

\* A growth during a swap-in changes the chunk count and the plan only when
\* the enqueue loops and the workers have nothing to restore.
THEOREM GrowthKeepsOff == Spec => GrowthSparesWalk
<1> DEFINE Off == /\ pc = "load" => todoL = 0
                  /\ reads = {} /\ StoreTaken = {}
                  /\ CompTaken = {} /\ decomps = {}
                  /\ loadNum = 0 /\ decompNum = 0
<1>1. ASSUME IInv, [Next]_vars, Restoring, nChunks' # nChunks
      PROVE  Off
  <2>1. PICK n \in 1 .. MaxChunks : Grow(n)
    <3>1. ~Swapout /\ ~StoreOpenFails /\ ~Phase3Fails /\ ~AppUnload /\ ~SwapinStart
      BY <1>1, Zenon DEF Restoring, Swapout, LoopStep, Phase1, CompressSkip, CompressOne, CompressDone,
                  StoreSkip, StoreOne, Phase1Check, Phase2, Phase2Unload, Phase2Refused,
                  Phase3, SwapoutEnd, StoreOpenFails, Phase3Fails, AppUnload, SwapinStart
    <3>2. ~\E t \in Targets : SwapoutStart(t)
      BY <1>1, Zenon DEF Restoring, SwapoutStart
    <3>3. ~Swapin
      BY <1>1, Zenon DEF Swapin, LoadNext, LoadDone, DecompNext, DecompDone, ReloadWeights,
                  Finish, planVars
    <3>4. ~Worker
      BY <1>1, Zenon DEF Worker, ReadChunk, DecompressChunk, FreeArenas, ReadWeights, planVars
    <3>5. ~UNCHANGED vars
      BY <1>1, Zenon DEF vars, planVars
    <3> QED
      BY <1>1, <3>1, <3>2, <3>3, <3>4, <3>5 DEF Next
  <2>2. CleanLadder
    BY <1>1, <2>1, Zenon DEF Grow, CleanLadder
  <2>3. nComp = 0 /\ nStore = 0
    BY <2>2 DEF CleanLadder
  <2>4. /\ CompTaken = {} /\ decomps = {} /\ StoreTaken = {} /\ reads = {}
        /\ loadNum = 0 /\ decompNum = 0
    BY <1>1, <2>3, Zenon DEF IInv, RestoreInv
  <2>5. pc = "load" => todoL = 0
    <3>1. pc = "load" => todoL = Cardinality(StoreTaken)
      BY <1>1, Zenon DEF IInv, RestoreInv
    <3> QED
      BY <2>4, <3>1, SizeLawsHold, Zenon DEF SizeLaws, EmptyLaw
  <2> QED
    BY <2>4, <2>5
<1>2. IInv /\ [Next]_vars => [(Restoring /\ nChunks' # nChunks) => Off]_vars
  BY <1>1, Zenon
<1> QED
  BY <1>2, LadderInvariant, PTL DEF Spec, GrowthSparesWalk

\* A count of padded bytes is never negative (round_up_4k).
LEMMA PadNat == ASSUME NEW b \in Nat PROVE Pad(b) \in Nat
<1>1. PICK p \in Nat \ {0} : p = PageBytes
  BY LadderAssumption, Zenon
<1>2. PICK q \in Nat : q = (b + p - 1) \div p
  BY <1>1
<1>3. q * p \in Nat
  BY <1>1, <1>2
<1> QED
  BY <1>1, <1>2, <1>3 DEF Pad

\* A running swapout never lowers current_freed: whatever its loops do, and
\* whichever file fails, the share that its target is compared with grows.
THEOREM SwapoutOnlyFrees == Spec => SwapoutReleases
<1>1. ASSUME IInv, [Next]_vars, ~Restoring, pc # "idle"
      PROVE  Freed' >= Freed
  <2>1. /\ saved \in Int /\ offBytes \in Int /\ nStore \in Nat /\ nUnload \in Nat
        /\ RawBytes \in Nat /\ LayerBytes \in Nat
        /\ RawBytes - CompBytes - MetaBytes \in Nat
    <3>1. saved \in Int /\ offBytes \in Int /\ nStore \in Nat /\ nUnload \in 0 .. NumLayers
      BY <1>1, Zenon DEF IInv, TypeOK
    <3> QED
      BY <3>1, LadderAssumption
  <2>2. ASSUME UNCHANGED <<saved, offBytes, nStore, nUnload>> PROVE Freed' >= Freed
    BY <2>1, <2>2 DEF Freed
  <2>3. CASE CompressOne
    <3>1. /\ saved' = saved + (RawBytes - CompBytes - MetaBytes)
          /\ UNCHANGED <<offBytes, nStore, nUnload>>
      BY <2>3, Zenon DEF CompressOne, SavedWithOne, weightVars
    <3> QED
      BY <2>1, <3>1 DEF Freed
  <2>4. CASE StoreOne
    <3>1. nStore' = nStore + 1 /\ UNCHANGED <<saved, offBytes, nUnload>>
      BY <2>4, Zenon DEF StoreOne, arenaVars, weightVars
    <3>2. nStore' * RawBytes = nStore * RawBytes + RawBytes
      BY <2>1, <3>1
    <3> QED
      BY <2>1, <3>1, <3>2 DEF Freed
  <2>5. CASE Phase2Unload
    <3>1. nUnload' = nUnload + 1 /\ UNCHANGED <<saved, offBytes, nStore>>
      BY <2>5, Zenon DEF Phase2Unload, UnloadOne, arenaVars, kvVars
    <3>2. nUnload' * LayerBytes = nUnload * LayerBytes + LayerBytes
      BY <2>1, <3>1
    <3> QED
      BY <2>1, <3>1, <3>2 DEF Freed
  <2>6. CASE Phase3
    <3>1. /\ nextOff >= 0 /\ offBytes' = offBytes + Pad(arenaTop[nextOff])
          /\ UNCHANGED <<saved, nStore, nUnload>>
      BY <2>6, Zenon DEF Phase3, kvVars, weightVars
    <3>2. arenaTop[nextOff] \in Nat
      <4>1. arenaTop \in [Layers -> Nat] /\ nextOff \in -1 .. NumLayers - 1
        BY <1>1, Zenon DEF IInv, TypeOK
      <4>2. nextOff \in Layers
        BY <3>1, <4>1, LadderAssumption DEF Layers
      <4> QED
        BY <4>1, <4>2, Zenon
    <3>3. PICK b \in Nat : offBytes' = offBytes + b
      BY <3>1, <3>2, PadNat
    <3> QED
      BY <2>1, <3>1, <3>3 DEF Freed
  <2>7. CASE Phase1 \/ CompressSkip \/ CompressDone \/ StoreSkip \/ Phase1Check
    BY <2>2, <2>7, Zenon DEF Phase1, CompressSkip, CompressDone, StoreSkip, Phase1Check, kvVars,
                      arenaVars, weightVars
  <2>8. CASE \/ Phase2 \/ Phase2Refused \/ SwapoutEnd \/ StoreOpenFails \/ Phase3Fails
             \/ UNCHANGED vars
    BY <2>2, <2>8, Zenon DEF Phase2, Phase2Refused, SwapoutEnd, StoreOpenFails, Phase3Fails, vars,
                      kvVars, arenaVars, weightVars
  <2>9. ~(\E t \in Targets : SwapoutStart(t)) /\ ~AppUnload /\ ~SwapinStart
    BY <1>1, Zenon DEF SwapoutStart, AppUnload, SwapinStart
  <2>10. ~(\E n \in 1 .. MaxChunks : Grow(n))
    BY <1>1, Zenon DEF Grow, Decoding, Restoring
  <2>11. ~Swapin
    BY <1>1, Zenon DEF Swapin, LoadNext, LoadDone, DecompNext, DecompDone, ReloadWeights,
                Finish, Restoring
  <2>12. ~Worker
    <3>1. reads = {} /\ decomps = {} /\ wreads = {} /\ frees = {}
      BY <1>1, Zenon DEF IInv, RestInv
    <3> QED
      BY <3>1, Zenon DEF Worker, ReadChunk, DecompressChunk, FreeArenas, ReadWeights
  <2>13. Swapout \/ StoreOpenFails \/ Phase3Fails \/ UNCHANGED vars
    BY <1>1, <2>9, <2>10, <2>11, <2>12, Zenon DEF Next
  <2> QED
    BY <2>3, <2>4, <2>5, <2>6, <2>7, <2>8, <2>13, Zenon DEF Swapout, LoopStep
<1>2. IInv /\ [Next]_vars => [(~Restoring /\ pc # "idle") => Freed' >= Freed]_vars
  BY <1>1
<1> QED
  BY <1>2, LadderInvariant, PTL DEF Spec, SwapoutReleases

-----------------------------------------------------------------------------
(* The data behind the bookkeeping.                                        *)

\* LadderInv: besides the bookkeeping (IInv), the bytes it stands for are there:
\* a stored chunk's slot was last written with it, the compressed bytes are in the
\* layer's arena or in the swap file, all growth planned or parked.
THEOREM LadderDataInvariant == Spec => []LadderInv
<1>1. Init => LadderInv
  BY InitStep, DataInit, SizeLawsHold DEF Consistent, LadderInv
<1>2. LadderInv /\ [Next]_vars => LadderInv'
  BY NextStep, DataStep, SizeLawsHold DEF Consistent, LadderInv
<1> QED
  BY <1>1, <1>2, PTL DEF Spec

\* StoredSlotKept: the last write to a stored chunk's slot is the one mzcache_store_chunks
\* made for that very chunk in this cycle.  kv_read_worker finds the chunk there,
\* unless that pwrite failed, which without I/O faults it does not.
THEOREM StoredStaysOwn == Spec => []StoredSlotKept
<1>1. LadderInv => StoredSlotKept
  BY DEF LadderInv, DataInv
<1> QED
  BY <1>1, LadderDataInvariant, PTL

\* CompressedDataHeld: the compressed bytes of a layer are in its arena, or, once
\* mzcache_offload_arenas took the layer, in the swap file, never in neither.
THEOREM CompressedStaysHeld == Spec => []CompressedDataHeld
<1>1. ASSUME LadderInv PROVE CompressedDataHeld
  <2>1. SizeLaws /\ Consistent /\ DataInv
    BY <1>1, SizeLawsHold DEF LadderInv, Consistent
  <2> SUFFICES ASSUME NEW i \in Layers
               PROVE  IF i > nextOff THEN offUsed[i] = CompressedBytes(i)
                      ELSE arenaTop[i] >= CompressedBytes(i)
    BY Zenon DEF CompressedDataHeld, CompressedBytes, CompressedIn
  <2>2. CompressedBytes(i) \in Nat
    BY <2>1, CompressedFacts, Zenon
  <2> QED
    <3>1. CompressedBytes(i) >= CompressedBytes(i)
      BY <2>2
    <3>2. CASE Restoring
      BY <2>1, <3>2, OffloadFacts, Zenon DEF DataInv, ArenaInv
    <3>3. CASE ~Restoring
      BY <2>1, <3>1, <3>3, Zenon DEF DataInv, ArenaInv
    <3> QED
      BY <3>2, <3>3
<1> QED
  BY <1>1, LadderDataInvariant, PTL

\* GrowthCovered: a swapout that starts on a clean ladder plans for every chunk the
\* cache has materialised, and growth the plan does not cover stays parked, all of
\* it (register_grown_chunks, apply_pending_growth).
THEOREM GrowthIsCovered == Spec => []GrowthCovered
<1>1. LadderInv => GrowthCovered
  BY Zenon DEF LadderInv, DataInv, GrowthInv, GrowthCovered, IInv, PlanInv, Restoring
<1> QED
  BY <1>1, LadderDataInvariant, PTL

\* CountersExact: between two calls the counters, the saved bytes and the arenas
\* agree with the states of the chunks and the weights, and no file is open.
THEOREM CountersStayExact == Spec => []CountersExact
<1>1. ASSUME LadderInv, pc = "idle"
      PROVE  /\ nComp = Cardinality(InState("Compressed"))
             /\ nStore = Cardinality(InState("Stored"))
             /\ saved = nComp * (RawBytes - CompBytes - MetaBytes)
             /\ nUnload = Cardinality(Layers \ weights)
             /\ fds = {}
             /\ nComp = 0 => arenaTop = Zero /\ offBytes = 0
  <2>1. SizeLaws /\ Consistent /\ DataInv /\ ~Restoring
    BY <1>1, SizeLawsHold DEF LadderInv, Consistent, Restoring
  <2>2. nUnload = Cardinality(Layers \ weights)
    <3>1. nUnload \in 0 .. NumLayers /\ wL \in -1 .. NumLayers - 1
      BY <1>1, Zenon DEF LadderInv, IInv, TypeOK
    <3>2. weights = 0 .. wL /\ wL = NumLayers - 1 - nUnload
      BY <1>1, Zenon DEF LadderInv, IInv, UnloadInv
    <3>3. Layers \ weights = wL + 1 .. NumLayers - 1
      BY <3>1, <3>2, LadderAssumption DEF Layers
    <3>4. /\ wL + 1 \in Int /\ NumLayers - 1 \in Int
          /\ (IF wL + 1 > NumLayers - 1 THEN 0 ELSE (NumLayers - 1) - (wL + 1) + 1) = nUnload
      BY <3>1, <3>2, LadderAssumption
    <3>5. Cardinality(wL + 1 .. NumLayers - 1)
            = IF wL + 1 > NumLayers - 1 THEN 0 ELSE (NumLayers - 1) - (wL + 1) + 1
      BY <2>1, <3>4, Zenon DEF SizeLaws, IntervalLaw
    <3> QED
      BY <3>3, <3>4, <3>5, Zenon
  <2>3. ASSUME nComp = 0 PROVE arenaTop = Zero /\ offBytes = 0
    <3>1. \A i \in Layers : CompressedBytes(i) = 0
      BY <2>1, <2>3, CounterBounds, NothingCompressed, Zenon
    <3>2. \A i \in Layers : arenaTop[i] = 0
      BY <2>1, <3>1, Zenon DEF DataInv, ArenaInv
    <3>3. arenaTop \in [Layers -> Nat]
      BY <2>1, Zenon DEF Consistent, IInv, TypeOK
    <3> QED
      BY <2>1, <2>3, <3>2, <3>3, Zenon DEF DataInv, ArenaInv, Zero
  <2>4. /\ nComp = Cardinality(InState("Compressed")) /\ nStore = Cardinality(InState("Stored"))
    BY <2>1, RestFacts, Zenon
  <2> QED
    BY <1>1, <2>1, <2>2, <2>3, <2>4, Zenon DEF DataInv, BookInv
<1>2. LadderInv => CountersExact
  BY <1>1, Zenon DEF CountersExact
<1> QED
  BY <1>2, LadderDataInvariant, PTL
=============================================================================
