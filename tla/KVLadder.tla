------------------------------ MODULE KVLadder ------------------------------
(***************************************************************************)
(* The swap-out ladder of mzcache_core::swapout_impl and the restore of    *)
(* mzcache_core::swapin_generate, over the bookkeeping of mzcache_kv_state *)
(* (per-layer plan, descending cursors, counters, store files, arenas) and *)
(* mzcache_weight (unload cursor).                                         *)
(*                                                                         *)
(* Every iteration of a loop of the code is one step, so that pc says      *)
(* where the main thread is.  K and V of a chunk move together, so a chunk *)
(* is one pair <<layer, chunk>>.  Arena space is kept per layer as one     *)
(* byte count (several arenas per layer: module ArenaStack), and the       *)
(* restore tasks of the thread pool are sets whose members run in any      *)
(* order (alloc promises, queues and the decode thread: module SwapIn).    *)
(***************************************************************************)
EXTENDS Integers, FiniteSets

CONSTANTS
    NumLayers,        \* num_layers
    InitChunks,       \* chunks per tensor when the core is constructed
    MaxChunks,        \* MAX_CHUNKS_PER_TENSOR
    Balance,          \* per_layer_balance
    RatioNum,         \* decomp_load_ratio = RatioNum / RatioDen
    RatioDen,
    Step,             \* step: chunks planned per turn of phase 1
    RawBytes,         \* bytes of a raw K+V chunk
    CompBytes,        \* bytes of a compressed K+V chunk in an arena
    MetaBytes,        \* bytes of its quantisation metadata
    LayerBytes,       \* weight_layer_bytes
    PageBytes,        \* O_DIRECT block, round_up_4k
    Targets,          \* requested freed shares, in units of 1 / TargetDen
    TargetDen,
    IoFaults,         \* TRUE: store and swap files may fail to be opened or written
    MaxCycles         \* bound on the swap-in cycles explored

ASSUME LadderAssumption ==
    /\ NumLayers \in Nat \ {0}
    /\ InitChunks \in Nat \ {0}
    /\ MaxChunks \in Nat
    /\ InitChunks <= MaxChunks
    /\ Balance \in Nat
    /\ RatioNum \in Nat
    /\ RatioDen \in Nat \ {0}
    /\ RatioNum <= RatioDen
    /\ Step \in Nat \ {0}
    /\ RawBytes \in Nat
    /\ CompBytes \in Nat \ {0}
    /\ MetaBytes \in Nat
    /\ CompBytes + MetaBytes <= RawBytes
    /\ LayerBytes \in Nat
    /\ PageBytes \in Nat \ {0}
    /\ Targets \subseteq Nat
    /\ TargetDen \in Nat \ {0}
    /\ IoFaults \in BOOLEAN
    /\ MaxCycles \in Nat

Layers == 0 .. NumLayers - 1
Chunks == 0 .. MaxChunks - 1

VARIABLES
    pc,           \* where the main thread is in swapout_impl / swapin_generate
    target,       \* target_ratio of the running swapout
    todoC,        \* iterations left in mzcache_compress_chunks
    todoS,        \* iterations left in mzcache_store_chunks
    stuck,        \* phase 1 planned no chunk at all this turn
    rounds,       \* iterations left of phase 2
    nChunks,      \* kv_state->num_chunks_per_tensor
    coreChunks,   \* core->num_chunks_per_tensor
    allocated,    \* llama_kv_cache_unified::n_chunks_alloc
    pending,      \* pending_chunks_total
    bound,        \* chunk_bound[]
    st,           \* layers[].states[]
    cL, cC,       \* cur_layer_idx_to_compress, cur_chunk_idx_to_compress
    sL, sC,       \* cur_layer_idx_to_store, cur_chunk_idx_to_store
    nComp,        \* n_cur_comp_chunks
    nStore,       \* n_cur_store_chunks
    saved,        \* n_cur_comp_saved_bytes
    fds,          \* layers whose layer_fds[] entry is open
    file,         \* KV_<model>_L<i>.bin: slot -> the last write to it, as
                  \* <<chunk, cycle, whether all bytes were written>>
    cycle,        \* swap-in cycles completed
    arenaTop,     \* bytes used in arenas[]
    offUsed,      \* offload_used_bytes_[]
    nextOff,      \* next_layer_to_offload
    offBytes,     \* n_cur_arena_offload_bytes
    wL,           \* cur_layer_idx_to_unload
    nUnload,      \* n_cur_unload_layers
    weights,      \* layers whose weights are resident
    sync,         \* layer_sync[].remaining
    compLeft,     \* comp_left[]
    decompNum,    \* decomp_num_chunks
    loadNum,      \* load_num_chunks
    todoL,        \* iterations left of the LOAD enqueue loop
    todoD,        \* iterations left of the DECOMP enqueue loop
    reads, decomps, wreads, frees   \* tasks handed to the thread pool

planVars   == <<nChunks, coreChunks, allocated, pending, bound>>
loopVars   == <<target, todoC, todoS, stuck, rounds>>
kvVars     == <<st, cL, cC, sL, sC, nComp, nStore, saved>>
fileVars   == <<fds, file, cycle>>
arenaVars  == <<arenaTop, offUsed, nextOff, offBytes>>
weightVars == <<wL, nUnload, weights>>
taskVars   == <<sync, compLeft, decompNum, loadNum, todoL, todoD,
                reads, decomps, wreads, frees>>
vars == <<pc, loopVars, planVars, kvVars, fileVars, arenaVars, weightVars,
          taskVars>>

-----------------------------------------------------------------------------
(* The plan: derive_swapout_plan and allocate_chunks.                      *)

Min2(a, b) == IF a <= b THEN a ELSE b
Max2(a, b) == IF a >= b THEN a ELSE b

\* static_cast<int>(n * decomp_load_ratio)
Scaled(n) == (n * RatioNum) \div RatioDen

BalanceChunks == Balance * NumLayers

\* chunk_bound[i]: the lowest layers, up to BalanceChunks chunks in all, only
\* compress; the layer where that region ends is split; the rest follow the
\* default split.  cur_chunks is i * n while the loop is still balancing.
ChunkBound(n, i) ==
    IF (i + 1) * n <= BalanceChunks
    THEN n
    ELSE IF i * n <= BalanceChunks
         THEN LET compOnly == BalanceChunks - i * n
              IN  compOnly + Scaled(n - compOnly)
         ELSE Scaled(n)

PlanBound(n) == [i \in Layers |-> ChunkBound(n, i)]

\* The chunks below / from chunk_bound, and their numbers max_comp_chunks and
\* max_store_chunks (sums over the layers in the code).
CompRegion(b) == {p \in Layers \X Chunks : p[2] < b[p[1]]}
StoreRegion(b, n) == {p \in Layers \X Chunks : b[p[1]] <= p[2] /\ p[2] < n}
MaxComp == Cardinality(CompRegion(bound))
MaxStore == Cardinality(StoreRegion(bound, nChunks))

TotalChunks == coreChunks * NumLayers
BoundChunks == TotalChunks - BalanceChunks
Processed == nComp + nStore

\* Faulty: phase 1 may use the compress room that phase 2 balances with.
CompRoom_NoReserve == Max2(0, MaxComp - nComp)

\* comp_room and store_room of allocate_chunks: phase 1 leaves BalanceChunks of
\* the compress regions to phase 2.
CompRoom == Max2(0, MaxComp - BalanceChunks - nComp)
StoreRoom == Max2(0, MaxStore - nStore)

\* allocate_chunks(requested) of swapout_impl: <<add_comp, add_store>>.
AllocateChunks(requested) ==
    LET wantComp  == Scaled(requested)
        wantStore == requested - wantComp
        addComp   == Min2(wantComp, CompRoom)
        addStore  == Min2(wantStore, StoreRoom)
        shortage  == requested - (addComp + addStore)
        moreStore == IF shortage > 0 /\ addComp < wantComp
                     THEN Min2(Min2(shortage, wantComp - addComp),
                               StoreRoom - addStore)
                     ELSE 0
        shortage2 == shortage - moreStore
        addStore2 == addStore + moreStore
        moreComp  == IF shortage2 > 0 /\ addStore2 < wantStore
                     THEN Min2(Min2(shortage2, wantStore - addStore2),
                               CompRoom - addComp)
                     ELSE 0
    IN  <<addComp + moreComp, addStore2>>

-----------------------------------------------------------------------------
(* Bytes: current_freed, full_bytes and check_target of swapout_impl.      *)

Pad(b) == ((b + PageBytes - 1) \div PageBytes) * PageBytes

Freed == saved + offBytes + nStore * RawBytes + nUnload * LayerBytes
FullBytes == LayerBytes * NumLayers + RawBytes * coreChunks * NumLayers
TargetReached(freed, full, t) == freed * TargetDen >= t * full

\* Faulty: only the offloaded arenas keep a growth waiting.
CleanLadder_Arenas == offBytes = 0

\* The test of register_grown_chunks: nothing of the cache is swapped out.
CleanLadder == nComp = 0 /\ nStore = 0 /\ offBytes = 0

-----------------------------------------------------------------------------
(* Initial state: mzcache_kv_state, mzcache_weight and core constructed on *)
(* InitChunks resident chunks per tensor.                                  *)

\* states[] of n registered chunks in every layer, the first m of them kept.
Registered(old, m, n) ==
    [i \in Layers |-> [c \in Chunks |->
        IF c < m THEN old[i][c] ELSE IF c < n THEN "Raw" ELSE "None"]]

NoChunk == <<MaxChunks, 0, FALSE>>      \* a file slot never written
Empty == [i \in Layers |-> [c \in Chunks |-> "None"]]
Zero == [i \in Layers |-> 0]

Init ==
    /\ pc = "idle"
    /\ target = 0 /\ todoC = 0 /\ todoS = 0 /\ stuck = FALSE /\ rounds = 0
    /\ nChunks = InitChunks /\ coreChunks = InitChunks
    /\ allocated = InitChunks /\ pending = 0
    /\ bound = PlanBound(InitChunks)
    /\ st = Registered(Empty, 0, InitChunks)
    /\ cL = NumLayers - 1 /\ cC = ChunkBound(InitChunks, NumLayers - 1) - 1
    /\ sL = NumLayers - 1 /\ sC = InitChunks - 1
    /\ nComp = 0 /\ nStore = 0 /\ saved = 0
    /\ fds = {}
    /\ file = [i \in Layers |-> [k \in Chunks |-> NoChunk]]
    /\ cycle = 0
    /\ arenaTop = Zero /\ offUsed = Zero
    /\ nextOff = NumLayers - 1 /\ offBytes = 0
    /\ wL = NumLayers - 1 /\ nUnload = 0 /\ weights = Layers
    /\ sync = Zero /\ compLeft = Zero /\ decompNum = 0 /\ loadNum = 0
    /\ todoL = 0 /\ todoD = 0
    /\ reads = {} /\ decomps = {} /\ wreads = {} /\ frees = {}

-----------------------------------------------------------------------------
(* Runtime chunk growth: mz_grow_chunks -> on_kv_chunks_grown ->           *)
(* register_grown_chunks, and apply_pending_growth at a swapout's start.   *)

\* register_grown_chunks(n) on a clean ladder: register, re-derive the plan.
RegisterChunks(n) ==
    /\ nChunks' = n
    /\ st' = Registered(st, nChunks, n)
    /\ bound' = PlanBound(n)
    /\ cL' = NumLayers - 1 /\ cC' = ChunkBound(n, NumLayers - 1) - 1
    /\ sL' = NumLayers - 1 /\ sC' = n - 1
    /\ UNCHANGED <<nComp, nStore, saved>>

\* The decode thread materialises chunks: between swaps, or inside a swap-in
\* (where the ladder is usually still in flight and the growth is parked).
Decoding == \/ pc = "idle" /\ nComp = 0 /\ nStore = 0 /\ nUnload = 0
            \/ pc \in {"load", "decomp", "weights", "finish"}

Grow(n) ==
    /\ Decoding
    /\ n > allocated /\ n <= MaxChunks
    /\ allocated' = n
    /\ IF n <= nChunks
       THEN UNCHANGED <<nChunks, coreChunks, pending, bound, kvVars>>
       ELSE IF CleanLadder
       THEN RegisterChunks(n) /\ coreChunks' = n /\ UNCHANGED pending
       ELSE pending' = Max2(pending, n)
            /\ UNCHANGED <<nChunks, coreChunks, bound, kvVars>>
    /\ UNCHANGED <<pc, loopVars, fileVars, arenaVars, weightVars, taskVars>>

\* Faulty: the parked growth is cleared before it is looked at.
ApplyPendingGrowth_Drop == pending' = 0 /\ UNCHANGED <<nChunks, bound, kvVars>>

\* Growth that cannot be applied yet is parked again by register_grown_chunks.
ApplyPendingGrowth ==
    IF pending > nChunks
    THEN IF CleanLadder
         THEN pending' = 0 /\ RegisterChunks(pending)
         ELSE UNCHANGED <<pending, nChunks, bound, kvVars>>
    ELSE pending' = 0 /\ UNCHANGED <<nChunks, bound, kvVars>>

-----------------------------------------------------------------------------
(* Swap-out.                                                               *)

\* Iterations of phase 2's loop.
UnloadRounds == NumLayers - nUnload

\* target_ratio is gone when swapout returns.
Remembered == IF pc' = "idle" THEN 0 ELSE target

\* swapout(target_ratio) up to the first check_target.
SwapoutStart(t) ==
    /\ pc = "idle"
    /\ ApplyPendingGrowth
    /\ coreChunks' = nChunks'
    /\ pc' = IF TargetReached(Freed, FullBytes', t) THEN "idle" ELSE "p1"
    /\ target' = IF pc' = "idle" THEN 0 ELSE t
    /\ rounds' = UnloadRounds
    /\ UNCHANGED <<todoC, todoS, stuck, allocated, fileVars, arenaVars,
                   weightVars, taskVars>>

\* The head of phase 1's loop: plan up to Step chunks, or go to phase 2 with
\* the store files closed.
Phase1 ==
    /\ pc = "p1"
    /\ IF Processed < BoundChunks
       THEN LET add == AllocateChunks(Min2(Step, TotalChunks - Processed))
            IN  /\ todoC' = add[1] /\ todoS' = add[2]
                /\ stuck' = (add[1] + add[2] = 0)
                /\ pc' = "compress1"
                /\ fds' = fds
       ELSE /\ pc' = "p2" /\ fds' = {}
            /\ UNCHANGED <<todoC, todoS, stuck>>
    /\ UNCHANGED <<target, rounds, planVars, kvVars, file, cycle, arenaVars,
                   weightVars, taskVars>>

\* mzcache_compress_chunks: step over a layer whose region is exhausted.
CompressSkip ==
    /\ pc \in {"compress1", "compress2"}
    /\ todoC > 0 /\ cL >= 0 /\ cC < 0
    /\ cL' = cL - 1
    /\ cC' = IF cL - 1 >= 0 THEN bound[cL - 1] - 1 ELSE cC
    /\ UNCHANGED <<pc, loopVars, planVars, st, sL, sC, nComp, nStore, saved,
                   fileVars, arenaVars, weightVars, taskVars>>

\* Faulty: raw and compressed size swapped.
SavedWithOne_Swapped == saved + (CompBytes + MetaBytes - RawBytes)

\* n_cur_comp_saved_bytes after one more compressed chunk.
SavedWithOne == saved + (RawBytes - CompBytes - MetaBytes)

\* mzcache_compress_chunks: one chunk into the layer's arena, raw copy freed.
CompressOne ==
    /\ pc \in {"compress1", "compress2"}
    /\ todoC > 0 /\ cL >= 0 /\ cC >= 0
    /\ st' = [st EXCEPT ![cL][cC] = "Compressed"]
    /\ arenaTop' = [arenaTop EXCEPT ![cL] = @ + CompBytes]
    /\ saved' = SavedWithOne
    /\ nComp' = nComp + 1
    /\ cC' = cC - 1
    /\ todoC' = todoC - 1
    /\ UNCHANGED <<pc, target, todoS, stuck, rounds, planVars, cL, sL, sC,
                   nStore, fileVars, offUsed, nextOff, offBytes, weightVars,
                   taskVars>>

\* The loop ends: all asked-for chunks done, or every region exhausted.
CompressDone ==
    /\ pc \in {"compress1", "compress2"}
    /\ todoC <= 0 \/ cL < 0
    /\ todoC' = 0
    /\ pc' = IF pc = "compress1" THEN "store" ELSE "unload"
    /\ UNCHANGED <<target, todoS, stuck, rounds, planVars, kvVars, fileVars,
                   arenaVars, weightVars, taskVars>>

\* Faulty: the cursor keeps its chunk index when it changes layer.
NextStoreChunk_Kept == sC

\* The store cursor's chunk when it enters the next layer.
NextStoreChunk == nChunks - 1

\* mzcache_store_chunks: step over a layer whose region is exhausted.
StoreSkip ==
    /\ pc = "store"
    /\ todoS > 0 /\ sL >= 0
    /\ sC < bound[sL]
    /\ fds' = fds \ {sL}
    /\ sL' = sL - 1
    /\ sC' = NextStoreChunk
    /\ UNCHANGED <<pc, loopVars, planVars, st, cL, cC, nComp, nStore, saved,
                   file, cycle, arenaVars, weightVars, taskVars>>

\* Faulty: the offset steps by half a K+V pair.
StoreSlot_Half == (sC - bound[sL]) \div 2

\* chunk_idx0: the chunk's place in its layer file.
StoreSlot == sC - bound[sL]

\* The outcomes of a pwrite: all bytes are written; or, with faults, they are not
\* and the slot keeps bytes of an earlier write, which is logged and nothing more.
Outcomes == {TRUE, ~IoFaults}

\* mzcache_store_chunks: write one chunk at its absolute offset.  Whatever comes of
\* the write, the chunk counts as stored and its raw copy is freed.
StoreOne ==
    /\ pc = "store"
    /\ todoS > 0 /\ sL >= 0
    /\ sC >= bound[sL]
    /\ fds' = fds \cup {sL}
    /\ \E whole \in Outcomes : file' = [file EXCEPT ![sL][StoreSlot] = <<sC, cycle, whole>>]
    /\ st' = [st EXCEPT ![sL][sC] = "Stored"]
    /\ nStore' = nStore + 1
    /\ sC' = sC - 1
    /\ todoS' = todoS - 1
    /\ UNCHANGED <<pc, target, todoC, stuck, rounds, planVars, cL, cC, sL,
                   nComp, saved, cycle, arenaVars, weightVars, taskVars>>

\* mzcache_store_chunks gives up when the layer's file cannot be opened.
StoreOpenFails ==
    /\ IoFaults
    /\ pc = "store"
    /\ todoS > 0 /\ sL >= 0
    /\ sC >= bound[sL] /\ sL \notin fds
    /\ todoS' = 0
    /\ UNCHANGED <<pc, target, todoC, stuck, rounds, planVars, kvVars,
                   fileVars, arenaVars, weightVars, taskVars>>

\* The end of a turn of phase 1: check_target, then go on unless stuck.
Phase1Check ==
    /\ pc = "store"
    /\ todoS <= 0 \/ sL < 0
    /\ todoS' = 0
    /\ LET reached == TargetReached(Freed, FullBytes, target)
       IN  /\ pc' = IF reached THEN "idle" ELSE IF stuck THEN "p2" ELSE "p1"
           /\ fds' = IF reached \/ stuck THEN {} ELSE fds
    /\ target' = Remembered
    /\ UNCHANGED <<todoC, stuck, rounds, planVars, kvVars, file, cycle,
                   arenaVars, weightVars, taskVars>>

\* to_process of phase 2
BalanceTurn == Min2(Balance, TotalChunks - Processed)

\* The head of phase 2's loop: compress up to per_layer_balance chunks.
Phase2 ==
    /\ pc = "p2"
    /\ IF rounds > 0
       THEN /\ todoC' = BalanceTurn
            /\ pc' = "compress2"
       ELSE pc' = "p3" /\ UNCHANGED todoC
    /\ UNCHANGED <<target, todoS, stuck, rounds, planVars, kvVars, fileVars,
                   arenaVars, weightVars, taskVars>>

\* mzcache_unload_layers(1): the top resident layer's weights are freed.
UnloadOne ==
    /\ weights' = weights \ {wL}
    /\ wL' = wL - 1
    /\ nUnload' = nUnload + 1

Phase2Unload ==
    /\ pc = "unload"
    /\ UnloadOne
    /\ rounds' = rounds - 1
    /\ LET freed == Freed + LayerBytes
       IN pc' = IF TargetReached(freed, FullBytes, target) THEN "idle"
                ELSE IF nUnload' = NumLayers /\ Processed = TotalChunks
                THEN "p3" ELSE "p2"
    /\ target' = Remembered
    /\ UNCHANGED <<todoC, todoS, stuck, planVars, kvVars, fileVars,
                   arenaVars, taskVars>>

\* Without a readable dump of the layer the unload is refused: phase 2 ends.
Phase2Refused ==
    /\ pc = "unload"
    /\ pc' = "p3"
    /\ UNCHANGED <<loopVars, planVars, kvVars, fileVars, arenaVars,
                   weightVars, taskVars>>

AllSwappedOut == Processed = TotalChunks /\ nUnload = NumLayers

\* mzcache_offload_arenas: the layer's arenas go to its swap file.
Phase3 ==
    /\ pc = "p3"
    /\ AllSwappedOut /\ nextOff >= 0
    /\ offUsed' = [offUsed EXCEPT ![nextOff] = arenaTop[nextOff]]
    /\ arenaTop' = [arenaTop EXCEPT ![nextOff] = 0]
    /\ offBytes' = offBytes + Pad(arenaTop[nextOff])
    /\ nextOff' = nextOff - 1
    /\ LET freed == Freed + Pad(arenaTop[nextOff])
       IN pc' = IF TargetReached(freed, FullBytes, target) THEN "idle" ELSE "p3"
    /\ target' = Remembered
    /\ UNCHANGED <<todoC, todoS, stuck, rounds, planVars, kvVars, fileVars,
                   weightVars, taskVars>>

\* The swap file cannot be opened or written: nothing moves, the loop goes on.
Phase3Fails ==
    /\ IoFaults
    /\ pc = "p3"
    /\ AllSwappedOut /\ nextOff >= 0
    /\ pc' = IF TargetReached(Freed, FullBytes, target) THEN "idle" ELSE "p3"
    /\ target' = Remembered
    /\ UNCHANGED <<todoC, todoS, stuck, rounds, planVars, kvVars, fileVars,
                   arenaVars, weightVars, taskVars>>

SwapoutEnd ==
    /\ pc = "p3"
    /\ ~(AllSwappedOut /\ nextOff >= 0)
    /\ pc' = "idle"
    /\ target' = Remembered
    /\ UNCHANGED <<todoC, todoS, stuck, rounds, planVars, kvVars, fileVars,
                   arenaVars, weightVars, taskVars>>

\* handleMemoryPressureNative of the Android app unloads further layers after
\* a swapout, in proportion to the ratio it was asked for.
AppUnload ==
    /\ pc = "idle"
    /\ wL >= 0
    /\ UnloadOne
    /\ UNCHANGED <<pc, loopVars, planVars, kvVars, fileVars, arenaVars,
                   taskVars>>

-----------------------------------------------------------------------------
(* Swap-in.                                                                *)

\* Faulty: counts the cursor's own chunk as compressed.
CompressInit_OffByOne(i) ==
    IF i < cL THEN 0 ELSE IF i = cL THEN bound[i] - cC ELSE bound[i]

\* The three terms of initialize_layer_sync.
CompressInit(i) ==
    IF i < cL THEN 0 ELSE IF i = cL THEN bound[i] - (cC + 1) ELSE bound[i]
StoreInit(i) ==
    IF i < sL THEN 0 ELSE IF i = sL THEN nChunks - (sC + 1)
    ELSE nChunks - bound[i]
WeightInit(i) == IF i > wL THEN 1 ELSE 0

\* decomp_num_chunks and load_num_chunks: the terms added up over the layers.
DecompNum == Cardinality({p \in Layers \X (1 .. MaxChunks) : p[2] <= CompressInit(p[1])})
LoadNum == Cardinality({p \in Layers \X (1 .. MaxChunks) : p[2] <= StoreInit(p[1])})

\* Faulty: the offloaded bytes stay on the books.
ReloadAllArenas_KeepBytes ==
    /\ arenaTop' = [i \in Layers |-> IF i > nextOff /\ offUsed[i] > 0
                                     THEN offUsed[i] ELSE arenaTop[i]]
    /\ nextOff' = NumLayers - 1
    /\ UNCHANGED <<offUsed, offBytes>>

\* mzcache_reload_all_arenas: every offloaded layer's arenas come back.
ReloadAllArenas ==
    /\ arenaTop' = [i \in Layers |-> IF i > nextOff /\ offUsed[i] > 0
                                     THEN offUsed[i] ELSE arenaTop[i]]
    /\ nextOff' = NumLayers - 1
    /\ offBytes' = IF nextOff + 1 >= NumLayers THEN offBytes ELSE 0
    /\ UNCHANGED offUsed

\* swapin_generate up to the enqueue loops.  The file of the layer the store
\* cursor is in is opened for reading: the code tests for that once the decode runs,
\* but a Grow in between changes the cursor and the count together, and only with
\* nothing to load, so the test comes out the same.
SwapinStart ==
    /\ pc = "idle" /\ cycle < MaxCycles
    /\ sync' = [i \in Layers |-> CompressInit(i) + StoreInit(i) + WeightInit(i)]
    /\ compLeft' = [i \in Layers |-> CompressInit(i)]
    /\ decompNum' = DecompNum
    /\ loadNum' = LoadNum
    /\ todoD' = DecompNum /\ todoL' = LoadNum
    /\ ReloadAllArenas
    /\ fds' = IF sC < nChunks - 1 THEN fds \cup {sL} ELSE fds
    /\ pc' = "load"
    /\ UNCHANGED <<loopVars, planVars, kvVars, file, cycle, weightVars,
                   reads, decomps, wreads, frees>>

\* One turn of the LOAD loop: advance the store cursor, enqueue the read.
LoadNext ==
    /\ pc = "load" /\ todoL > 0
    /\ LET wrap == sC + 1 = nChunks
           l == IF wrap THEN sL + 1 ELSE sL
       IN  /\ sL' = l
           /\ IF l >= NumLayers
              THEN sC' = sC + 1 /\ todoL' = 0 /\ UNCHANGED <<fds, reads>>
              ELSE /\ sC' = IF wrap THEN bound[l] ELSE sC + 1
                   /\ fds' = IF wrap THEN fds \cup {l} ELSE fds
                   /\ reads' = reads \cup {<<l, sC'>>}
                   /\ todoL' = todoL - 1
    /\ UNCHANGED <<pc, loopVars, planVars, st, cL, cC, nComp, nStore, saved,
                   file, cycle, arenaVars, weightVars, sync, compLeft,
                   decompNum, loadNum, todoD, decomps, wreads, frees>>

LoadDone ==
    /\ pc = "load" /\ todoL = 0
    /\ pc' = "decomp"
    /\ UNCHANGED <<loopVars, planVars, kvVars, fileVars, arenaVars,
                   weightVars, taskVars>>

\* Faulty: one chunk past the end of the layer's compress region.
DecompWraps_Late == cC + 1 > bound[cL]

\* The compress cursor has done its layer.
DecompWraps == cC + 1 >= bound[cL]

\* One turn of the DECOMP loop: advance the compress cursor, enqueue the task.
DecompNext ==
    /\ pc = "decomp" /\ todoD > 0
    /\ LET l == IF DecompWraps THEN cL + 1 ELSE cL
       IN  /\ cL' = l
           /\ cC' = IF DecompWraps THEN 0 ELSE cC + 1
           /\ IF l >= NumLayers
              THEN todoD' = 0 /\ UNCHANGED decomps
              ELSE /\ decomps' = decomps \cup {<<l, cC'>>}
                   /\ todoD' = todoD - 1
    /\ UNCHANGED <<pc, loopVars, planVars, st, sL, sC, nComp, nStore, saved,
                   fileVars, arenaVars, weightVars, sync, compLeft,
                   decompNum, loadNum, todoL, reads, wreads, frees>>

DecompDone ==
    /\ pc = "decomp" /\ todoD = 0
    /\ pc' = "weights"
    /\ UNCHANGED <<loopVars, planVars, kvVars, fileVars, arenaVars,
                   weightVars, taskVars>>

\* mzcache_reload_w_layers: a read for every unloaded layer, cursor reset.
ReloadWeights ==
    /\ pc = "weights"
    /\ wreads' = {i \in Layers : i > wL}
    /\ wL' = NumLayers - 1
    /\ pc' = "finish"
    /\ UNCHANGED <<loopVars, planVars, kvVars, fileVars, arenaVars, nUnload,
                   weights, sync, compLeft, decompNum, loadNum, todoL, todoD,
                   reads, decomps, frees>>

\* kv_read_worker
ReadChunk(i, c) ==
    /\ <<i, c>> \in reads
    /\ reads' = reads \ {<<i, c>>}
    /\ st' = [st EXCEPT ![i][c] = "Raw"]
    /\ sync' = [sync EXCEPT ![i] = @ - 1]
    /\ UNCHANGED <<pc, loopVars, planVars, cL, cC, sL, sC, nComp, nStore,
                   saved, fileVars, arenaVars, weightVars, compLeft,
                   decompNum, loadNum, todoL, todoD, decomps, wreads, frees>>

\* Faulty: the arenas go with the last chunk but one.
LastOfLayer_Early(i) == compLeft[i] \in {1, 2}

\* comp_left[layer].fetch_sub(1) == 1
LastOfLayer(i) == compLeft[i] = 1

\* kv_decomp_worker: the layer's last chunk hands its arenas to FREE.
DecompressChunk(i, c) ==
    /\ <<i, c>> \in decomps
    /\ decomps' = decomps \ {<<i, c>>}
    /\ st' = [st EXCEPT ![i][c] = "Raw"]
    /\ compLeft' = [compLeft EXCEPT ![i] = @ - 1]
    /\ frees' = IF LastOfLayer(i) THEN frees \cup {i} ELSE frees
    /\ sync' = [sync EXCEPT ![i] = @ - 1]
    /\ UNCHANGED <<pc, loopVars, planVars, cL, cC, sL, sC, nComp, nStore,
                   saved, fileVars, arenaVars, weightVars, decompNum,
                   loadNum, todoL, todoD, reads, wreads>>

\* free_layer_arenas
FreeArenas(i) ==
    /\ i \in frees
    /\ frees' = frees \ {i}
    /\ arenaTop' = [arenaTop EXCEPT ![i] = 0]
    /\ UNCHANGED <<pc, loopVars, planVars, kvVars, fileVars, offUsed,
                   nextOff, offBytes, weightVars, sync, compLeft, decompNum,
                   loadNum, todoL, todoD, reads, decomps, wreads>>

\* weight_read_worker
ReadWeights(i) ==
    /\ i \in wreads
    /\ wreads' = wreads \ {i}
    /\ weights' = weights \cup {i}
    /\ sync' = [sync EXCEPT ![i] = @ - 1]
    /\ UNCHANGED <<pc, loopVars, planVars, kvVars, fileVars, arenaVars, wL,
                   nUnload, compLeft, decompNum, loadNum, todoL, todoD,
                   reads, decomps, frees>>

Compressed(i) == {c \in Chunks : c < nChunks /\ st[i][c] = "Compressed"}

\* finish_swapin_cycle: all layer syncs, all tasks, then clean_after_decompress
\* and clean_after_read.
Finish ==
    /\ pc = "finish"
    /\ \A i \in Layers : sync[i] <= 0
    /\ reads = {} /\ decomps = {} /\ wreads = {} /\ frees = {}
    /\ IF decompNum <= 0
       THEN UNCHANGED <<arenaTop, nComp, saved>>
       ELSE /\ arenaTop' = [i \in Layers |-> Cardinality(Compressed(i)) * CompBytes]
            /\ nComp' = Max2(0, nComp - decompNum)
            /\ saved' = IF decompNum >= nComp THEN 0
                        ELSE (saved * (nComp - decompNum)) \div nComp
    /\ nStore' = Max2(0, nStore - loadNum)
    /\ fds' = {}
    /\ wL' = NumLayers - 1 /\ nUnload' = 0
    /\ cycle' = cycle + 1
    /\ pc' = "idle"
    /\ UNCHANGED <<loopVars, planVars, st, cL, cC, sL, sC, file, offUsed,
                   nextOff, offBytes, weights, taskVars>>

-----------------------------------------------------------------------------

\* The steps of swapout_impl other than the offloads of phase 3.
LoopStep == \/ Phase1 \/ CompressSkip \/ CompressOne \/ CompressDone
            \/ StoreSkip \/ StoreOne \/ Phase1Check \/ Phase2 \/ Phase2Unload
            \/ Phase2Refused \/ SwapoutEnd

Swapout == LoopStep \/ Phase3

Swapin == LoadNext \/ LoadDone \/ DecompNext \/ DecompDone \/ ReloadWeights
          \/ Finish

Worker == \/ \E i \in Layers, c \in Chunks : ReadChunk(i, c) \/ DecompressChunk(i, c)
          \/ \E i \in Layers : FreeArenas(i) \/ ReadWeights(i)

Next == \/ \E t \in Targets : SwapoutStart(t)
        \/ \E n \in 1 .. MaxChunks : Grow(n)
        \/ Swapout \/ StoreOpenFails \/ Phase3Fails
        \/ AppUnload
        \/ SwapinStart \/ Swapin \/ Worker

Spec == Init /\ [][Next]_vars

\* The main thread runs its loops on, and every pool group has workers.  Nothing
\* is assumed of the disk: an attempt to open a store file ends either way, and an
\* offload may fail for ever.
FairSpec == /\ Spec
            /\ WF_vars(LoopStep \/ StoreOpenFails)
            /\ WF_vars(Swapin) /\ WF_vars(Worker)

-----------------------------------------------------------------------------
(* Properties.                                                             *)

Restoring == pc \in {"load", "decomp", "weights", "finish"}
ChunkStates == {"Raw", "Compressed", "Stored", "None"}
Pairs == Layers \X Chunks

\* Type correctness of the bookkeeping of mzcache_kv_state, mzcache_weight and
\* the two swap procedures of mzcache_core.
TypeOK ==
    /\ pc \in {"idle", "p1", "compress1", "compress2", "store", "p2",
               "unload", "p3", "load", "decomp", "weights", "finish"}
    /\ target \in Nat /\ todoC \in Int /\ todoS \in Int
    /\ stuck \in BOOLEAN /\ rounds \in Nat
    /\ nChunks \in 1 .. MaxChunks /\ coreChunks \in 1 .. MaxChunks
    /\ allocated \in 1 .. MaxChunks /\ pending \in 0 .. MaxChunks
    /\ bound \in [Layers -> 0 .. MaxChunks]
    /\ st \in [Layers -> [Chunks -> ChunkStates]]
    /\ cL \in Int /\ cC \in Int /\ sL \in Int /\ sC \in Int
    /\ nComp \in Nat /\ nStore \in Nat /\ saved \in Int
    /\ fds \subseteq Layers
    /\ file \in [Layers -> [Chunks -> (0 .. MaxChunks) \X Nat \X BOOLEAN]]
    /\ cycle \in Nat
    /\ arenaTop \in [Layers -> Nat] /\ offUsed \in [Layers -> Nat]
    /\ nextOff \in -1 .. NumLayers - 1 /\ offBytes \in Int
    /\ wL \in -1 .. NumLayers - 1 /\ nUnload \in 0 .. NumLayers
    /\ weights \subseteq Layers
    /\ sync \in [Layers -> Int] /\ compLeft \in [Layers -> Int]
    /\ decompNum \in Nat /\ loadNum \in Nat
    /\ todoL \in Nat /\ todoD \in Nat
    /\ reads \subseteq Pairs /\ decomps \subseteq Pairs
    /\ wreads \subseteq Layers /\ frees \subseteq Layers

\* The chunks the cursors have passed.
CompTaken == {p \in CompRegion(bound) : p[1] > cL \/ (p[1] = cL /\ p[2] > cC)}
StoreTaken ==
    {p \in StoreRegion(bound, nChunks) : p[1] > sL \/ (p[1] = sL /\ p[2] > sC)}
InState(s) == {p \in Pairs : st[p[1]][p[2]] = s}

\* The cursors say which chunks are swapped out: exactly the compress (store)
\* region above the compress (store) cursor is Compressed (Stored), apart from
\* chunks whose restore task has been enqueued but has not run.
LadderShape ==
    /\ InState("Compressed") = CompTaken \cup decomps
    /\ InState("Stored") = StoreTaken \cup reads
    /\ CompTaken \cap decomps = {} /\ StoreTaken \cap reads = {}

\* mzcache_compress_chunks, mzcache_store_chunks and the enqueue loops are
\* never asked for more chunks than their region holds: no cursor leaves the
\* layers, where initialize_layer_sync or the next restore would index with it.
CursorsOnLayers == cL \in Layers /\ sL \in Layers

\* While a swap-in runs, the layer sync of a layer counts exactly the chunks
\* and weights of the layer that are still missing.  The backend that waits
\* for the count to reach zero therefore computes on a complete layer, and
\* does get there.
SyncCountsMissing ==
    Restoring => \A i \in Layers :
        sync[i] = Cardinality({c \in Chunks : st[i][c] \in {"Compressed", "Stored"}})
                  + (IF i \in weights THEN 0 ELSE 1)

\* A stored chunk's slot in its layer file is the chunk's own: the last write to
\* it was of that chunk in this cycle, so neither another chunk of the layer, nor a
\* later store, nor a re-derived plan with other offsets has overwritten it.  A
\* restore reads the chunk's bytes, unless the very pwrite that stored it failed.
StoredSlotKept ==
    \A p \in InState("Stored") :
        /\ p[2] - bound[p[1]] \in Chunks
        /\ \E whole \in Outcomes : file[p[1]][p[2] - bound[p[1]]] = <<p[2], cycle, whole>>

\* The compressed bytes of a layer are where the restore looks for them: in
\* the swap file once the layer has been offloaded, otherwise in its arenas,
\* and never freed while a chunk of the layer is still compressed.
CompressedDataHeld ==
    \A i \in Layers :
        LET n == Cardinality({c \in Chunks : st[i][c] = "Compressed"}) * CompBytes
        IN  IF i > nextOff THEN offUsed[i] = n ELSE arenaTop[i] >= n

\* A swapout that plans from a clean ladder plans for every chunk the cache
\* has materialised: growth parked during the last swap-in is never lost.
GrowthCovered ==
    pc \notin {"idle", "load", "decomp", "weights", "finish"} =>
        /\ coreChunks = nChunks
        /\ Processed = 0 => nChunks = allocated
        /\ nChunks < allocated => pending = allocated

\* The decode of an overlapped swap-in may materialise chunks while the main
\* thread and the workers restore others.  num_chunks_per_tensor, the plan and
\* the cursors change under them only when there is nothing to restore: no
\* turn of the enqueue loops and no task sees two values of the count.
GrowthSparesWalk ==
    [][(Restoring /\ nChunks' # nChunks) =>
         /\ pc = "load" => todoL = 0
         /\ reads = {} /\ StoreTaken = {}
         /\ CompTaken = {} /\ decomps = {}
         /\ loadNum = 0 /\ decompNum = 0]_vars

\* Weights are unloaded by a swapout only when every chunk of the store region
\* is on disk, so that the chunks phase 2 adds are all compressible.
StoresBeforeUnload == pc \in {"p2", "compress2", "unload", "p3"} => nStore = MaxStore

\* Between swaps the cumulative counters that the ratio is computed from agree
\* with the state of the chunks, the weights and the arenas.
CountersExact ==
    pc = "idle" =>
        /\ nComp = Cardinality(InState("Compressed"))
        /\ nStore = Cardinality(InState("Stored"))
        /\ saved = nComp * (RawBytes - CompBytes - MetaBytes)
        /\ nUnload = Cardinality(Layers \ weights)
        /\ fds = {}
        /\ nComp = 0 => arenaTop = Zero /\ offBytes = 0

\* A running swapout only releases memory: no step of swapout_impl lowers
\* current_freed, which the caller's target is compared with.
SwapoutReleases ==
    [][~Restoring /\ pc # "idle" => Freed' >= Freed]_vars

\* The disk answers in the end: a store file that is opened again and again, and
\* an offload that is tried for ever.
DiskAnswers == SF_vars(StoreOne) /\ WF_vars(Phase3)

\* Every swap returns if the disk answers.  The phase loops of swapout_impl make
\* progress or stop; where a store file cannot be opened or an arena cannot be
\* written they go round, for ever if need be, which is why the disk is a premise.
\* The layer syncs that finish_swapin_cycle waits for all reach zero.
SwapsReturn == DiskAnswers => (pc # "idle" ~> pc = "idle")
=============================================================================
