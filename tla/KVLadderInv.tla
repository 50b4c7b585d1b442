---------------------------- MODULE KVLadderInv -----------------------------
(***************************************************************************)
(* The inductive invariant behind the safety properties of KVLadder: what  *)
(* swapout_impl, the enqueue loops and finish_swapin_cycle rely on at      *)
(* every point of their loops.  KVLadderProofs proves it inductive.        *)
(***************************************************************************)
EXTENDS KVLadder

\* chunk_bound never grows with the layer: the compress-only layers are the
\* lowest ones.
Monotone(b) == \A i, j \in Layers : i <= j => b[j] <= b[i]

\* The plan in force is one of derive_swapout_plan, and it reserves the chunks
\* of phase 2 unless it stores nothing.
PlanInv ==
    /\ coreChunks = nChunks
    /\ \A i \in Layers : bound[i] <= nChunks
    /\ Monotone(bound)
    /\ MaxComp < BalanceChunks => StoreRegion(bound, nChunks) = {}

\* Each cursor stays on a layer and within its region there, and the store
\* cursor has come down only through layers that store something.
CursorInv ==
    /\ cL \in Layers /\ sL \in Layers
    /\ cC \in -1 .. bound[cL] - 1
    /\ sC \in bound[sL] - 1 .. nChunks - 1
    /\ sL < NumLayers - 1 => bound[sL + 1] < nChunks

\* Outside a swap-in the counters are exact and no task is queued.
RestInv ==
    ~Restoring =>
        /\ nComp = Cardinality(CompTaken) /\ nStore = Cardinality(StoreTaken)
        /\ reads = {} /\ decomps = {} /\ wreads = {} /\ frees = {}

\* The loops of swapout_impl never ask for more than the regions hold, and
\* phase 1 reaches into the reserve of phase 2 only with everything stored.
LoopInv ==
    /\ pc = "compress1" /\ todoC > 0 => nComp + todoC <= MaxComp - BalanceChunks
    /\ pc \in {"compress1", "store"} /\ todoS > 0 => nStore + todoS <= MaxStore
    /\ pc = "compress2" /\ todoC > 0 => nComp + todoC <= MaxComp
    /\ ~Restoring /\ nComp > MaxComp - BalanceChunks => nStore = MaxStore
    /\ pc \in {"compress1", "store"} /\ stuck => nStore = MaxStore
    /\ pc \in {"p2", "compress2", "unload", "p3"} => nStore = MaxStore

\* The weight cursor, the count of unloaded layers and the rounds of phase 2.
UnloadInv ==
    /\ pc # "finish" => wL = NumLayers - 1 - nUnload
    /\ pc \in {"p1", "compress1", "store", "p2", "compress2", "unload"} =>
           rounds = NumLayers - nUnload
    /\ pc \in {"compress2", "unload"} => rounds > 0
    /\ pc # "finish" => wreads = {} /\ weights = 0 .. wL

\* During a swap-in the enqueue loops have exactly the passed chunks left.
RestoreInv ==
    Restoring =>
        /\ decompNum = nComp /\ loadNum = nStore
        /\ pc = "load" => todoL = Cardinality(StoreTaken)
        /\ pc \in {"load", "decomp"} => todoD = Cardinality(CompTaken)
        /\ pc # "load" => StoreTaken = {}
        /\ pc \in {"weights", "finish"} => CompTaken = {}
        /\ decompNum = 0 => CompTaken = {} /\ decomps = {}
        /\ loadNum = 0 => StoreTaken = {} /\ reads = {}
        /\ decomps \subseteq CompRegion(bound)
        /\ reads \subseteq StoreRegion(bound, nChunks)
        /\ pc = "finish" => weights = Layers \ wreads

\* The inductive invariant of the ladder: swapout_impl and swapin_generate
\* together keep plan, cursors, counters, tasks and layer syncs consistent.
IInv == /\ TypeOK /\ PlanInv /\ CursorInv /\ LadderShape
        /\ RestInv /\ LoopInv /\ UnloadInv /\ RestoreInv /\ SyncCountsMissing

-----------------------------------------------------------------------------
(* What the data properties rest on, beside IInv.                          *)

CompressedIn(i) == {c \in Chunks : st[i][c] = "Compressed"}
CompressedBytes(i) == Cardinality(CompressedIn(i)) * CompBytes

\* Outside a swap-in a layer's compressed bytes are in its arenas or, once the
\* layer was offloaded, in the swap file, and then everything is swapped out.  In
\* a swap-in they are in memory until the last chunk of the layer is back, which
\* comp_left counts.
ArenaInv ==
    /\ ~Restoring => \A i \in Layers :
         IF i > nextOff THEN arenaTop[i] = 0 /\ offUsed[i] = CompressedBytes(i)
         ELSE arenaTop[i] = CompressedBytes(i)
    /\ nextOff < NumLayers - 1 => ~Restoring /\ AllSwappedOut
    /\ nComp = 0 \/ nextOff = NumLayers - 1 => offBytes = 0
    /\ Restoring => \A i \in Layers :
         /\ compLeft[i] = Cardinality(CompressedIn(i))
         /\ arenaTop[i] >= CompressedBytes(i)
         /\ i \in frees => CompressedIn(i) = {}
         /\ decompNum = 0 => arenaTop[i] = 0

\* Growth that the plan does not cover is parked, all of it.
GrowthInv ==
    /\ nChunks <= allocated /\ pending <= allocated
    /\ nChunks < allocated => pending = allocated
    /\ pc # "idle" /\ ~Restoring /\ Processed = 0 => nChunks = allocated

\* The saved bytes follow the count of compressed chunks, and store files are
\* open only while phase 1 stores or a swap-in reads.
BookInv ==
    /\ saved = nComp * (RawBytes - CompBytes - MetaBytes)
    /\ pc \in {"idle", "p2", "compress2", "unload", "p3"} => fds = {}

DataInv == StoredSlotKept /\ ArenaInv /\ GrowthInv /\ BookInv

\* The inductive invariant of the bookkeeping and of the data it stands for:
\* where the bytes of every swapped-out chunk are, at every point of a swapout or
\* a swapin_generate.
LadderInv == IInv /\ DataInv
=============================================================================
