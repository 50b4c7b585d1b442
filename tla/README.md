# A TLA+ verification of mzCache

mzCache frees memory of a backgrounded llama.cpp process by swapping out parts of
its KV cache and weights, and brings them back while the next prompt is already
being decoded. This directory models that machinery and the KV cache it works on,
checks it with TLC on small instances and proves the core of it with TLAPS for
every size.

## The system

| part | source | model |
|---|---|---|
| swap-out ladder | `mzcache_core.cpp` (`swapout_impl`), `mzcache_kv_state.cpp` | `KVLadder` |
| planner | `mzcache_profile_chunks_layers` | `LadderForecast` |
| swap-in bookkeeping | `initialize_layer_sync`, `mzcache_enqueue_decomp_load_chunks`, `finish_swapin_cycle` | `KVLadder` |
| swap-in threads | the four `swapin_generate*` variants, the workers, the gated decode and its failures | `SwapIn`, `LayerGate` |
| thread pool | `mzcache_threadpool.h` | `ThreadPool` |
| compression arenas | `Arena`, `mzcache_offload_arenas`, `clean_after_decompress` | `ArenaStack` |
| chunked restore by direct calls | `mzcache_load_chunks`, `mzcache_decompress_chunks`, their `_profile` variants | `LoadWalk` |
| weights and their dumps | `mzcache_weight.cpp`, `mz_dump_layers.cpp` | `WeightBuffers`; cursor and tasks also in `KVLadder`, `SwapIn` |
| weight multi-buffer | `ggml-backend.cpp`, `ggml-alloc.c` | `WeightBuffers` |
| slot search | `find_slot` in `llama-kv-cache-unified.cpp` | `SlotSearch` |
| cells, chunks, decode, state files | `llama-kv-cache-unified.cpp`, `mzcache_kv_ops.cpp`, `llama-context.cpp`, `decode_chunk_aligned` | `KVCells` |
| Android app, examples | `llama-android.cpp`, `mz_chat.cpp`, `mz_prefill.cpp` | their calling orders: `AppUnload` in `KVLadder`, the calls of `KVCells` and `LadderForecast` |
| compression kernels, device profile, model loader | | not modelled, see the end |

A **swap-out** goes down a ladder until a target share of the resident bytes is
free. Phase 1 compresses chunks into per-layer arenas and stores others in
per-layer files, walking two cursors from the last layer to the first. Phase 2
unloads weight layers, compressing `per_layer_balance` more chunks before each
one. Phase 3 writes the arenas to files. Swap-outs can follow each other; each one
goes on where the last one stopped.

A **swap-in** reloads the arenas, initialises one count per layer (the *layer
sync*) from the cursors, enqueues ALLOC, READ and DECOMP tasks, and starts the
decode, whose backend waits before each layer until the layer's count is zero.

Chunks that the cache adds at run time (*growth*) are registered at once when
nothing is swapped out (a clean ladder) and parked until then otherwise.

Below all this lies llama.cpp's **unified KV cache**: a table of cells, each
holding a token's position. mzCache cuts it into chunks of `TOKENS_PER_CHUNK`
cells, takes a token's chunk from its *position*, and therefore depends on cell
and position being the same number. Batches are cut at chunk boundaries before
they are decoded (`decode_chunk_aligned`), since a write cannot span two chunks.

## The modules

**KVLadder.** State: the two cursors (`cL, cC` compress, `sL, sC` store), the
cumulative counters, the state of each chunk, the store files with the last write
to each slot (of which chunk, in which cycle, and whether all of it was written), arena tops and offloaded bytes, weights, layer
syncs and the queued tasks. Each iteration of a loop of `swapout_impl`,
`mzcache_compress_chunks`, `mzcache_store_chunks` and the enqueue loops is an
action; `pc` names the loop. `StoreOpenFails`, `Phase3Fails` and `Phase2Refused`
are the error paths that the code acts on. A `pwrite` that fails or falls short is one
it does not: `StoreOne` may leave the slot incomplete, and the chunk is marked stored,
its raw copy freed and the counter advanced all the same. `Worker` is a pool worker running a task to its end.
The waits on allocation are left to `SwapIn`. Byte counts are kept, because the
targets are compared with them; `Targets` and `TargetDen` are the shares a caller
may ask for. `SwapinStart` includes the test for opening the first store file, which the
code makes when the decode already runs. Growth is one step, and between the two it
would change cursor and count together, so nothing is lost by that; the code writes them
one after the other without a lock, and a test that falls between these two writes
is not modelled. It can at most open a file the restore does not use, or throw when
there is none. `KVLadderInv` holds the inductive invariant.

**LadderForecast** extends `KVLadder` with the planner, a second copy of the
ladder's loops over counts and nominal sizes. The program asks for a forecast on a
fresh core and then runs the ladder to the same target. The planner is a recursive
operator over its two loops.

**SwapIn / LayerGate.** The main thread goes through the *stages* of one of four
sequences (`Overlap`, `NoPrefillOverlap`, `NoAllocOverlap`, `NoOverlap`, one per
`swapin_generate*` variant) against the workers of the pool and the decode thread; a
stage is a call, a wait or an enqueue loop, whose tasks go out one at a time. It starts
from any stop of the ladder (`Stops`). The counts of the layer syncs are the numbers of
missing pieces; that the code's arithmetic on cursors yields these is
`SyncCountsMissing` of `KVLadder`. The decode may be refused before its graph is
allocated (`DecodeRefused`) or fail while it computes (`DecodeFails`), as `Failures`
allows. `LayerGate` is the abstract promise: pieces return in any order, a layer is
computed only when complete, the decode may fail, and the call returns when all is back
and the decode has ended. `ImplementsGate` is that `SwapIn` implements it, with
`missing <- Missing, next <- layer, failed <- decode = "failed", closed <- Returned`.

**ThreadPool.** Two groups (a DECOMP task enqueues a FREE task), one client that
enqueues, waits for idle and destroys the pool. Critical sections are one step,
except for the gap between a false wait predicate and blocking.

**ArenaStack.** The arenas of one layer, byte by byte, each byte tagged with the
chunk and generation that wrote it, with the swap file and the locks. `pool` is the
number of chunks the pools were sized for.

**LoadWalk.** Chunks that go out and come back by direct calls, in any partial
amounts. A call is one step (it ends by waiting for its workers); what matters is
which chunks its index walks visit. `outC` and `outS` record the order in which
chunks went out, `call` what the last call restored. `mzcache_load_chunks_profile` has two
walks, and `apart` records that they have differed.

**WeightBuffers.** The child slots of the multi-buffer, which layer's tensors point
into which child, the dump files (`none`, `part`, `whole`), how each layer's size compares
with that of layer 0 (which sizes every reload's buffer and read), the main thread's
unload and reload loops, and the ALLOC and READ tasks with their promises. ALLOC
workers insert into the slots under the mutex of `concat_buffer`. A program that is
killed while it writes a dump is `DumpCrash`.

**SlotSearch.** `find_slot` as a loop over `head_cur` and `n_tested`, for any set of
used cells, head and ubatch length.

**KVCells.** The cache with one sequence, as the programs use it that swap: positions by
cell, the caches beside them (`used`, `seq_pos`), `head`, the chunks and their
rows. A row's value is the token it was computed from, `text` is what the rows ought
to hold. A decode goes through `decode_chunk_aligned` (`SubDecode`), `prepare` with
its search (`SlotSearch` by `INSTANCE`), its recovery stack and rollback
(`FindSlot`, `Place`, `Refuse`, `Unwind`, `Prepared`), `apply_ubatch` and `cpy_k`
(`Apply`), and the graph (`ComputeOK`, `ComputeFails`). State files are written and
read range by range and chunk by chunk; `Restart` is a new process at any point,
with whatever the file holds by then.

Definitions named `Name_Fault` are deliberately wrong versions of `Name`. Each
checked property fails when one of them is put in place of the definition it
is named after. No specification uses them.

## The runs

| run | instance | shows |
|---|---|---|
| `ladder` | 2 layers, 2 chunks growing to 3, ratio 1/2, balance 1, step 2, two cycles, I/O faults | the inductive invariant `LadderInv`, the ladder's safety and action properties; swap-outs return if the disk answers and swap-ins complete; 289 710 states |
| `forecast` | 3 layers, 2 to 4 chunks, all targets in 24ths | the planner predicts the ladder to the chunk |
| `swapin` | 2 layers of two compressed and one stored chunk, five stops of the ladder, 2 threads per group and one for FREE, decodes that fail or are refused | three variants implement `LayerGate` and return; `IInv`, the order of graph and restore, a quiet pool at the cleanup, everything restored at the return |
| `pool` | 2 + 1 workers, 3 jobs | the inductive invariant `PoolInv`; no lost task, `wait_idle_all` is exact and returns |
| `arenas` | 3 chunks, pools sized for 1 and for 3 of them, sizes 1 and 4, page 4 | every compressed byte stays where its record says, also with a pool smaller than a raw chunk |
| `load_walk` | 3 layers, 2 chunks, every monotone plan | what comes back has its contents, last out first in; only the two walks of `mzcache_load_chunks_profile` may part, and only under uneven bounds |
| `weights` | 3 layers, 2 + 2 workers, layers of one size or a last layer that is larger or smaller, an interrupted dump | the multi-buffer's slots, owners and count; what an abort may come from; reloads end |
| `slot_search` | 7 cells, every set of used ones, every head and length | every answer is right; the search ends |
| `kv_cells` | 4 cells in chunks of 3, 2 tokens to a ubatch, two tokens | rows, caches and state files stay faithful through failures, rewinds and restarts; writes within a chunk, rollback without trace, refusals only past the end, decodes return; 745 813 states |
| `swapin_no_alloc_overlap`, `swapin_no_graph`, `pool_join` | | **violated**, see below |

*Bounds.* Two layers and three chunks give every kind of cursor move: inside a
layer, over a layer's end, over a layer whose region is empty, and to the end of
the regions. Two cycles let a file slot or a counter go stale. The targets of
`forecast` are fine enough to stop the ladder after every chunk and every layer.
The stops of `swapin` have layers with two, one and no compressed chunk and every kind
of piece out. The arena instance has a second arena, a partly filled last one and
padding that differs from the used bytes. The cache of `kv_cells` fills up, is refused
batches, ends inside its second chunk (`mzcache_kv_ops.cpp:126` rounds the number of
chunks up), and has files of a full chunk, of two and of a part, and sub-batches of
two ubatches. `MaxCycles`, `MaxChunks`, `MaxCrashes` and, in `KVCells`, the limit of
`past` by the cache's size are the only bounds in guards. The theorems below hold
for all sizes.

*Fairness.* The threads of the process are scheduled by the operating system:
every thread that can run does (weak fairness of the main thread, the decode
thread and each pool group). A mutex that becomes free again and again is acquired
in the end (strong fairness in `ThreadPool`). Spurious wakeups are possible and
never assumed. No fairness is assumed of the disk in `FairSpec` of `ladder`: an open may
fail for ever, and so may an offload. What the disk does is a premise of the property:
`SwapsReturn` says that a swap returns if `DiskAnswers`, that is, if an open tried
for ever succeeds in the end and an offload is not refused for ever. Without it a
swap-out does not return: phase 1 asks for the same chunk again
(`mzcache_core.cpp:770-794`), and phase 3 for the same layer (`:834-843`).

*Deadlock* is not checked in the two runs of the pool, where the process ends after
the join, in `slot_search`, where the search ends, in `weights` and `load_walk`, where an
abort ends the process, and in `swapin_no_graph`, whose violated property is the deadlock. In
`ArenaStack` and `SwapIn` the end of a history is an explicit stuttering step (`Lost`,
`Rest`).

## Disagreements between the code and what is said of it

* `swapin_no_graph`: `swapin_generate` waits for the decode's graph allocation
  before it restores anything. A decode that finds no slot, or cannot allocate its
  graph, returns without signalling, and the call hangs.
* `swapin_no_alloc_overlap`: `swapin_generate_no_alloc_overlap` starts the decode
  before `initialize_layer_sync`, so the backend's wait sees no counts, or those of
  the last cycle, and computes layers that are still swapped out.
* `pool_join`: the destructor writes `stop` without the group's mutex; a worker
  about to block misses the notification and is never joined.

Five more observations came out of the modelling and have no run of their own.

* `lock_used` does nothing on an arena that is locked already, so what a second swap-out
  adds to it stays unlocked.
* The two loops of `mzcache_load_chunks_profile`, said to follow the "same rule"
  (`mzcache_kv_state.cpp:1155`), do not: the ALLOC loop enters a layer at the bound of the
  layer before (`:1113`), the READ loop at its own (`:1161`). When a load crosses layers
  with different bounds, a READ task finds no future and throws, or reads into no
  memory, or the ALLOC loop runs out of layers and the function returns with tasks
  queued. All three happen in `load_walk`, and `RawIsLive` says that nothing else
  spoils a restored chunk. The function has no caller.
* A failed or short `pwrite` in `mzcache_store_chunks` is only logged
  (`mzcache_kv_state.cpp:1034-1052`), so on a full disk a chunk is lost.
  `StoredSlotKept` says that this is the only way: no other write gets at its slot.
* A dump that was cut off by a crash passes for a dump: its layer is freed and cannot
  be reloaded.
* `num_bytes_per_layer` is the size of layer 0. A quantisation that gives the first
  layers more bits (`llama-quant.cpp:352`, `:362`) makes later ones smaller, whose whole dumps
  are then too short for the read of layer 0's size; a larger layer does not fit its
  buffer. Either ends the process. With the dump cut off these are all the causes an
  abort has (`AbortsHaveCause`).

## The proofs

| module | content |
|---|---|
| `KVLadderFacts` | the plan of `derive_swapout_plan` (monotone bounds, regions that partition the chunks, the reserve), what the cursors have passed, the steps of a swap-out, and what they do to files and arenas |
| `KVLadderProofs` | the steps of a swap-in, growth, `Next`, and the theorems |
| `SwapInProofs` | the stages of the variants, one lemma per step of the main thread, the decode thread and each pool group, the refinement of `LayerGate` |
| `ThreadPoolProofs` | the steps of the client and of the workers |
| `WeightBuffersProofs` | the multi-buffer and the reload tasks |
| `SlotSearchProofs` | `find_slot` |
| `KVCellsFacts` | lemmas on held cells, chains of slots, the recovery stack, files; the calls between decodes |
| `KVCellsProofs` | the steps of a decode, saving and loading, `Next`, and the theorems |

**The ladder**, for every number of layers and chunks, every ratio, balance, step
and byte size that `LadderAssumption` allows, with growth, failures and any number
of cycles. `LadderInvariant` is `Spec => []IInv`. From it follow `LadderTypes`,
`LadderShapeHolds` (the cursors say exactly what is compressed and stored),
`CursorsStay` (no cursor leaves the layers), `SyncExact` (layer syncs count what is
missing), `StoresFirst` (weights go after the stores), and two action properties:
`GrowthKeepsOff` (growth during a swap-in does not change the plan under a running
restore) and `SwapoutOnlyFrees` (no step of a swap-out lowers the freed bytes).

None of these is inductive alone. That a cursor stays on the layers depends on the
loops never asking for more than their region holds (`LoopInv`), which rests on the
counters being the number of passed chunks (`RestInv`), which needs `LadderShape`
and the monotone bounds (`PlanInv`). The crucial step is phase 2: it asks for
balance chunks out of *all* remaining chunks, and this is a request to the compress
region alone only because every chunk to be stored has been stored. This holds
since phase 1 keeps the balance reserve out of its compressions (`allocate_chunks`)
and only leaves its loop when the store region is exhausted. The proof that the
reserve exists is `PlanReserve`. During a swap-in the counters are not exact (they
are lowered at the end), so `RestoreInv` counts passed chunks by the loops' budgets.

On top of this, `LadderDataInvariant` (`Spec => []LadderInv`) follows the *data*:
`StoredStaysOwn` (the last write to a stored chunk's slot is its own of this cycle, so that
only a failure of that very write can lose it),
`CompressedStaysHeld` (compressed bytes are in the arenas or in the swap file until
they are restored), `GrowthIsCovered` (no growth is lost) and `CountersStayExact`.
`LadderInv` adds four parts to `IInv`. `StoredSlotKept` is inductive with it, because a
slot is the distance from the region's bound and the plan changes only on a clean ladder.
`ArenaInv` says where the compressed bytes are in every phase: outside a swap-in exactly
in one place, during one in memory for as long as `comp_left` is not zero; that an offload
happens only with everything swapped out is what keeps a later compression from
writing to an arena whose layer is already in its file. `GrowthInv` says that
what the plan does not cover is parked in full, `BookInv` that the saved bytes follow the
count of compressed chunks and when store files are open.

**The swap-in**, for every number of layers, chunks and threads, every set of stops and
every way the decode may fail: `SwapInInvariant` (`Spec => []IInv`), and from it
`SwapInTypes`, `AllocationsRegistered`, `ArenasPresent`, `RestoreAfterGraph`,
`CleanIsQuiet` and `ReturnIsComplete`. These hold in all four variants. The invariant has
five parts: the types; `PoolInv`, which task of which piece is still to be enqueued, queued,
running or done; `DataInv`, the memory and promises that go with it; `CountInv`, that
`layer_sync` and `comp_left` count the unfinished pieces of a layer, whose arenas are there; and `StageInv`,
what each wait that the main thread is past has established. The last is what makes the
order of the stages matter: that no arena is freed under a decompression and that the
cleanup meets a quiet pool both come from the counts *and* from which groups were waited for.
`LayersComplete` and the refinement `SwapInImplementsGate` (initial states map to initial
states, every step to a step of `LayerGate` or a stutter) are proved under `SyncsFirst`:
`no_alloc_overlap` is not among the variants. It has to be excluded, since it does compute
layers that are not complete (`swapin_no_alloc_overlap`).

**The thread pool**, for every number of threads and tasks: `PoolInvariant`
(`Spec => []PoolInv`), `PoolTypes` and `PoolDrained`. `DrainedAtStop` needs that the groups
are passed in an order in which no later group can wake an earlier one, and that a group
that was found idle stays so (`ClientInv`); this rests on `active` counting the busy workers
(`WorkInv`) and on no task being lost between queue, worker and `done`, nor between a DECOMP
task and the FREE task it enqueues (`TaskInv`).

**The weight buffers**, for every number of layers, tensors and threads:
`WeightInvariant` ties slots, owners, tasks, promises and the main thread's position
together. `RoomForEveryLayer` (a free slot for every insertion), `EveryBufferOneOwner`,
`ChildrenCounted`, `OpenLayersOwnWeights` and `AbortsHaveCause` follow. Room for an
insertion is a counting fact: unloading a layer empties at least one slot and each
reload fills one, so the invariant has to say which layers still own the slots they
were loaded with and which insertions are under way.

**The slot search**, for every cache: `SearchInvariant` says which starts have been
ruled out, before and after a wrap. `SlotsAreFree`, `RefusalsAreRight` and
`SearchAnswersRight`, their conjunction, follow. The
invariant has three cases because the wrap does not test `n_tested`, and a second one
can begin before the loop gives up.

**The cache**, for every size, chunk size, ubatch size and set of batches:
`CellsInvariant`, and from it `CellsTyped`, `CachesStayExact`, `CellsArePositions`,
`WritesInOneChunk`, `ChunksAlwaysCover`, `PrepareLeavesNothing`, `RowsStayFaithful`,
`NoDefrag`, `FilesLoad` and `RefusalsPastEnd`. At every point the cells are the
positions `0 .. n - 1` in order (`Held`), with `n` given by what the program is doing
(`Count`). To keep that through `prepare`, the recovery stack must cover the placed
ubatches one after the other and remember empty cells (`Stacked`), and the slots
found must be the ones used afterwards (`Chain`). That the search always returns the
cell after the last one used, although it starts at `head` and may wrap, is
`Searched`. That a write stays in its chunk follows from the cuts in *positions*
(`SubBatch`) only together with cell and position being equal. `FileOK` says what a
file holds that was cut off at any point, which is what loading relies on.

The assumptions are the named `ASSUME`s of `KVLadder`, `SwapIn`, `ThreadPool`,
`WeightBuffers`, `SlotSearch` and `KVCells`: that sizes are natural numbers, positive where
the code divides by them or would be empty without, that every pool group has a thread, and
that a compressed chunk is no larger than a raw one. TLC evaluates them in every run.

*Only model-checked:*

* liveness (`SwapsReturn`, `CallReturns`, `QueuedRuns`, `WaitIdleReturns`, `ReloadEnds`,
  `SearchEnds`, `DecodeReturns`): fairness is out of TLAPS's reach;
* `LadderForecast` and `LoadWalk`: the planner and the walks of the load loops are
  recursive operators, and what they compute needs an induction over data;
* `ArenaStack`: where a byte lies in the file is a fold over the arenas before it, and
  what an arena holds a sum over chunks, with the same need. `WritesInPool` speaks of
  each arena alone and could be proved; it is left to TLC.

## Not modelled

* *Compression kernels* (`mzcache/kernels`): numeric code over half-precision
  tensors. `ArenaStack` uses the bound on the size they produce, `KVLadder` and
  `LadderForecast` the nominal size; with CacheGen the size varies and the forecast
  is a heuristic, as its comment says.
* *Device profile*: parsing and measuring. Its results are `RatioNum`, `RatioDen`
  and `Balance`.
* *Model loader hooks*: record the layout of tensors once. The layout within a dump
  and the offsets within a buffer are left out of `WeightBuffers` for the same reason.
* *The cache beyond one sequence*: `seq_cp`, `seq_keep`, `seq_add`, `seq_div`, sliding
  windows, position shifts, transposed V. The programs that swap use one sequence. The
  Android app's `bench_model` decodes several and clears the cache around them; it
  is left out. Defragmentation is
  a state of `KVCells` that is proved unreachable. State files of one sequence and the
  checks on layer count, types and row sizes of a file are left out.
* *A short read of a stored chunk* is logged and the chunk counts as restored; *a
  failed reload of an arena* drops the layer's bytes (`ReloadFails`). The code has
  no recovery from either and claims none. *A store file that cannot be opened for
  reading* throws, and the process ends.
* *The constructor of the thread pool* inserts groups into a map while workers of
  earlier groups look theirs up; that is undefined behaviour with any outcome.
  `ThreadPool` begins when the constructor has returned.
* *Arenas in SVM* and a failing `mlock`; benchmark-only variants of the weight calls.
* *User interface, JNI, sampling, the comparison systems and scripts, and llama.cpp
  where mzCache does not change it or rely on it.*
