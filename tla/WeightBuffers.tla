--------------------------- MODULE WeightBuffers ---------------------------
(***************************************************************************)
(* The model's weights in memory: the multi-buffer whose child slots are   *)
(* emptied when a layer is unloaded and filled again by the ALLOC workers  *)
(* when it is reloaded, the layer dumps on disk, and the READ workers that *)
(* bring a layer's contents back.                                          *)
(*                                                                         *)
(* Loading gives every tensor a child buffer of its own; reloading gives   *)
(* all tensors of a layer one.  The tensors of a layer are allocated and   *)
(* unloaded together, so held[l] stands for the buffers their t->buffer    *)
(* fields name and data[l] for what their t->data fields lead to.          *)
(***************************************************************************)
EXTENDS Integers, FiniteSets

CONSTANTS
    NumLayers,
    NumTensors,      \* num_tensors_per_layer
    NumOther,        \* tensors of the context that belong to no layer
    AllocThreads,    \* workers of CoreType::ALLOC
    ReadThreads,     \* workers of CoreType::READ
    Shapes,          \* how the layers' sizes may compare with num_bytes_per_layer,
                     \* the size of layer 0
    MaxCrashes       \* bound: interruptions of the program that writes the dumps

ASSUME WeightAssumption ==
    /\ NumLayers \in Nat \ {0} /\ NumTensors \in Nat \ {0} /\ NumOther \in Nat
    /\ AllocThreads \in Nat \ {0} /\ ReadThreads \in Nat \ {0}
    /\ Shapes \subseteq {s \in [0 .. NumLayers - 1 -> {"same", "larger", "smaller"}] : s[0] = "same"}
    /\ MaxCrashes \in Nat

Layers == 0 .. NumLayers - 1
Slots == 1 .. NumLayers * NumTensors + NumOther

\* Buffer identities, as addresses: one is used again once it is free.
Buffers == Slots
NoBuffer == 0

VARIABLES
    slots,       \* ctx->buffers
    curN,        \* ctx->cur_n_buffers
    held,        \* the buffers a layer's tensors point to
    data,        \* what they point to: "own" weights, "blank" memory, "none"
    cursor,      \* cur_layer_idx_to_unload
    nUnload,     \* n_cur_unload_layers
    size,        \* this model's layers against num_bytes_per_layer
    dump,        \* a layer's dump file: "none", "part", "whole"
    alloc,       \* the layer's ALLOC task: "no", "queued", "held", "done"
    read,        \* the layer's READ task: "no", "queued", "open", "done"
    promise,     \* weight_alloc_done: "none", "pending", "set"
    sync,        \* weights a layer's LayerSync still counts
    pc,          \* what the main thread does
    at,          \* the layer its loop is at
    crashes

buffers == <<slots, curN, held, data>>
tasks == <<alloc, read, promise, sync>>
vars == <<buffers, cursor, nUnload, size, dump, tasks, pc, at, crashes>>

\* The tensors of layer l are those of the indices from
\* layer_0_tensor_idx + num_tensors_per_layer * l on.
Loaded(l) == NumOther + NumTensors * l + 1 .. NumOther + NumTensors * (l + 1)

Init ==
    /\ slots = [i \in Slots |-> i]
    /\ curN = Cardinality(Slots)
    /\ held = [l \in Layers |-> Loaded(l)]
    /\ data = [l \in Layers |-> "own"]
    /\ cursor = NumLayers - 1
    /\ nUnload = 0
    /\ size \in Shapes
    /\ dump = [l \in Layers |-> "none"]
    /\ alloc = [l \in Layers |-> "no"]
    /\ read = [l \in Layers |-> "no"]
    /\ promise = [l \in Layers |-> "none"]
    /\ sync = [l \in Layers |-> 0]
    /\ pc = "dump" /\ at = 0 /\ crashes = 0

-----------------------------------------------------------------------------
(* The dumps: written by mz_dump_layers, or by the application before its  *)
(* first swap-out.  Both skip a layer whose file exists.                   *)

DumpLayer ==
    /\ pc = "dump" /\ at < NumLayers
    /\ dump' = [dump EXCEPT ![at] = IF @ = "none" THEN "whole" ELSE @]
    /\ at' = at + 1
    /\ UNCHANGED <<buffers, cursor, nUnload, tasks, pc, crashes, size>>

\* The program is killed while it writes a file, and started again.
DumpCrash ==
    /\ pc = "dump" /\ at < NumLayers /\ dump[at] = "none"
    /\ crashes < MaxCrashes
    /\ dump' = [dump EXCEPT ![at] = "part"]
    /\ at' = 0
    /\ crashes' = crashes + 1
    /\ UNCHANGED <<buffers, cursor, nUnload, tasks, pc, size>>

\* The engine needs no dump to run.
StartEngine ==
    /\ pc = "dump"
    /\ pc' = "idle"
    /\ UNCHANGED <<buffers, cursor, nUnload, dump, tasks, at, crashes, size>>

-----------------------------------------------------------------------------
(* Swap-out.                                                               *)

Children == {slots[i] : i \in Slots} \ {NoBuffer}

\* access(fn, R_OK): the file is there.
Dumped(l) == dump[l] # "none"

\* Faulty: the child stays in its slot after it is freed.
Emptied_Kept(B) == slots

\* ggml_backend_multi_buffer_unload_child_buffer for each buffer of B.
Emptied(B) == [i \in Slots |-> IF slots[i] \in B THEN NoBuffer ELSE slots[i]]

\* mzcache_unload_layers(1): refused without a dump, and a failure when a
\* buffer of the layer is not a child.
UnloadLayer ==
    /\ pc = "idle"
    /\ cursor >= 0 /\ Dumped(cursor)
    /\ held[cursor] \subseteq Children
    /\ slots' = Emptied(held[cursor])
    /\ curN' = curN - Cardinality(held[cursor])
    /\ held' = [held EXCEPT ![cursor] = {}]
    /\ data' = [data EXCEPT ![cursor] = "none"]
    /\ cursor' = cursor - 1
    /\ nUnload' = nUnload + 1
    /\ UNCHANGED <<dump, tasks, pc, at, crashes, size>>

-----------------------------------------------------------------------------
(* Swap-in: the main thread.                                               *)

\* Faulty: the first of the unloaded layers is left out.
Missing_Short(l) == IF l > cursor + 1 THEN 1 ELSE 0

\* Faulty: the layer at the cursor, which is in memory, is counted.
Missing_Over(l) == IF l >= cursor THEN 1 ELSE 0

\* What the weights add to a layer's sync.
Missing(l) == IF l > cursor THEN 1 ELSE 0

\* initialize_layer_sync, which also forgets the futures of the last swap-in, then
\* one of the two ways to reload.
SwapinStart ==
    /\ pc = "idle"
    /\ promise' = [l \in Layers |-> "none"]
    /\ sync' = [l \in Layers |-> Missing(l)]
    /\ at' = cursor + 1
    /\ pc' \in {"reload", "alloc_only"}
    /\ UNCHANGED <<buffers, cursor, nUnload, dump, alloc, read, crashes, size>>

\* The loop of mzcache_reload_w_layers.
EnqueueLayer ==
    /\ pc = "reload" /\ at < NumLayers
    /\ promise' = [promise EXCEPT ![at] = "pending"]
    /\ alloc' = [alloc EXCEPT ![at] = "queued"]
    /\ read' = [read EXCEPT ![at] = "queued"]
    /\ at' = at + 1
    /\ UNCHANGED <<buffers, cursor, nUnload, dump, sync, pc, crashes, size>>

EnqueueEnd ==
    /\ pc = "reload" /\ at = NumLayers
    /\ cursor' = NumLayers - 1
    /\ pc' = "finish"
    /\ UNCHANGED <<buffers, nUnload, dump, tasks, at, crashes, size>>

\* mzcache_reload_w_layers_alloc_only: all ALLOC tasks, then a wait for each.
AllocOnly ==
    /\ pc = "alloc_only" /\ at < NumLayers
    /\ promise' = [promise EXCEPT ![at] = "pending"]
    /\ alloc' = [alloc EXCEPT ![at] = "queued"]
    /\ at' = at + 1
    /\ UNCHANGED <<buffers, cursor, nUnload, dump, read, sync, pc, crashes, size>>

AllocOnlyEnd ==
    /\ pc = "alloc_only" /\ at = NumLayers
    /\ \A l \in Layers : l > cursor => promise[l] = "set"
    /\ pc' = "read_only" /\ at' = cursor + 1
    /\ UNCHANGED <<buffers, cursor, nUnload, dump, tasks, crashes, size>>

\* mzcache_reload_w_layers_reload_only: all READ tasks, then a wait for READ.
ReadOnly ==
    /\ pc = "read_only" /\ at < NumLayers
    /\ read' = [read EXCEPT ![at] = "queued"]
    /\ at' = at + 1
    /\ UNCHANGED <<buffers, cursor, nUnload, dump, alloc, promise, sync, pc, crashes, size>>

ReadOnlyEnd ==
    /\ pc = "read_only" /\ at = NumLayers
    /\ \A l \in Layers : read[l] \in {"no", "done"}
    /\ cursor' = NumLayers - 1
    /\ pc' = "finish"
    /\ UNCHANGED <<buffers, nUnload, dump, tasks, at, crashes, size>>

\* finish_swapin_cycle: waits for every layer sync and for the pool.
FinishSwapinCycle ==
    /\ pc = "finish"
    /\ \A l \in Layers : sync[l] = 0
    /\ \A l \in Layers : alloc[l] \in {"no", "done"} /\ read[l] \in {"no", "done"}
    /\ nUnload' = 0
    /\ alloc' = [l \in Layers |-> "no"]
    /\ read' = [l \in Layers |-> "no"]
    /\ pc' = "idle"
    /\ UNCHANGED <<buffers, cursor, dump, promise, sync, at, crashes, size>>

-----------------------------------------------------------------------------
(* Swap-in: the workers.  A group takes its tasks in order.                *)

First(q, l) == q[l] = "queued" /\ \A k \in Layers : k < l => q[k] # "queued"

Running(q, state) == Cardinality({l \in Layers : q[l] = state})

Free == {i \in Slots : slots[i] = NoBuffer}

\* Buffers allocated and not yet inserted.
InFlight == UNION {held[l] : l \in {k \in Layers : alloc[k] = "held"}}

\* The process aborts: a worker threw, or an assertion failed.
Abort ==
    /\ pc' = "dead"
    /\ UNCHANGED <<buffers, cursor, nUnload, dump, tasks, at, crashes, size>>

\* alloc_tensor_range: one buffer, and the layer's tensors placed in it.  A layer
\* that does not fit aborts in ggml_tallocr_alloc.
AllocRange(l) ==
    /\ First(alloc, l) /\ Running(alloc, "held") < AllocThreads
    /\ IF size[l] = "larger"
       THEN Abort
       ELSE \E b \in Buffers \ (Children \union InFlight) :
              /\ held' = [held EXCEPT ![l] = {b}]
              /\ data' = [data EXCEPT ![l] = "blank"]
              /\ alloc' = [alloc EXCEPT ![l] = "held"]
              /\ UNCHANGED <<slots, curN, cursor, nUnload, dump, read, promise, sync, pc, at, crashes, size>>

\* clSVMAlloc fails: the buffer has no base, which ggml_tallocr_new asserts.
AllocFails(l) ==
    /\ First(alloc, l) /\ Running(alloc, "held") < AllocThreads
    /\ pc' = "out_of_memory"
    /\ UNCHANGED <<buffers, cursor, nUnload, dump, tasks, at, crashes, size>>

\* Faulty: the buffers go to the last slots, whatever these hold.
Target_Last(i) == i = NumLayers * NumTensors + NumOther

\* The first slot that is free.
Target(i) == i \in Free /\ \A j \in Free : i <= j

\* Faulty: the count is left as it is.
Counted_Not == curN

\* cur_n_buffers++.
Counted == curN + 1

\* ggml_backend_multi_buffer_concat_buffer under the mutex, and the promise.
\* Without a free slot the buffer is freed and the tensors keep pointing to it.
Concat(l) ==
    /\ alloc[l] = "held"
    /\ IF Free = {}
       THEN UNCHANGED <<slots, curN>>
       ELSE \E i \in Slots, b \in held[l] :
              /\ Target(i)
              /\ slots' = [slots EXCEPT ![i] = b]
              /\ curN' = Counted
    /\ alloc' = [alloc EXCEPT ![l] = "done"]
    /\ promise' = [promise EXCEPT ![l] = "set"]
    /\ UNCHANGED <<held, data, cursor, nUnload, dump, read, sync, pc, at, crashes, size>>

\* weight_read_worker opens the file before it waits for the memory.
OpenDump(l) ==
    /\ First(read, l) /\ Running(read, "open") < ReadThreads
    /\ IF Dumped(l)
       THEN /\ read' = [read EXCEPT ![l] = "open"]
            /\ UNCHANGED <<buffers, cursor, nUnload, dump, alloc, promise, sync, pc, at, crashes, size>>
       ELSE Abort

\* wait_for_weight_allocation returns; it throws when there is no future.
Allocated(l) == promise[l] = "set"

\* The read returns padded_num_bytes_per_layer bytes: the file has as many as layer
\* 0 takes, and the tensors have memory.
ReadsInFull(l) == dump[l] = "whole" /\ size[l] # "smaller" /\ data[l] # "none"

\* weight_read_worker: the wait, read_weight_layer, which throws on a short read,
\* and taskDone.
ReadLayer(l) ==
    /\ read[l] = "open" /\ promise[l] # "pending"
    /\ IF Allocated(l) /\ ReadsInFull(l)
       THEN /\ data' = [data EXCEPT ![l] = IF held[l] \subseteq Children \union InFlight THEN "own" ELSE @]
            /\ sync' = [sync EXCEPT ![l] = @ - 1]
            /\ read' = [read EXCEPT ![l] = "done"]
            /\ UNCHANGED <<slots, curN, held, cursor, nUnload, dump, alloc, promise, pc, at, crashes, size>>
       ELSE Abort

-----------------------------------------------------------------------------
Tool == DumpLayer \/ DumpCrash \/ StartEngine

Main ==
    \/ EnqueueLayer \/ EnqueueEnd
    \/ AllocOnly \/ AllocOnlyEnd \/ ReadOnly \/ ReadOnlyEnd
    \/ FinishSwapinCycle

Alive == pc \notin {"dead", "out_of_memory"}

Worker(l) == Alive /\ (AllocRange(l) \/ Concat(l) \/ OpenDump(l) \/ ReadLayer(l))

Next ==
    \/ Tool \/ UnloadLayer \/ SwapinStart \/ Main
    \/ \E l \in Layers : Worker(l) \/ (Alive /\ AllocFails(l))

Spec == Init /\ [][Next]_vars

\* The main thread and the pool's threads run; nothing else has to happen.
FairSpec == Spec /\ WF_vars(Main) /\ \A l \in Layers : WF_vars(Worker(l))

-----------------------------------------------------------------------------
(* Properties.                                                             *)

\* Types of the slots, tables and tasks.
TypeOK ==
    /\ slots \in [Slots -> Buffers \union {NoBuffer}]
    /\ curN \in Nat
    /\ held \in [Layers -> SUBSET Buffers]
    /\ data \in [Layers -> {"own", "blank", "none"}]
    /\ cursor \in -1 .. NumLayers - 1
    /\ nUnload \in 0 .. NumLayers
    /\ dump \in [Layers -> {"none", "part", "whole"}]
    /\ alloc \in [Layers -> {"no", "queued", "held", "done"}]
    /\ read \in [Layers -> {"no", "queued", "open", "done"}]
    /\ promise \in [Layers -> {"none", "pending", "set"}]
    /\ sync \in [Layers -> 0 .. 1]
    /\ pc \in {"dump", "idle", "reload", "alloc_only", "read_only", "finish", "dead", "out_of_memory"}
    /\ at \in 0 .. NumLayers
    /\ crashes \in 0 .. MaxCrashes

\* The layers whose tensors are in no child buffer.
Detached == {l \in Layers : ~ (held[l] # {} /\ held[l] \subseteq Children)}

\* concat_buffer always finds room: there are at least as many free slots as
\* layers that are out of the multi-buffer, however many of them the ALLOC
\* workers are bringing back at once.
SlotsSuffice == Cardinality(Detached) <= Cardinality(Free)

\* cur_n_buffers is the number of child buffers in memory.
CountExact == curN = Cardinality(Slots \ Free)

\* A buffer is a child at most once, belongs to one layer at most, and a layer in
\* memory has all its buffers among the children, unless a worker is about to
\* insert them: unload_child_buffer finds what it looks for, and frees nothing
\* that another layer uses.
OneOwner ==
    /\ \A i, j \in Slots : slots[i] = slots[j] /\ slots[i] # NoBuffer => i = j
    /\ \A k, l \in Layers : k # l => held[k] \intersect held[l] = {}
    /\ \A l \in Layers : IF alloc[l] = "held" THEN held[l] \intersect Children = {}
                                              ELSE held[l] \subseteq Children

\* A layer the backend may compute has its own weights: in a swap-in one whose
\* sync is down to zero, otherwise one that is not unloaded.  A dump that was cut
\* off, a layer of another size than the first and a failed allocation stop the
\* process instead.
OpenMeansOwn ==
    /\ pc \in {"reload", "alloc_only", "read_only", "finish"} =>
         \A l \in Layers : sync[l] = 0 => data[l] = "own"
    /\ pc = "idle" => \A l \in Layers : l <= cursor => data[l] = "own"

\* The process aborts only over a dump that was cut off, which reads short, or in a
\* model whose layers differ in size: a larger layer than the first does not fit its
\* buffer, the dump of a smaller one reads short.  It never aborts because a worker
\* found no file, no future or no memory.
NoSpuriousAbort ==
    pc = "dead" => \E l \in Layers : size[l] # "same" \/ dump[l] = "part"

\* Every swap-in ends, with all layers restored or with an abort: no worker waits
\* for ever for an allocation, whatever the number of threads.
ReloadEnds == pc = "reload" \/ pc = "alloc_only" ~> pc = "idle" \/ ~ Alive

-----------------------------------------------------------------------------
(* The inductive invariant.                                                *)

\* A layer's memory, tasks and dump agree.
LayerInv(l) ==
    /\ data[l] = "none" <=> held[l] = {}
    /\ alloc[l] = "queued" => held[l] = {}
    /\ alloc[l] = "held" => \E b \in Buffers : held[l] = {b}
    /\ alloc[l] = "done" => held[l] # {} /\ promise[l] = "set"
    /\ alloc[l] \in {"queued", "held"} => promise[l] = "pending"
    /\ read[l] # "no" => alloc[l] # "no"
    /\ read[l] \in {"queued", "open"} => sync[l] = 1
    /\ data[l] = "none" \/ alloc[l] # "no" => dump[l] # "none"

\* A layer outside a swap-in.
IdleInv(l) ==
    /\ alloc[l] = "no" /\ read[l] = "no" /\ sync[l] = 0
    /\ IF l <= cursor THEN data[l] = "own" ELSE held[l] = {}

\* A layer while the main thread's loops hand out the tasks.
LoopInv(l) ==
    /\ l <= cursor => alloc[l] = "no" /\ read[l] = "no" /\ sync[l] = 0 /\ data[l] = "own"
    /\ l > cursor => IF read[l] = "done" THEN data[l] = "own" ELSE sync[l] = 1
    /\ pc = "reload" /\ l >= at => alloc[l] = "no" /\ read[l] = "no" /\ held[l] = {}
    /\ pc = "alloc_only" => /\ read[l] = "no"
                            /\ l >= at => alloc[l] = "no" /\ held[l] = {}
                            /\ l > cursor /\ l < at => alloc[l] # "no"
    /\ pc = "read_only" => /\ l > cursor => alloc[l] = "done"
                           /\ l >= at => read[l] = "no"

PhaseInv ==
    /\ pc \in {"dump", "idle"} => /\ nUnload = NumLayers - 1 - cursor
                                  /\ \A l \in Layers : IdleInv(l)
    /\ pc \in {"reload", "alloc_only", "read_only"} => /\ at > cursor
                                                      /\ \A l \in Layers : LoopInv(l)
    /\ pc = "finish" => /\ cursor = NumLayers - 1
                        /\ \A l \in Layers : sync[l] = 0 => data[l] = "own"

\* The inductive invariant: slots, owners and counts, what each layer's tasks
\* have reached, and where the main thread is.
IInv ==
    /\ TypeOK /\ OneOwner /\ CountExact /\ SlotsSuffice
    /\ (\A l \in Layers : LayerInv(l)) /\ PhaseInv /\ NoSpuriousAbort
=============================================================================
