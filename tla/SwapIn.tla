------------------------------- MODULE SwapIn -------------------------------
(***************************************************************************)
(* One swap-in: the main thread runs a variant of swapin_generate, the     *)
(* decode thread computes the layers behind their layer syncs, and the     *)
(* groups of the thread pool run the ALLOC, READ, DECOMP and FREE tasks.   *)
(*                                                                         *)
(* A variant is a sequence of stages, in the order of the code.  A stage   *)
(* is one call (initialize_layer_sync), one wait (wait_graph; the name of  *)
(* a pool group stands for wait_idle of that group) or one enqueue loop,   *)
(* whose tasks are enqueued one at a time in the order of the restore      *)
(* cursors.  A piece is <<kind, layer, index>>.  The pieces that may be    *)
(* out together are the positions a ladder can stop at (KVLadder): the     *)
(* last ones in layer order.  The thread pool is used through its          *)
(* interface only (its condition variables: module ThreadPool).            *)
(***************************************************************************)
EXTENDS Integers, Sequences, FiniteSets

CONSTANTS
    NumLayers,       \* num_layers
    CompPer,         \* chunks of the compress region of a layer
    StorePer,        \* chunks of the store region of a layer
    Stops,           \* how many chunks are compressed, stored, layers unloaded
    Workers,         \* threads of each pool group
    Flows,           \* the swapin_generate variants considered
    Failures         \* <<flow, how the decode of that flow may fail>>

Groups == {"ALLOC", "READ", "DECOMP", "FREE"}
AllFlows == {"overlap", "no_prefill_overlap", "no_alloc_overlap", "no_overlap"}

ASSUME SwapInAssumption ==
    /\ NumLayers \in Nat \ {0} /\ CompPer \in Nat \ {0} /\ StorePer \in Nat \ {0}
    /\ Stops \subseteq (0 .. NumLayers * CompPer) \X (0 .. NumLayers * StorePer)
                       \X (0 .. NumLayers)
    /\ Workers \in [Groups -> Nat \ {0}]
    /\ Flows \subseteq AllFlows
    /\ Failures \subseteq Flows \X {"refused", "computing"}

Layers == 0 .. NumLayers - 1

Pieces == ({"decomp"} \X Layers \X (0 .. CompPer - 1))
          \cup ({"load"} \X Layers \X (0 .. StorePer - 1))
          \cup ({"weight"} \X Layers \X {0})
LayerOf(x) == x[2]

VARIABLES
    flow,        \* the variant that runs
    pc,          \* the position of the main thread in its stages
    todo,        \* <<group, piece>>: what the current loop has still to enqueue
    decode,      \* the decode thread: "off", "start", "run", "done", "failed"
    layer,       \* the next layer it computes
    graph,       \* g_graph_alloc_promise is set
    sync,        \* layer_sync: <<>> or one remaining count per layer
    compLeft,    \* comp_left[]
    out,         \* the pieces swapped out when the swap-in starts
    mem,         \* "gone", "alloc" (memory back, contents not) or "back"
    promises,    \* kv_alloc_done, weight_alloc_done: registered pieces
    granted,     \* pieces whose allocation promise is set
    arenas,      \* layers whose compressed bytes are in memory
    queue,       \* ThreadGroup::tasks
    running,     \* tasks a worker of the group has taken
    counted      \* tasks that did their work but not yet taskDone()

mainVars == <<pc, todo>>
decodeVars == <<decode, layer, graph>>
dataVars == <<mem, arenas, promises, granted>>
poolVars == <<queue, running, counted>>
vars == <<flow, out, mainVars, decodeVars, sync, compLeft, dataVars, poolVars>>

-----------------------------------------------------------------------------
(* The stages of the variants.                                             *)

\* Faulty: the restore is enqueued without waiting for the graph allocation.
Overlap_NoGraphWait ==
    <<"initialize_layer_sync", "reload_all_arenas", "async_decode",
      "load", "decomp", "weight", "get_decode",
      "wait_syncs", "ALLOC", "READ", "DECOMP", "FREE", "clean">>

\* Faulty: wait_idle_all leaves FREE out.
Overlap_NoFree ==
    <<"initialize_layer_sync", "reload_all_arenas", "async_decode", "wait_graph",
      "load", "decomp", "weight", "get_decode",
      "wait_syncs", "ALLOC", "READ", "DECOMP", "clean">>

\* Faulty: takes the end of the decode for the end of the restore.
Overlap_Trusting ==
    <<"initialize_layer_sync", "reload_all_arenas", "async_decode", "wait_graph",
      "load", "decomp", "weight", "get_decode", "clean">>

\* Faulty: the weights are not reloaded.
Overlap_NoWeights ==
    <<"initialize_layer_sync", "reload_all_arenas", "async_decode", "wait_graph",
      "load", "decomp", "get_decode",
      "wait_syncs", "ALLOC", "READ", "DECOMP", "FREE", "clean">>

\* swapin_generate, with the loops of mzcache_enqueue_decomp_load_chunks and
\* mzcache_reload_w_layers, and finish_swapin_cycle at the end.
Overlap ==
    <<"initialize_layer_sync", "reload_all_arenas", "async_decode", "wait_graph",
      "load", "decomp", "weight", "get_decode",
      "wait_syncs", "ALLOC", "READ", "DECOMP", "FREE", "clean">>

\* swapin_generate_no_prefill_overlap: the decode is called, not started.
NoPrefillOverlap ==
    <<"initialize_layer_sync", "reload_all_arenas",
      "load", "decomp", "weight", "wait_syncs", "async_decode", "get_decode",
      "wait_syncs", "ALLOC", "READ", "DECOMP", "FREE", "clean">>

\* swapin_generate_no_alloc_overlap.  mzcache_reload_w_layers_alloc_only and
\* mzcache_enqueue_kv_alloc_only wait for what they allocate; the waits that
\* follow them in the code find it allocated.
NoAllocOverlap ==
    <<"async_decode", "wait_graph", "initialize_layer_sync", "reload_all_arenas",
      "weight_alloc", "await_weight", "decomp_alloc", "load_alloc", "await_kv",
      "decomp_only", "load_only", "weight_only", "READ", "get_decode",
      "wait_syncs", "ALLOC", "READ", "DECOMP", "FREE", "clean">>

\* swapin_generate_no_overlap
NoOverlap ==
    <<"initialize_layer_sync", "reload_all_arenas",
      "weight_alloc", "await_weight", "decomp_alloc", "load_alloc", "await_kv",
      "decomp_only", "load_only", "weight_only", "READ",
      "wait_syncs", "async_decode", "get_decode",
      "wait_syncs", "ALLOC", "READ", "DECOMP", "FREE", "clean">>

Code(f) == CASE f = "overlap"            -> Overlap
             [] f = "no_prefill_overlap" -> NoPrefillOverlap
             [] f = "no_alloc_overlap"   -> NoAllocOverlap
             [] f = "no_overlap"         -> NoOverlap

\* The stage at position p of variant f.
StageOf(f, p) == IF p <= Len(Code(f)) THEN Code(f)[p] ELSE "returned"
Stage == StageOf(flow, pc)

\* Stage s enqueues tasks of group g for the pieces of this kind.
Enqueues(s, g, kind) ==
    \/ s = kind /\ g \in {"ALLOC", IF kind = "decomp" THEN "DECOMP" ELSE "READ"}
    \/ <<s, g, kind>> \in {<<"load_alloc", "ALLOC", "load">>,
                           <<"load_only", "READ", "load">>,
                           <<"decomp_alloc", "ALLOC", "decomp">>,
                           <<"decomp_only", "DECOMP", "decomp">>,
                           <<"weight_alloc", "ALLOC", "weight">>,
                           <<"weight_only", "READ", "weight">>}

JobsOf(s) == {j \in Groups \X out : Enqueues(s, j[1], j[2][1])}

\* The cursors go through the pieces of a kind in the order of the layers.
PerLayer(kind) == CASE kind = "decomp" -> CompPer
                    [] kind = "load"   -> StorePer
                    [] kind = "weight" -> 1
Position(x) == x[2] * PerLayer(x[1]) + x[3]

\* In a loop that enqueues two tasks a piece the allocation is the first.
Rank(j) == 2 * Position(j[2]) + (IF j[1] = "ALLOC" THEN 0 ELSE 1)

-----------------------------------------------------------------------------
\* The last n pieces of a kind.
LastPieces(kind, n) ==
    {x \in Pieces : x[1] = kind /\ Position(x) >= NumLayers * PerLayer(kind) - n}

\* Any stop of the ladder, on the first swap-in of the core (layer_sync is
\* empty) or on a later one (the counts of the last cycle are all 0), with
\* the arenas of the compressed chunks resident or offloaded.
Init ==
    /\ flow \in Flows
    /\ \E s \in Stops : out = LastPieces("decomp", s[1]) \cup LastPieces("load", s[2])
                              \cup LastPieces("weight", s[3])
    /\ arenas \in {{}, {x[2] : x \in {y \in out : y[1] = "decomp"}}}
    /\ pc = 1 /\ todo = {}
    /\ decode = "off" /\ layer = 0 /\ graph = FALSE
    /\ sync \in {<<>>, [i \in Layers |-> 0]}
    /\ compLeft = [i \in Layers |-> 0]
    /\ mem = [x \in Pieces |-> IF x \in out THEN "gone" ELSE "back"]
    /\ promises = {} /\ granted = {}
    /\ queue = [g \in Groups |-> <<>>]
    /\ running = [g \in Groups |-> {}] /\ counted = {}

-----------------------------------------------------------------------------
(* The main thread.                                                        *)

\* The main thread goes on to the next stage.
Advance == pc' = pc + 1 /\ todo' = JobsOf(StageOf(flow, pc + 1))

OfLayer(i, kinds) == {x \in out : x[2] = i /\ x[1] \in kinds}

\* The counts come from the cursors in the code; KVLadder shows that they are
\* the numbers of pieces that are out.
InitializeLayerSync ==
    /\ Stage = "initialize_layer_sync" /\ Advance
    /\ sync' = [i \in Layers |-> Cardinality(OfLayer(i, {"decomp", "load", "weight"}))]
    /\ compLeft' = [i \in Layers |-> Cardinality(OfLayer(i, {"decomp"}))]
    /\ promises' = {} /\ granted' = {}
    /\ UNCHANGED <<flow, out, decodeVars, mem, arenas, poolVars>>

ReloadAllArenas ==
    /\ Stage = "reload_all_arenas" /\ Advance
    /\ arenas' = {x[2] : x \in {y \in out : y[1] = "decomp"}}
    /\ UNCHANGED <<flow, out, decodeVars, sync, compLeft, mem, promises, granted,
                   poolVars>>

AsyncDecode ==
    /\ Stage = "async_decode" /\ Advance
    /\ decode' = "start"
    /\ UNCHANGED <<flow, out, layer, graph, sync, compLeft, dataVars, poolVars>>

\* The next task of an enqueue loop.  An ALLOC task's promise is registered
\* just before the task is enqueued.
Enqueue ==
    /\ \E j \in todo :
         /\ \A k \in todo : Rank(j) <= Rank(k)
         /\ todo' = todo \ {j}
         /\ queue' = [queue EXCEPT ![j[1]] = Append(@, j[2])]
         /\ promises' = IF j[1] = "ALLOC" THEN promises \cup {j[2]} ELSE promises
    /\ UNCHANGED <<flow, out, pc, decodeVars, sync, compLeft, mem, arenas, granted,
                   running, counted>>

Loops == {"load", "decomp", "weight", "load_alloc", "decomp_alloc", "weight_alloc",
          "load_only", "decomp_only", "weight_only"}

LoopEnds ==
    /\ Stage \in Loops /\ todo = {} /\ Advance
    /\ UNCHANGED <<flow, out, decodeVars, sync, compLeft, dataVars, poolVars>>

Idle(g) == queue[g] = <<>> /\ running[g] = {}

\* wait_for_layer_sync of every layer: no count goes up, so the waits end when
\* all are down.  The same holds for the waits on allocations.
SyncDown(i) == i \in DOMAIN sync => sync[i] <= 0

\* The waits of the main thread, each blocking until its condition holds.
Wait ==
    /\ \/ Stage = "wait_graph" /\ graph
       \/ Stage = "get_decode" /\ decode \in {"done", "failed"}
       \/ Stage = "await_weight" /\ {x \in out : x[1] = "weight"} \subseteq granted
       \/ Stage = "await_kv" /\ {x \in out : x[1] \in {"decomp", "load"}} \subseteq granted
       \/ Stage = "wait_syncs" /\ \A i \in Layers : SyncDown(i)
       \/ Stage \in Groups /\ Idle(Stage)
    /\ Advance
    /\ UNCHANGED <<flow, out, decodeVars, sync, compLeft, dataVars, poolVars>>

\* clean_after_decompress and clean_after_read.
Clean ==
    /\ Stage = "clean" /\ Advance
    /\ arenas' = {x[2] : x \in {y \in Pieces : y[1] = "decomp" /\ mem[y] # "back"}}
    /\ UNCHANGED <<flow, out, decodeVars, sync, compLeft, mem, promises, granted,
                   poolVars>>

Main == \/ InitializeLayerSync \/ ReloadAllArenas \/ AsyncDecode \/ Enqueue
        \/ LoopEnds \/ Wait \/ Clean

-----------------------------------------------------------------------------
(* The decode thread.                                                      *)

\* process_ubatch: graph allocation succeeds and signals the promise.
GraphAllocated ==
    /\ decode = "start"
    /\ decode' = "run" /\ graph' = TRUE
    /\ UNCHANGED <<flow, out, mainVars, layer, sync, compLeft, dataVars, poolVars>>

AfterLayer(i) == IF i + 1 = NumLayers THEN "done" ELSE "run"

\* The backend waits for the layer's sync, if there is a layer_sync at all.
ComputeLayer ==
    /\ decode = "run"
    /\ SyncDown(layer)
    /\ layer' = layer + 1
    /\ decode' = AfterLayer(layer)
    /\ UNCHANGED <<flow, out, mainVars, graph, sync, compLeft, dataVars, poolVars>>

\* llama_context::decode returns before its graph is allocated: no slot for
\* the batch, no output buffer, or ggml_backend_sched_alloc_graph fails.
DecodeRefused ==
    /\ <<flow, "refused">> \in Failures
    /\ decode = "start"
    /\ decode' = "failed"
    /\ UNCHANGED <<flow, out, mainVars, layer, graph, sync, compLeft, dataVars,
                   poolVars>>

\* graph_compute fails or is aborted at some layer, or a later sub-batch of
\* the decode is refused; the swap-in goes on.
DecodeFails ==
    /\ <<flow, "computing">> \in Failures
    /\ decode = "run"
    /\ decode' = "failed"
    /\ UNCHANGED <<flow, out, mainVars, layer, graph, sync, compLeft, dataVars,
                   poolVars>>

Decode == GraphAllocated \/ ComputeLayer \/ DecodeRefused \/ DecodeFails

-----------------------------------------------------------------------------
(* The workers.                                                            *)

Take(g) ==
    /\ queue[g] # <<>>
    /\ Cardinality(running[g]) < Workers[g]
    /\ running' = [running EXCEPT ![g] = @ \cup {Head(queue[g])}]
    /\ queue' = [queue EXCEPT ![g] = Tail(@)]
    /\ UNCHANGED <<flow, out, mainVars, decodeVars, sync, compLeft, dataVars, counted>>

\* kv_alloc_worker, weight_alloc_worker
RunAlloc(x) ==
    /\ mem' = [mem EXCEPT ![x] = "alloc"]
    /\ granted' = granted \cup {x}
    /\ running' = [running EXCEPT !["ALLOC"] = @ \ {x}]
    /\ UNCHANGED <<flow, out, mainVars, decodeVars, sync, compLeft, arenas, promises,
                   queue, counted>>

\* kv_read_worker, weight_read_worker up to taskDone()
RunRead(x) ==
    /\ x \notin counted
    /\ x \in granted
    /\ mem' = [mem EXCEPT ![x] = "back"]
    /\ counted' = counted \cup {x}
    /\ UNCHANGED <<flow, out, mainVars, decodeVars, sync, compLeft, arenas, promises,
                   granted, queue, running>>

\* Faulty: every chunk of the layer frees the arenas.
LastOfLayer_Any(i) == compLeft[i] >= 1

LastOfLayer(i) == compLeft[i] = 1

\* kv_decomp_worker up to taskDone(): the layer's last chunk hands the arenas
\* to the FREE group.
RunDecomp(x) ==
    /\ x \notin counted
    /\ x \in granted
    /\ mem' = [mem EXCEPT ![x] = "back"]
    /\ compLeft' = [compLeft EXCEPT ![x[2]] = @ - 1]
    /\ queue' = IF LastOfLayer(x[2])
                THEN [queue EXCEPT !["FREE"] = Append(@, <<"free", x[2], 0>>)]
                ELSE queue
    /\ counted' = counted \cup {x}
    /\ UNCHANGED <<flow, out, mainVars, decodeVars, sync, arenas, promises, granted,
                   running>>

\* Faulty: a task counts its layer down twice.
CountDown_Twice(i) == sync[i] - 2

\* LayerSync::taskDone
CountDown(i) == sync[i] - 1

\* taskDone() of a READ or DECOMP task, and the worker is free again.
TaskDone(g, x) ==
    /\ x \in counted
    /\ counted' = counted \ {x}
    /\ running' = [running EXCEPT ![g] = @ \ {x}]
    /\ sync' = [sync EXCEPT ![x[2]] = CountDown(x[2])]
    /\ UNCHANGED <<flow, out, mainVars, decodeVars, compLeft, dataVars, queue>>

\* free_layer_arenas
RunFree(x) ==
    /\ arenas' = arenas \ {x[2]}
    /\ running' = [running EXCEPT !["FREE"] = @ \ {x}]
    /\ UNCHANGED <<flow, out, mainVars, decodeVars, sync, compLeft, mem, promises,
                   granted, queue, counted>>

Worker(g) ==
    \/ Take(g)
    \/ \E x \in running[g] :
         \/ g = "ALLOC" /\ RunAlloc(x)
         \/ g = "READ" /\ (RunRead(x) \/ TaskDone(g, x))
         \/ g = "DECOMP" /\ (RunDecomp(x) \/ TaskDone(g, x))
         \/ g = "FREE" /\ RunFree(x)

-----------------------------------------------------------------------------

Returned == Stage = "returned"

\* The call has returned; nothing more happens in this cycle.
Rest == Returned /\ UNCHANGED vars

Next == Main \/ Decode \/ (\E g \in Groups : Worker(g)) \/ Rest

\* Every thread that can run does: the threads of a pool group run their
\* tasks, the decode thread and the main thread their code.
Spec == /\ Init /\ [][Next]_vars
        /\ WF_vars(Main) /\ WF_vars(Decode)
        /\ \A g \in Groups : WF_vars(Worker(g))

-----------------------------------------------------------------------------
(* Properties.                                                             *)

Queued(g) == {queue[g][k] : k \in DOMAIN queue[g]}
Tasks == Pieces \cup ({"free"} \X Layers \X {0})

\* Type correctness of a swap-in's state.
TypeOK ==
    /\ flow \in Flows /\ out \subseteq Pieces
    /\ pc \in Nat \ {0} /\ todo \subseteq JobsOf(Stage)
    /\ decode \in {"off", "start", "run", "done", "failed"} /\ layer \in 0 .. NumLayers
    /\ graph \in BOOLEAN
    /\ sync = <<>> \/ sync \in [Layers -> Int]
    /\ compLeft \in [Layers -> Int]
    /\ mem \in [Pieces -> {"gone", "alloc", "back"}]
    /\ promises \subseteq out /\ granted \subseteq promises
    /\ arenas \subseteq Layers
    /\ queue \in [Groups -> Seq(Tasks)] /\ running \in [Groups -> SUBSET Tasks]
    /\ counted \subseteq out

Missing == {x \in Pieces : mem[x] # "back"}

Gate == INSTANCE LayerGate WITH
    missing <- Missing, next <- layer, closed <- Returned, failed <- decode = "failed"

\* A swap-in implements LayerGate: no layer is computed before all of its
\* chunks and weights are back, and the call returns only when everything is
\* back and the decode has ended (docs/INTEGRATION.md on ggml-opencl: layer
\* sync).
ImplementsGate == Gate!Spec

\* The decode thread never computes a layer with a piece missing.
ComputedComplete ==
    [][layer' # layer => \A x \in Missing : LayerOf(x) # layer]_vars

\* A worker that waits for an allocation finds its future registered (else
\* wait_for_kv_allocation throws and enqueue's wrapper aborts the process).
FuturesRegistered ==
    running["READ"] \cup running["DECOMP"] \subseteq promises

\* No worker decompresses from an arena that is not in memory.
ArenaPresent ==
    \A x \in running["DECOMP"] \ counted : x[2] \in arenas

\* The pool only touches pieces that graph allocation can no longer disturb
\* (docs/INTEGRATION.md: swapin_generate must not enqueue decompress/load jobs
\* until the decode's graph allocation is done).
GraphBeforeRestore ==
    decode = "start" => \A g \in {"ALLOC", "READ", "DECOMP"} : Idle(g)

\* When clean_after_decompress runs no task is queued or running: it and
\* free_layer_arenas never work on the same arenas.
QuietAtClean == Stage = "clean" => \A g \in Groups : Idle(g)

\* Whatever becomes of the decode, a swapin_generate that returns has every
\* chunk and weight back and keeps no compressed copy: it is finish_swapin_cycle
\* that waits for the restore, not the end of the decode.
RestoredAtReturn == Returned => Missing = {} /\ arenas = {}

\* The call returns, also when the decode fails: its result is only logged.
CallReturns == <>Returned

\* The result of a decode that has ended is fetched (mzcache_core.cpp: "Wait
\* for decode to finish and fetch the result").
ResultFetched ==
    decode \in {"done", "failed"} ~> \E p \in 1 .. pc - 1 : StageOf(flow, p) = "get_decode"

-----------------------------------------------------------------------------
(* The inductive invariant behind the safety properties.                   *)

\* The main thread has gone past stage s.
Before(f, p, s) == \E q \in 1 .. p - 1 : StageOf(f, q) = s
Passed(s) == Before(flow, pc, s)

\* The main thread has enqueued the task of group g for piece x.
Sent(g, x) ==
    \E p \in 1 .. pc : Enqueues(StageOf(flow, p), g, x[1]) /\ (p = pc => <<g, x>> \notin todo)

\* The group whose task brings the contents of a piece back.
Restorer(x) == IF x[1] = "decomp" THEN "DECOMP" ELSE "READ"

InPool(g) == Queued(g) \cup running[g]

Unfinished(i) == {x \in out : x[2] = i /\ (mem[x] # "back" \/ x \in counted)}
Compressed(i) == {x \in out : x[2] = i /\ x[1] = "decomp" /\ mem[x] # "back"}

\* What the main thread has sent and what the pool holds: a task is in the
\* pool at most once, an allocation before the task that waits for it.
PoolInv ==
    /\ \A x \in out :
         <<"ALLOC", x>> \in todo /\ Enqueues(Stage, Restorer(x), x[1])
         => <<Restorer(x), x>> \in todo
    /\ \A x \in InPool("ALLOC") : x \in promises \ granted
    /\ \A g \in {"READ", "DECOMP"} : \A x \in InPool(g) :
         x \in out /\ g = Restorer(x) /\ Sent(g, x) /\ (mem[x] # "back" \/ x \in counted)
    /\ \A g \in {"READ", "DECOMP"} : Queued(g) \cap counted = {}
    /\ \A g \in {"ALLOC", "READ", "DECOMP"} :
         /\ \A k, n \in DOMAIN queue[g] : queue[g][k] = queue[g][n] => k = n
         /\ Queued(g) \cap running[g] = {}
    /\ \A x \in InPool("FREE") : Compressed(x[2]) = {}

\* What has become of the pieces.
DataInv ==
    /\ \A x \in out : x \in promises <=> Sent("ALLOC", x)
    /\ \A x \in out : mem[x] = "gone" <=> x \notin granted
    /\ \A x \in Pieces \ out : mem[x] = "back"
    /\ \A x \in out : mem[x] = "back" => Sent(Restorer(x), x)
    /\ \A x \in counted : mem[x] = "back" /\ x \in running[Restorer(x)]

\* The counts of initialize_layer_sync, and the arenas.
CountInv ==
    /\ Passed("initialize_layer_sync") =>
         /\ sync \in [Layers -> Int]
         /\ \A i \in Layers : sync[i] = Cardinality(Unfinished(i))
         /\ \A i \in Layers : compLeft[i] = Cardinality(Compressed(i))
    /\ Passed("reload_all_arenas") =>
         \A i \in Layers : Compressed(i) # {} => i \in arenas

\* What a stage that is past leaves behind.
StageInv ==
    /\ Passed("wait_syncs") => Missing = {} /\ counted = {}
    /\ Passed("FREE") => \A g \in Groups : Idle(g)
    /\ Passed("clean") => arenas = {}
    /\ decode = "off" <=> ~Passed("async_decode")
    /\ decode = "start" => StageOf(flow, pc - 1) = "async_decode"
    /\ decode \in {"off", "start"} => layer = 0 /\ ~graph
    /\ decode = "run" => layer < NumLayers
    /\ decode = "done" => layer = NumLayers
    /\ Passed("get_decode") => decode \in {"done", "failed"}

IInv == TypeOK /\ PoolInv /\ DataInv /\ CountInv /\ StageInv
=============================================================================
