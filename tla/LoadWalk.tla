------------------------------ MODULE LoadWalk ------------------------------
(***************************************************************************)
(* Swapping chunks out and back by direct calls of mzcache_kv_state, as    *)
(* mz_prefill and mz_save_state_v2 do it without swapin_generate: any      *)
(* number of chunks is compressed or stored, and any number of them comes  *)
(* back through mzcache_load_chunks, mzcache_decompress_chunks, their      *)
(* _profile variants or the enqueue functions with the same walks.         *)
(*                                                                         *)
(* A call is one step: it ends by waiting for its workers.  What matters   *)
(* is which chunks its index walks visit, what the workers do with a chunk *)
(* whose memory or future is not there, and the layer's file descriptor.   *)
(***************************************************************************)
EXTENDS Integers, Sequences, SequencesExt

CONSTANTS
    NumLayers,
    NumChunks,       \* num_chunks_per_tensor
    Plans            \* the chunk_bound vectors explored

Layers == 0 .. NumLayers - 1
Chunks == Layers \X (0 .. NumChunks - 1)

\* The shape derive_swapout_plan gives: KVLadderFacts proves it.
ASSUME WalkAssumption ==
    /\ NumLayers \in Nat \ {0} /\ NumChunks \in Nat \ {0}
    /\ Plans \subseteq [Layers -> 0 .. NumChunks]
    /\ \A p \in Plans : \A k, l \in Layers : k <= l => p[k] >= p[l]

VARIABLES
    bound,       \* chunk_bound
    comp,        \* <<cur_layer_idx_to_compress, cur_chunk_idx_to_compress>>
    store,       \* <<cur_layer_idx_to_store, cur_chunk_idx_to_store>>
    nComp,       \* n_cur_comp_chunks
    nStore,      \* n_cur_store_chunks
    state,       \* KVstate of each chunk
    data,        \* what the pointer table leads to: "live", "blank", "none"
    futures,     \* keys of kv_alloc_done
    fds,         \* layer_fds: "closed", "write", "read"
    outC, outS,  \* history: chunks compressed and stored, in order
    call,        \* history: the chunks restored by the last call, in order
    apart,       \* history: the two walks of an mzcache_load_chunks_profile differed
    dead         \* a worker threw: the process has terminated

cursors == <<comp, store, nComp, nStore>>
vars == <<bound, cursors, state, data, futures, fds, outC, outS, call, apart, dead>>

NoCall == <<>>

Init ==
    /\ bound \in Plans
    /\ comp = <<NumLayers - 1, bound[NumLayers - 1] - 1>>
    /\ store = <<NumLayers - 1, NumChunks - 1>>
    /\ nComp = 0 /\ nStore = 0
    /\ state = [x \in Chunks |-> "Raw"]
    /\ data = [x \in Chunks |-> "live"]
    /\ futures = {}
    /\ fds = [l \in Layers |-> "closed"]
    /\ outC = <<>> /\ outS = <<>>
    /\ call = NoCall
    /\ apart = FALSE /\ dead = FALSE

-----------------------------------------------------------------------------
(* The walks.  Each step takes a cursor to the next chunk; a walk is the   *)
(* sequence of chunks that n steps visit.                                  *)

RECURSIVE Walk(_, _, _)
Walk(Step(_), from, n) ==
    IF n = 0 THEN <<>> ELSE LET x == Step(from) IN <<x>> \o Walk(Step, x, n - 1)

\* The skip at the top of the loop of mzcache_compress_chunks.
RECURSIVE CompressAt(_)
CompressAt(x) ==
    IF x[2] >= 0 THEN x ELSE CompressAt(<<x[1] - 1, bound[x[1] - 1] - 1>>)

\* The skip at the top of the loop of mzcache_store_chunks.
RECURSIVE StoreAt(_)
StoreAt(x) ==
    IF x[2] >= bound[x[1]] THEN x ELSE StoreAt(<<x[1] - 1, NumChunks - 1>>)

Below(x) == <<x[1], x[2] - 1>>

RECURSIVE Downwards(_, _, _)
Downwards(At(_), from, n) ==
    IF n = 0 THEN <<>> ELSE LET x == At(from) IN <<x>> \o Downwards(At, Below(x), n - 1)

\* "advance the index" of the decompression loops.
DecompStep(x) ==
    IF x[2] + 1 >= bound[x[1]] THEN <<x[1] + 1, 0>> ELSE <<x[1], x[2] + 1>>

\* Faulty: a layer is entered at its first chunk.
LoadStep_Zero(x) ==
    IF x[2] + 1 = NumChunks THEN <<x[1] + 1, 0>> ELSE <<x[1], x[2] + 1>>

\* "advance the index (same as mzcache_load_chunks)": a layer is entered at its
\* own bound.
LoadStep(x) ==
    IF x[2] + 1 = NumChunks THEN <<x[1] + 1, bound[x[1] + 1]>> ELSE <<x[1], x[2] + 1>>

\* "next (L,C)" of the allocation loop of mzcache_load_chunks_profile: a layer
\* is entered at the bound of the layer that is left.  Past the last layer the
\* function has returned.
ProfileStep(x) ==
    IF x[1] = NumLayers THEN x
    ELSE IF x[2] + 1 = NumChunks THEN <<x[1] + 1, bound[x[1]]>> ELSE <<x[1], x[2] + 1>>

-----------------------------------------------------------------------------
(* Swapping out.                                                           *)

RECURSIVE RegionSize(_)
RegionSize(L) == IF L < 0 THEN 0 ELSE bound[L] + RegionSize(L - 1)

MaxComp == RegionSize(NumLayers - 1)
MaxStore == NumLayers * NumChunks - MaxComp

\* mzcache_compress_chunks(n); its callers ask for no more than the region holds.
CompressChunks(n) ==
    LET w == Downwards(CompressAt, comp, n)
    IN  /\ n <= MaxComp - nComp
        /\ comp' = Below(Last(w))
        /\ nComp' = nComp + n
        /\ state' = [x \in Chunks |-> IF x \in ToSet(w) THEN "Compressed" ELSE state[x]]
        /\ data' = [x \in Chunks |-> IF x \in ToSet(w) THEN "none" ELSE data[x]]
        /\ outC' = outC \o w
        /\ call' = NoCall
        /\ UNCHANGED <<bound, store, nStore, futures, fds, outS, apart, dead>>

\* mzcache_store_chunks(n): opens a layer's file when it comes to the layer and
\* closes it when it leaves it.
StoreChunks(n) ==
    LET w == Downwards(StoreAt, store, n)
    IN  /\ n <= MaxStore - nStore
        /\ store' = Below(Last(w))
        /\ nStore' = nStore + n
        /\ state' = [x \in Chunks |-> IF x \in ToSet(w) THEN "Stored" ELSE state[x]]
        /\ data' = [x \in Chunks |-> IF x \in ToSet(w) THEN "none" ELSE data[x]]
        /\ fds' = [l \in Layers |-> IF l = Last(w)[1] THEN "write"
                                    ELSE IF l \in Last(w)[1] .. store[1] THEN "closed" ELSE fds[l]]
        /\ outS' = outS \o w
        /\ call' = NoCall
        /\ UNCHANGED <<bound, comp, nComp, futures, outC, apart, dead>>

\* mzcache_close_stored_files.
CloseStoredFiles ==
    /\ \E l \in Layers : fds[l] # "closed"
    /\ fds' = [l \in Layers |-> "closed"]
    /\ call' = NoCall
    /\ UNCHANGED <<bound, cursors, state, data, futures, outC, outS, apart, dead>>

-----------------------------------------------------------------------------
(* Restoring.                                                              *)

\* Faulty: the file of the cursor's layer is opened only if it is closed.
OpenedBy_IfClosed(w) ==
    [l \in Layers |-> IF l \in {x[1] : x \in ToSet(w)} /\ fds[l] = "closed" THEN "read" ELSE fds[l]]

\* The descriptors a load has open while it reads the chunks of w: the file of
\* the cursor's layer is opened unless the cursor is at the end of the layer, even
\* if the writer's descriptor is still there; that of a layer the walk enters is
\* opened unless it is open.
OpenedBy(w) ==
    LET first == IF store[2] < NumChunks - 1 THEN {store[1]} ELSE {}
        entered == {x[1] : x \in ToSet(w)} \ first
    IN  [l \in Layers |-> IF l \in first \/ (l \in entered /\ fds[l] = "closed")
                          THEN "read" ELSE fds[l]]

\* The chunks of w whose contents kv_read_worker finds in their file.
Readable(w) ==
    {x \in Chunks : x \in ToSet(w) /\ state[x] = "Stored" /\ OpenedBy(w)[x[1]] = "read"}

\* The chunks of w whose contents kv_decomp_worker finds in their arena.
Decodable(w) == {x \in Chunks : x \in ToSet(w) /\ state[x] = "Compressed"}

\* What a restore does once its walks are known: A is allocated, the workers
\* take the chunks of w and find the contents of those in found.  A worker whose
\* chunk has no future throws in wait_for_kv_allocation, and the process ends;
\* a failed pread is only logged.
Restore(A, w, found) ==
    LET mem == [x \in Chunks |-> IF x \in A THEN "blank" ELSE data[x]]
    IN  /\ futures' = futures \union A
        /\ dead' = (ToSet(w) \ futures' # {})
        /\ data' = [x \in Chunks |-> IF x \in found /\ mem[x] # "none" THEN "live" ELSE mem[x]]
        /\ state' = [x \in Chunks |-> IF x \in ToSet(w) THEN "Raw" ELSE state[x]]
        /\ call' = w

\* mzcache_load_chunks(n), and mzcache_enqueue_load_chunks(n) with the wait for
\* READ and clean_after_read(n) that follow it in mz_save_state_v2.
LoadChunks(n) ==
    LET w == Walk(LoadStep, store, n)
    IN  /\ n <= nStore
        /\ Restore(ToSet(w), w, Readable(w))
        /\ fds' = [l \in Layers |-> "closed"]
        /\ store' = Last(w)
        /\ nStore' = nStore - n
        /\ outS' = SubSeq(outS, 1, Len(outS) - n)
        /\ UNCHANGED <<bound, comp, nComp, outC, apart>>

\* mzcache_load_chunks_profile(n): two walks, one for ALLOC, one for READ.  The
\* first may run out of layers ("too many chunks") with its tasks already queued.
LoadChunksProfile(n) ==
    LET a == Walk(ProfileStep, store, n)
        w == Walk(LoadStep, store, n)
        A == ToSet(a) \intersect Chunks
    IN  /\ n <= nStore
        /\ apart' = (apart \/ a # w)
        /\ IF ToSet(a) \subseteq Chunks
           THEN /\ Restore(A, w, Readable(w))
                /\ fds' = [l \in Layers |-> "closed"]
                /\ store' = Last(w)
                /\ nStore' = nStore - n
                /\ outS' = SubSeq(outS, 1, Len(outS) - n)
           ELSE /\ Restore(A, <<>>, {})
                /\ UNCHANGED <<fds, store, nStore, outS>>
        /\ UNCHANGED <<bound, comp, nComp, outC>>

\* mzcache_decompress_chunks(n), and mzcache_enqueue_decomp_chunks(n) with the
\* wait for DECOMP and clean_after_decompress(n) that follow it.
DecompressChunks(n) ==
    LET w == Walk(DecompStep, comp, n)
    IN  /\ n <= nComp
        /\ Restore(ToSet(w), w, Decodable(w))
        /\ comp' = Last(w)
        /\ nComp' = nComp - n
        /\ outC' = SubSeq(outC, 1, Len(outC) - n)
        /\ UNCHANGED <<bound, store, nStore, fds, outS, apart>>

\* mzcache_decompress_chunks_profile(n): ALLOC, the wait for it and DECOMP each
\* walk the chunks with cursors of their own, by the same rule.
DecompressChunksProfile(n) == DecompressChunks(n)

Next ==
    \/ ~dead /\ \E n \in 1 .. NumLayers * NumChunks :
        \/ CompressChunks(n) \/ StoreChunks(n)
        \/ LoadChunks(n) \/ LoadChunksProfile(n)
        \/ DecompressChunks(n) \/ DecompressChunksProfile(n)
    \/ ~dead /\ CloseStoredFiles

Spec == Init /\ [][Next]_vars

-----------------------------------------------------------------------------
(* Properties.                                                             *)

\* Whatever went out and came back is there: a chunk marked Raw has memory with its
\* contents, and no worker died waiting for memory nobody asked for.  The exception
\* is mzcache_load_chunks_profile, whose ALLOC and READ walks come apart when a load
\* crosses layers, and then only where the plan gives layers different bounds.
RawIsLive ==
    /\ ~apart => ~dead /\ \A x \in Chunks : state[x] = "Raw" => data[x] = "live"
    /\ apart => \E l \in Layers \ {0} : bound[l] # bound[l - 1]

\* The last chunks out are the first ones in: a restore of n chunks, through
\* whichever function, takes the newest n of its kind, newest first, for any
\* interleaving of partial calls.
LastOutFirstIn ==
    [][\/ IsPrefix(call', Reverse(outC))
       \/ IsPrefix(call', Reverse(outS))]_vars
=============================================================================
