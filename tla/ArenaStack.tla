----------------------------- MODULE ArenaStack -----------------------------
(***************************************************************************)
(* The compression arenas of ONE layer, byte by byte: compression appends  *)
(* a chunk to the last arena (mzcache_compress_chunks), decompression      *)
(* takes the newest chunks and trims (mzcache_decompress_chunks,           *)
(* clean_after_decompress), offload writes the arenas page-padded to the   *)
(* layer's swap file and reload reads them back, and the end of a swap-out *)
(* locks the used bytes (mlock_resident_arenas).                           *)
(*                                                                         *)
(* A byte holds the chunk and the generation of that chunk's contents that *)
(* wrote it.  K and V of a chunk are adjacent and share the arena, so a    *)
(* chunk is one extent here.                                               *)
(***************************************************************************)
EXTENDS Integers, Sequences, FiniteSets, FiniteSetsExt, SequencesExt, Functions

CONSTANTS
    NumChunks,       \* chunks of the compress region of the layer
    PoolChunks,      \* what num_chunks_per_tensor may be when the pool is sized
    Bound,           \* comp_bound: worst-case compressed bytes of a chunk
    Raw,             \* kv_raw_size
    Sizes,           \* compressed sizes the backend may produce
    Page,            \* 4096
    IoFaults         \* swap-file operations may fail

RoundUp(n) == ((n + Page - 1) \div Page) * Page

ASSUME ArenaAssumption ==
    /\ NumChunks \in Nat \ {0} /\ PoolChunks \subseteq 1 .. NumChunks
    /\ Raw \in Nat \ {0} /\ Bound \in 1 .. Raw /\ Page \in Nat \ {0}
    /\ Sizes \subseteq 1 .. Bound /\ Sizes # {} /\ IoFaults \in BOOLEAN

Chunks == 0 .. NumChunks - 1
Untouched == <<-1, 0>>

VARIABLES
    pool,        \* num_chunks_per_tensor when the pool was sized
    mode,        \* "out" (swap-out running), "rest" (it returned), "in"
    arenas,      \* arenas[L]: sequence of [mem, top, locked]
    chunk,       \* compressed_chunks[C], state and generation of contents
    cursor,      \* cur_chunk_idx_to_compress
    offloaded,   \* next_layer_to_offload has passed this layer
    used,        \* offload_used_bytes_[L]
    file,        \* bytes of the swap file
    failed       \* a reload has failed (its data is gone)

vars == <<pool, mode, arenas, chunk, cursor, offloaded, used, file, failed>>

\* arena_bytes: fixed by the constructor, although chunks may grow later.
Cap == RoundUp(pool * Bound)

NewArena == [mem |-> [b \in 0 .. Cap - 1 |-> Untouched], top |-> 0, locked |-> 0]

NoRecord == [comp |-> FALSE, id |-> 0, off |-> 0, size |-> 0, gen |-> 0]

Init ==
    /\ pool \in PoolChunks
    /\ mode = "out"
    /\ arenas = <<>>
    /\ chunk = [c \in Chunks |-> NoRecord]
    /\ cursor = NumChunks - 1
    /\ offloaded = FALSE /\ used = <<>> /\ file = <<>> /\ failed = FALSE

Compressed == {c \in Chunks : chunk[c].comp}

-----------------------------------------------------------------------------
(* Swap-out.                                                               *)

\* Faulty: room for the worst case is not required.
Full_Exact(a) == a.top >= Cap

\* cur->top + kv_raw_size > cur->cap
Full(a) == a.top + Raw > Cap

\* The arenas after "allocate on demand if none" and "create a new arena when
\* out of space"; the last one takes the chunk.
WithRoom ==
    LET some == IF arenas = <<>> THEN <<NewArena>> ELSE arenas
    IN  IF Full(Last(some)) THEN Append(some, NewArena) ELSE some

\* mzcache_compress_chunks, one chunk compressed to n bytes.
Compress(n) ==
    LET c == cursor
        stack == WithRoom
        a == Last(stack)
        written == [b \in 0 .. Cap - 1 |->
                       IF b \in a.top .. a.top + n - 1 THEN <<c, chunk[c].gen>> ELSE a.mem[b]]
    IN  /\ mode = "out" /\ ~offloaded /\ cursor >= 0
        /\ arenas' = [stack EXCEPT ![Len(stack)] = [a EXCEPT !.mem = written, !.top = @ + n]]
        /\ chunk' = [chunk EXCEPT ![c].comp = TRUE, ![c].id = Len(stack),
                                  ![c].off = a.top, ![c].size = n]
        /\ cursor' = cursor - 1
        /\ UNCHANGED <<mode, offloaded, used, file, failed>>

\* What full_pwrite of the padded used bytes puts in the file; the padding is
\* zeroed in the pool first.
Padded(a) == [b \in 1 .. RoundUp(a.top) |-> IF b <= a.top THEN a.mem[b - 1] ELSE Untouched]

Written(k) == FlattenSeq([i \in 1 .. k |-> Padded(arenas[i])])

UsedBytes(k) == [i \in 1 .. k |-> arenas[i].top]

\* mzcache_offload_arenas on this layer.
Offload ==
    /\ mode = "out" /\ ~offloaded /\ cursor < 0
    /\ file' = Written(Len(arenas))
    /\ used' = UsedBytes(Len(arenas))
    /\ arenas' = <<>> /\ offloaded' = TRUE
    /\ UNCHANGED <<mode, chunk, cursor, failed>>

\* The write of arena k + 1 fails: the arenas stay, the layer does not count
\* as offloaded.
OffloadFails ==
    /\ IoFaults
    /\ mode = "out" /\ ~offloaded /\ cursor < 0
    /\ \E k \in 0 .. Len(arenas) - 1 : file' = Written(k) /\ used' = UsedBytes(k)
    /\ UNCHANGED <<mode, arenas, chunk, cursor, offloaded, failed>>

\* Arena::lock_used
LockUsed(a) ==
    IF a.locked > 0 \/ a.top = 0 THEN a ELSE [a EXCEPT !.locked = RoundUp(a.top)]

\* The end of swapout: mlock_resident_arenas.
SwapoutEnd ==
    /\ mode = "out"
    /\ arenas' = [i \in DOMAIN arenas |-> LockUsed(arenas[i])]
    /\ mode' = "rest"
    /\ UNCHANGED <<chunk, cursor, offloaded, used, file, failed>>

\* The next call of swapout.
SwapoutStart ==
    /\ mode = "rest"
    /\ mode' = "out"
    /\ UNCHANGED <<arenas, chunk, cursor, offloaded, used, file, failed>>

-----------------------------------------------------------------------------
(* Swap-in.                                                                *)

\* Faulty: arenas are read from the unpadded end of the one before.
FileOffset_Unpadded(i) == FoldLeft(LAMBDA x, y : x + y, 0, SubSeq(used, 1, i - 1))

\* off += padded for each arena before the i-th
FileOffset(i) == FoldLeft(LAMBDA x, y : x + RoundUp(y), 0, SubSeq(used, 1, i - 1))

Reloaded(i) ==
    [mem |-> [b \in 0 .. Cap - 1 |->
                IF b < RoundUp(used[i]) THEN file[FileOffset(i) + b + 1] ELSE Untouched],
     top |-> used[i], locked |-> 0]

\* mzcache_reload_all_arenas on this layer: nothing to do when the layer was
\* not offloaded; a layer without arenas is skipped and keeps its file.
Reload ==
    /\ mode = "rest" /\ ~failed
    /\ mode' = "in" /\ offloaded' = FALSE
    /\ IF offloaded /\ used # <<>>
       THEN arenas' = [i \in DOMAIN used |-> Reloaded(i)] /\ file' = <<>>
       ELSE UNCHANGED <<arenas, file>>
    /\ UNCHANGED <<chunk, cursor, used, failed>>

\* A short read: the arenas of the layer are dropped and the file unlinked.
ReloadFails ==
    /\ IoFaults
    /\ mode = "rest" /\ offloaded /\ used # <<>>
    /\ mode' = "in" /\ offloaded' = FALSE /\ failed' = TRUE
    /\ arenas' = <<>> /\ file' = <<>>
    /\ UNCHANGED <<chunk, cursor, used>>

\* Faulty: the top of the last arena stays where it was.
Trim_KeepTop(left) == SubSeq(arenas, 1, Max({chunk[c].id : c \in left}))

\* clean_after_decompress, when the chunks in left stay compressed: drop the
\* arenas above the newest remaining chunk and lower the top of its arena.
Trim(left) ==
    LET last == Max({chunk[c].id : c \in left})
        end  == Max({chunk[c].off + chunk[c].size : c \in {x \in left : chunk[x].id = last}})
    IN  [i \in 1 .. last |-> IF i = last THEN [arenas[i] EXCEPT !.top = end] ELSE arenas[i]]

\* cur_chunk_idx_to_compress++ for each chunk
CursorAfter(k) == cursor + k

\* Decompression of the k newest chunks.  The bytes are overwritten by the
\* owner of the raw chunk before it is compressed again.
Restore(k) ==
    LET back == cursor + 1 .. cursor + k
        left == Compressed \ back
    IN  /\ arenas' = IF left = {} THEN <<>> ELSE Trim(left)
        /\ chunk' = [c \in Chunks |->
                        IF c \in back THEN [NoRecord EXCEPT !.gen = 1 - chunk[c].gen]
                        ELSE chunk[c]]
        /\ cursor' = CursorAfter(k)

\* mzcache_decompress_chunks(k)
DecompressSome ==
    /\ mode = "rest" /\ ~offloaded
    /\ \E k \in 1 .. Cardinality(Compressed) : Restore(k)
    /\ UNCHANGED <<mode, offloaded, used, file, failed>>

\* The rest of a swap-in: every compressed chunk is decompressed.
DecompressAll ==
    /\ mode = "in" /\ ~failed
    /\ Restore(Cardinality(Compressed))
    /\ mode' = "rest"
    /\ UNCHANGED <<offloaded, used, file, failed>>

\* After a failed reload the program is lost: nothing is promised.
Lost == failed /\ UNCHANGED vars

Next == /\ \/ \E n \in Sizes : Compress(n)
           \/ Offload \/ OffloadFails \/ SwapoutEnd \/ SwapoutStart
           \/ Reload \/ ReloadFails \/ DecompressSome \/ DecompressAll \/ Lost
        /\ UNCHANGED pool

Spec == Init /\ [][Next]_vars

-----------------------------------------------------------------------------
(* Properties.                                                             *)

\* Where the bytes of chunk c are now: its arena, or its part of the file.
ByteOf(c, b) ==
    IF offloaded THEN file[FileOffset(chunk[c].id) + chunk[c].off + b + 1]
    ELSE arenas[chunk[c].id].mem[chunk[c].off + b]

HasByte(c, b) ==
    IF offloaded
    THEN chunk[c].id \in DOMAIN used
         /\ FileOffset(chunk[c].id) + chunk[c].off + b + 1 \in DOMAIN file
    ELSE chunk[c].id \in DOMAIN arenas
         /\ chunk[c].off + b \in DOMAIN arenas[chunk[c].id].mem

\* However compressions, partial decompressions, offloads (also failed ones)
\* and reloads alternate, every byte of a compressed chunk is where its record
\* (stack_id, offset, comp_size) says and still holds the current contents.
DataIntact ==
    ~failed => \A c \in Compressed : \A b \in 0 .. chunk[c].size - 1 :
                  HasByte(c, b) /\ ByteOf(c, b) = <<c, chunk[c].gen>>

\* Compression never writes beyond a pool, also when the pool is smaller than
\* a raw chunk (FlexGen sizes it by the compressed size) and after the chunks
\* have grown; nor does the zero padding of an offload.
WritesInPool ==
    \A i \in DOMAIN arenas : arenas[i].top <= Cap /\ RoundUp(arenas[i].top) <= Cap

\* The arenas hold nothing but compressed chunks: tops are the bytes of the
\* chunks in them, and no arena outlives its last chunk.  (A first arena that
\* is too small for a raw chunk stays empty.)
NothingKept ==
    mode # "in" /\ ~offloaded /\ ~failed =>
      /\ \A i \in DOMAIN arenas :
            arenas[i].top =
              MapThenSumSet(LAMBDA c : chunk[c].size, {c \in Compressed : chunk[c].id = i})
      /\ arenas # <<>> => Last(arenas).top > 0
=============================================================================
