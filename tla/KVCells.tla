----------------------------- MODULE KVCells ------------------------------
(***************************************************************************)
(* llama.cpp's unified KV cache over mzCache's chunks, as the mz programs  *)
(* use it: one sequence, extended by decode_chunk_aligned, cut back by     *)
(* seq_rm, cleared, saved to a state file and restored from one.           *)
(*                                                                         *)
(* A cell's row stands for its K and V rows in every layer.  Chunk c holds *)
(* the rows of the cells c * T .. c * T + T - 1.  The value of a row is    *)
(* the token it was computed from; text is the token list the rows ought   *)
(* to hold.  The model has no sliding window, so the branch of             *)
(* apply_ubatch that overwrites cells is left out: SlotIsFree of SlotSearch *)
(* says that it is never taken.                                            *)
(***************************************************************************)
EXTENDS Integers, Sequences, FiniteSets

CONSTANTS
    Size,            \* cells.size()
    T,               \* TOKENS_PER_CHUNK
    UBatch,          \* cparams.n_ubatch
    Tokens,          \* token values
    Batches          \* the token lists of the program's batches

ASSUME SizesAssumption ==
    Size \in Nat \ {0} /\ T \in Nat \ {0} /\ UBatch \in Nat \ {0}
ASSUME BatchesAssumption == Batches \subseteq Seq(Tokens) \ {<< >>}

VARIABLES
    pos,             \* cells.pos: the position a cell holds, None if it is empty
    used,            \* cells.used
    seqPos,          \* cells.seq_pos[0]
    head,            \* head
    nChunks,         \* n_chunks_alloc
    row,             \* the rows in the chunks, by cell
    lastChunk,       \* last_chunk_idx, which the copy kernel writes through
    past,            \* the program's n_past
    text,            \* the tokens decoded and not removed since
    file,            \* the state file
    pc,              \* what the program is doing
    batch,           \* its batch
    start, end,      \* the sub-batch that decode_chunk_aligned passes on
    at,              \* the first token of the current ubatch
    heads,           \* the slots prepare found
    states,          \* prepare's recovery stack
    headCur, tested, slot,     \* find_slot
    io               \* chunk_write and chunk_read: chunk, range, rows read

cells == <<pos, used, seqPos, head>>
chunks == <<nChunks, row, lastChunk>>
program == <<past, text, file>>
call == <<batch, start, end, at, heads, states>>
search == <<headCur, tested, slot>>
vars == <<cells, chunks, program, pc, call, search, io>>

Cells == 0 .. Size - 1
None == -1
Zero == "zero"       \* a row of a chunk that was just allocated or cleared
NoFile == [n |-> 0, pos |-> << >>, rows |-> << >>, text |-> << >>, done |-> FALSE]
NoIO == [ci |-> 0, lo |-> 0, hi |-> 0, got |-> 0]

\* split_simple: the tokens of the ubatch that starts at at.
UbatchLen == IF end - at < UBatch THEN end - at ELSE UBatch

Search == INSTANCE SlotSearch WITH need <- UbatchLen

SeqPosMax == IF seqPos = {} THEN -1 ELSE CHOOSE p \in seqPos : \A q \in seqPos : q <= p

\* Chunks that hold n cells.
ChunksFor(n) == (n + T - 1) \div T

-----------------------------------------------------------------------------
(* Operations of the cache.                                                *)

\* cells.reset(), head = 0.
ResetCells ==
    /\ pos' = [c \in Cells |-> None]
    /\ used' = {} /\ seqPos' = {} /\ head' = 0

\* mz_grow_chunks succeeds: the chunks of the first n cells exist.  The limit of
\* the chunk table is not reached: the constructor refuses a larger cache.
Grows(n) == nChunks' = IF ChunksFor(n) <= nChunks THEN nChunks ELSE ChunksFor(n)

\* The rows after that: those of new chunks are zero.
Grown(n) ==
    [c \in Cells |-> IF c >= nChunks * T /\ c < ChunksFor(n) * T THEN Zero ELSE row[c]]

\* apply_ubatch: the ubatch's positions into the cells from h on.
PlaceAt(h) ==
    /\ pos' = [c \in Cells |-> IF c >= h /\ c < h + UbatchLen
                               THEN past + at + (c - h) ELSE pos[c]]
    /\ used' = used \union (h .. h + UbatchLen - 1)
    /\ seqPos' = seqPos \union (past + at .. past + at + UbatchLen - 1)
    /\ head' = h + UbatchLen

\* cells.set: the cells from state's slot on get their old contents.
Recover(state) ==
    LET slotCells == state.new .. state.new + state.len - 1 IN
    /\ pos' = [c \in Cells |-> IF c \in slotCells THEN state.pos[c] ELSE pos[c]]
    /\ used' = (used \ slotCells) \union {c \in slotCells : state.pos[c] # None}
    /\ seqPos' = (seqPos \ {pos[c] : c \in slotCells})
                     \union {state.pos[c] : c \in {d \in slotCells : state.pos[d] # None}}
    /\ head' = state.old

\* Faulty: the head stays after the cells that were freed.
SeqRm_HeadStays(p) ==
    LET gone == {c \in Cells : pos[c] >= p} IN
    /\ pos' = [c \in Cells |-> IF c \in gone THEN None ELSE pos[c]]
    /\ used' = used \ gone
    /\ seqPos' = seqPos \ {pos[c] : c \in gone}
    /\ head' = head

\* seq_rm(0, p, -1): the cells whose positions are at least p become empty.
SeqRm(p) ==
    LET gone == {c \in Cells : pos[c] >= p} IN
    /\ pos' = [c \in Cells |-> IF c \in gone THEN None ELSE pos[c]]
    /\ used' = used \ gone
    /\ seqPos' = seqPos \ {pos[c] : c \in gone}
    /\ head' = IF \E c \in gone : c < head
               THEN CHOOSE c \in gone : \A d \in gone : c <= d
               ELSE head

-----------------------------------------------------------------------------
(* decode_chunk_aligned and llama_context::decode.                         *)

\* The locals of a decode that returns.
Forgotten ==
    /\ batch' = << >> /\ start' = 0 /\ end' = 0 /\ at' = 0
    /\ heads' = << >> /\ states' = << >>
    /\ headCur' = 0 /\ tested' = 0 /\ slot' = Search!NoSlot

Init ==
    /\ pos = [c \in Cells |-> None] /\ used = {} /\ seqPos = {} /\ head = 0
    /\ nChunks = 1 /\ row = [c \in Cells |-> Zero] /\ lastChunk = 0
    /\ past = 0 /\ text = << >> /\ file = NoFile
    /\ pc = "idle" /\ batch = << >> /\ start = 0 /\ end = 0 /\ at = 0
    /\ heads = << >> /\ states = << >>
    /\ headCur = 0 /\ tested = 0 /\ slot = Search!NoSlot
    /\ io = NoIO

\* The program decodes a batch of its next positions.  The app's test of the
\* context limit, made with n_past - 1, lets a batch end one past it.
Decode(b) ==
    /\ pc = "idle"
    /\ past + Len(b) <= Size + 1
    /\ batch' = b /\ start' = 0 /\ pc' = "split"
    /\ UNCHANGED <<cells, chunks, program, end, at, heads, states, search, io>>

\* A failing decode.  mz_chat keeps its n_past; the app's chat advances its own
\* by the prompt all the same.
Fail ==
    /\ pc' = "idle"
    /\ past' \in {past, past + Len(batch)}
    /\ Forgotten

\* The end of the sub-batch: the next position that begins a chunk.
SubEnds(e) == e = Len(batch) \/ (e < Len(batch) /\ (past + e) % T = 0)

\* Faulty: a batch may start anywhere.
SubDecode_Anywhere ==
    /\ pc = "split" /\ start < Len(batch)
    /\ end' \in start + 1 .. Len(batch)
    /\ SubEnds(end') /\ \A d \in start + 1 .. end' - 1 : ~ SubEnds(d)
    /\ at' = start /\ pc' = "find"
    /\ UNCHANGED <<cells, chunks, program, batch, start, heads, states, search, io>>

\* The next sub-batch, which must start where the sequence ends.
SubDecode ==
    /\ pc = "split" /\ start < Len(batch)
    /\ IF past + start = SeqPosMax + 1
       THEN /\ end' \in start + 1 .. Len(batch)
            /\ SubEnds(end') /\ \A d \in start + 1 .. end' - 1 : ~ SubEnds(d)
            /\ at' = start /\ pc' = "find"
            /\ UNCHANGED <<past, batch, start, heads, states, search>>
       ELSE Fail
    /\ UNCHANGED <<cells, chunks, text, file, io>>

\* Every sub-batch is in: decode returns 0.
Decoded ==
    /\ pc = "split" /\ start = Len(batch)
    /\ pc' = "idle" /\ past' = past + Len(batch)
    /\ Forgotten
    /\ UNCHANGED <<cells, chunks, text, file, io>>

\* prepare: find_slot for the next ubatch.
FindSlot ==
    /\ pc = "find"
    /\ headCur' = Search!StartAt /\ tested' = 0 /\ slot' = Search!Begun
    /\ pc' = "search"
    /\ UNCHANGED <<cells, chunks, program, call, io>>

SearchStep ==
    /\ pc = "search"
    /\ UNCHANGED <<pos, seqPos, chunks, program, pc, call, io>>
    /\ Search!Step

\* Faulty: the recovery stack is pushed after the ubatch was placed.
Remembered_Late(h) ==
    [old |-> h + UbatchLen, new |-> h, len |-> UbatchLen,
     pos |-> [c \in Cells |-> IF c >= h /\ c < h + UbatchLen
                              THEN past + at + (c - h) ELSE pos[c]]]

\* The entry of the recovery stack for a ubatch placed from h on.  Only the slot's
\* cells are looked at again.
Remembered(h) ==
    [old |-> head, new |-> h, len |-> UbatchLen, pos |-> pos]

\* A slot: remember its cells, place the ubatch, growing the chunks.
Place ==
    /\ pc = "search" /\ slot \in Cells
    /\ heads' = Append(heads, slot)
    /\ states' = Append(states, Remembered(slot))
    /\ Grows(slot + UbatchLen) /\ row' = Grown(slot + UbatchLen)
    /\ PlaceAt(slot)
    /\ at' = at + UbatchLen
    /\ pc' = IF at' = end THEN "unwind" ELSE "find"
    /\ UNCHANGED <<lastChunk, program, batch, start, end, search, io>>

\* No slot for this ubatch: prepare fails.
Refuse ==
    /\ pc = "search" /\ slot = Search!NoSlot
    /\ pc' = "unwind"
    /\ UNCHANGED <<cells, chunks, program, call, search, io>>

\* Growing fails for want of memory: the program ends.  When a ubatch is
\* processed later its chunk is there already.
GrowFails ==
    /\ pc = "search" /\ slot \in Cells /\ ChunksFor(slot + UbatchLen) > nChunks
    /\ pc' = "ended"
    /\ UNCHANGED <<cells, chunks, program, call, search, io>>

\* prepare takes back what it placed, the last ubatch first.
Unwind ==
    /\ pc = "unwind" /\ states # << >>
    /\ Recover(states[Len(states)])
    /\ states' = SubSeq(states, 1, Len(states) - 1)
    /\ UNCHANGED <<chunks, program, pc, batch, start, end, at, heads, search, io>>

\* Faulty: a batch that was refused is tried again, as if the optimisation had
\* moved something.
Prepared_Again ==
    /\ pc = "unwind" /\ states = << >>
    /\ at' = start
    /\ \/ /\ at = end /\ pc' = "process" /\ UNCHANGED heads
       \/ /\ at < end /\ pc' = "find" /\ heads' = << >>
    /\ UNCHANGED <<cells, chunks, program, batch, start, end, states, search, io>>

\* prepare returns the slots, or fails.  Then the cache is optimised, which
\* moves cells if there are holes, and the batch is refused.
Prepared ==
    /\ pc = "unwind" /\ states = << >>
    /\ \/ /\ at = end /\ pc' = "process" /\ at' = start
          /\ UNCHANGED <<past, batch, start, end, heads, states, search>>
       \/ /\ at < end
          /\ IF \E c \in 0 .. Cardinality(used) - 1 : pos[c] = None
             THEN pc' = "defrag" /\ UNCHANGED <<past, call, search>>
             ELSE Fail
    /\ UNCHANGED <<cells, chunks, text, file, io>>

\* Faulty: the chunk index is set for the first chunk only.
Apply_StaleChunk ==
    /\ pc = "process"
    /\ LET h == Head(heads) IN
         /\ Grows(h + UbatchLen) /\ row' = Grown(h + UbatchLen)
         /\ PlaceAt(h)
         /\ lastChunk' = lastChunk
         /\ pc' = IF (h % T) + UbatchLen > T THEN "overrun" ELSE "compute"
    /\ UNCHANGED <<program, call, search, io>>

\* process_ubatch up to the graph: the ubatch is applied to its slot, and cpy_k
\* and cpy_v choose the chunk.  They have no view of a write that passes its end.
Apply ==
    /\ pc = "process"
    /\ LET h == Head(heads) IN
         /\ Grows(h + UbatchLen) /\ row' = Grown(h + UbatchLen)
         /\ PlaceAt(h)
         /\ lastChunk' = h \div T
         /\ pc' = IF (h % T) + UbatchLen > T THEN "overrun" ELSE "compute"
    /\ UNCHANGED <<program, call, search, io>>

\* The copy kernel: the ubatch's rows into the chosen chunk.
Written ==
    [c \in Cells |->
        LET i == c - (lastChunk * T + (Head(heads) % T)) IN
        IF i >= 0 /\ i < UbatchLen THEN batch[at + i + 1] ELSE row[c]]

\* The graph is computed: on to the next ubatch or the next sub-batch.
ComputeOK ==
    /\ pc = "compute"
    /\ row' = Written
    /\ text' = text \o SubSeq(batch, at + 1, at + UbatchLen)
    /\ heads' = Tail(heads)
    /\ at' = at + UbatchLen
    /\ IF at' = end THEN start' = end /\ pc' = "split" ELSE pc' = "process" /\ UNCHANGED start
    /\ UNCHANGED <<cells, nChunks, lastChunk, past, file, batch, end, states, search, io>>

\* The graph fails or is aborted, before or after the copies: the ubatch's
\* positions are removed and decode returns the error.
ComputeFails ==
    /\ pc = "compute"
    /\ row' \in {row, Written}
    /\ SeqRm(past + at)
    /\ Fail
    /\ UNCHANGED <<nChunks, lastChunk, text, file, io>>

-----------------------------------------------------------------------------
(* The other calls of the programs.                                        *)

\* A rewind: llama_memory_seq_rm(mem, 0, p, -1).
Rewind(p) ==
    /\ pc = "idle"
    /\ SeqRm(p)
    /\ past' = p /\ text' = SubSeq(text, 1, IF p < Len(text) THEN p ELSE Len(text))
    /\ UNCHANGED <<chunks, file, pc, call, search, io>>

\* llama_memory_clear.  With data the buffers are cleared, which hold chunk 0.
Clear ==
    /\ pc = "idle"
    /\ ResetCells
    /\ row' \in {row, [c \in Cells |-> IF c < T THEN Zero ELSE row[c]]}
    /\ past' = 0 /\ text' = << >>
    /\ UNCHANGED <<nChunks, lastChunk, file, pc, call, search, io>>

\* state_write: the token list and the count of cells, then range by range.
Save ==
    /\ pc = "idle" /\ past = Len(text)
    /\ file' = [NoFile EXCEPT !.n = Cardinality(used), !.text = text]
    /\ io' = NoIO /\ pc' = "save"
    /\ UNCHANGED <<cells, chunks, past, text, call, search>>

\* The next range of cells in use: its positions go to the meta data.
SaveRange ==
    /\ pc = "save" /\ (io.lo = io.hi \/ io.ci > (io.hi - 1) \div T)
    /\ \E a \in Cells, b \in 1 .. Size :
         /\ a >= io.hi /\ a < b /\ a .. b - 1 \subseteq used /\ b \notin used
         /\ \A c \in io.hi .. a - 1 : c \notin used
         /\ io' = [io EXCEPT !.lo = a, !.hi = b, !.ci = a \div T]
         /\ file' = [file EXCEPT !.pos = @ \o [k \in 1 .. b - a |-> pos[a + k - 1]]]
    /\ UNCHANGED <<cells, chunks, past, text, pc, call, search>>

\* The offset in chunk ci of the rows that belong to the range lo .. hi - 1.
PieceOffset == IF io.ci = io.lo \div T THEN io.lo % T ELSE 0

\* Their number.
PieceRows ==
    LET first == io.lo \div T
        last == (io.hi - 1) \div T IN
    CASE first = last -> io.hi - io.lo
      [] first # last /\ io.ci = first -> T - (io.lo % T)
      [] first # last /\ io.ci = last -> io.hi - last * T
      [] OTHER -> T

\* Faulty: the rows of the last chunk are counted by the remainder, which is 0
\* for a full chunk.
SaveChunk_Remainder ==
    /\ pc = "save" /\ io.lo < io.hi /\ io.ci <= (io.hi - 1) \div T
    /\ LET rows == IF io.ci = (io.hi - 1) \div T
                   THEN io.hi % T ELSE PieceRows IN
         file' = [file EXCEPT !.rows =
                     @ \o [k \in 1 .. rows |-> row[io.ci * T + PieceOffset + k - 1]]]
    /\ io' = [io EXCEPT !.ci = @ + 1]
    /\ UNCHANGED <<cells, chunks, past, text, pc, call, search>>

\* chunk_write: the rows of the range in one chunk.
SaveChunk ==
    /\ pc = "save" /\ io.lo < io.hi /\ io.ci <= (io.hi - 1) \div T
    /\ file' = [file EXCEPT !.rows =
                   @ \o [k \in 1 .. PieceRows |-> row[io.ci * T + PieceOffset + k - 1]]]
    /\ io' = [io EXCEPT !.ci = @ + 1]
    /\ UNCHANGED <<cells, chunks, past, text, pc, call, search>>

\* No range is left.
Saved ==
    /\ pc = "save" /\ (io.lo = io.hi \/ io.ci > (io.hi - 1) \div T)
    /\ \A c \in io.hi .. Size - 1 : c \notin used
    /\ file' = [file EXCEPT !.done = TRUE] /\ pc' = "idle" /\ io' = NoIO
    /\ UNCHANGED <<cells, chunks, past, text, call, search>>

\* state_read of a whole cache: the meta data into the cells, the chunks grown.
\* A file that ends early ends the program.
Load ==
    /\ pc = "idle" /\ file # NoFile
    /\ IF Len(file.pos) < file.n
       THEN pc' = "cut" /\ UNCHANGED <<cells, chunks, program, io>>
       ELSE /\ pos' = [c \in Cells |-> IF c < file.n THEN file.pos[c + 1] ELSE None]
            /\ used' = 0 .. file.n - 1
            /\ seqPos' = {file.pos[k] : k \in 1 .. file.n}
            /\ head' = 0
            /\ Grows(file.n)
            /\ row' = [c \in Cells |-> IF c < T THEN Zero ELSE Grown(file.n)[c]]
            /\ io' = [NoIO EXCEPT !.hi = file.n]
            /\ pc' = "load" /\ text' = file.text
            /\ UNCHANGED <<lastChunk, past, file>>
    /\ UNCHANGED <<call, search>>

\* state_read cannot grow the chunks: the load fails and the program ends.
LoadFails ==
    /\ pc = "idle" /\ Len(file.pos) = file.n /\ ChunksFor(file.n) > nChunks
    /\ pc' = "ended"
    /\ UNCHANGED <<cells, chunks, program, call, search, io>>

\* chunk_read: the rows of one chunk from the file.
LoadChunk ==
    /\ pc = "load" /\ io.ci <= (io.hi - 1) \div T /\ io.hi > 0
    /\ IF io.got + PieceRows > Len(file.rows)
       THEN pc' = "cut" /\ UNCHANGED <<row, io>>
       ELSE /\ row' = [c \in Cells |->
                         LET i == c - (io.ci * T + PieceOffset) IN
                         IF i >= 0 /\ i < PieceRows THEN file.rows[io.got + i + 1] ELSE row[c]]
            /\ io' = [io EXCEPT !.ci = @ + 1, !.got = @ + PieceRows]
            /\ UNCHANGED pc
    /\ UNCHANGED <<cells, nChunks, lastChunk, program, call, search>>

\* Everything is read, and nothing of the file may be left.
Loaded ==
    /\ pc = "load" /\ (io.hi = 0 \/ io.ci > (io.hi - 1) \div T)
    /\ pc' = IF io.got = Len(file.rows) THEN "idle" ELSE "cut"
    /\ past' = Len(text) /\ io' = NoIO
    /\ UNCHANGED <<cells, chunks, text, file, call, search>>

\* A new process: mz_generate after mz_prefill, or any program after one that
\* ended or was killed.  Only the state file is left.
Restart ==
    /\ ResetCells
    /\ nChunks' = 1 /\ row' = [c \in Cells |-> Zero] /\ lastChunk' = 0
    /\ past' = 0 /\ text' = << >> /\ pc' = "idle" /\ io' = NoIO
    /\ Forgotten
    /\ UNCHANGED file

InDecode ==
    \/ SubDecode \/ Decoded \/ FindSlot \/ SearchStep \/ Place \/ Refuse \/ GrowFails
    \/ Unwind \/ Prepared \/ Apply \/ ComputeOK \/ ComputeFails

InFile == SaveRange \/ SaveChunk \/ Saved \/ LoadChunk \/ Loaded

Next ==
    \/ \E b \in Batches : Decode(b)
    \/ InDecode \/ InFile
    \/ \E p \in 0 .. past : Rewind(p)
    \/ Clear \/ Save \/ Load \/ LoadFails \/ Restart

Spec == Init /\ [][Next]_vars /\ WF_vars(InDecode) /\ WF_vars(InFile)

-----------------------------------------------------------------------------
(* Properties.                                                             *)

\* An entry of prepare's recovery stack.
Entry == [old : Nat, new : Nat, len : Nat, pos : [Cells -> {None} \union 0 .. Size]]

CellTypes ==
    /\ pos \in [Cells -> {None} \union 0 .. Size]
    /\ used \subseteq Cells /\ seqPos \subseteq 0 .. Size /\ head \in 0 .. Size

ChunkTypes ==
    /\ nChunks \in 1 .. ChunksFor(Size) /\ row \in [Cells -> Tokens \union {Zero}]
    /\ lastChunk \in Nat

ProgramTypes ==
    /\ past \in 0 .. Size + 1 /\ text \in Seq(Tokens)
    /\ file \in [n : 0 .. Size, pos : Seq(Cells), rows : Seq(Tokens), text : Seq(Tokens),
                 done : BOOLEAN]

CallTypes ==
    /\ batch \in Batches \union {<< >>}
    /\ start \in 0 .. Len(batch) /\ end \in Nat /\ at \in Nat
    /\ heads \in Seq(Cells) /\ states \in Seq(Entry)

SearchTypes ==
    /\ headCur \in 0 .. Size /\ tested \in Nat
    /\ slot \in {Search!NoSlot, Search!Searching} \union Cells

\* Types of the cache's state.
TypeOK ==
    /\ CellTypes /\ ChunkTypes /\ ProgramTypes /\ CallTypes /\ SearchTypes
    /\ io \in [ci : Nat, lo : 0 .. Size, hi : 0 .. Size, got : 0 .. Size]

\* The caches beside the position table agree with it: used is the set of cells
\* that hold a position, seqPos the set of those positions.
CachesExact ==
    /\ used = {c \in Cells : pos[c] # None}
    /\ seqPos = {pos[c] : c \in used}

\* Cell c holds position c, and no cell after an empty one is in use: mzCache
\* takes a token's chunk from its position, the cache from its cell.
CellIsPosition ==
    \E n \in 0 .. Size : pos = [c \in Cells |-> IF c < n THEN c ELSE None]

\* A write of the KV cache never spans two chunks: cpy_k and cpy_v always have
\* a view to copy to.
WritesStayInChunk == pc # "overrun"

\* A cell in use is in a chunk that was allocated.
ChunksCover == \A c \in used : c < nChunks * T

\* Between calls, and whenever a sub-batch is about to be processed, the cells
\* hold the decoded tokens and nothing of what prepare tried, whether it
\* succeeded or not.
NoTraceOfPrepare ==
    pc \in {"idle", "split", "process", "save"} /\ (pc = "process" => at = start)
        => used = 0 .. Len(text) - 1

\* The row of every decoded token is the one computed from it.
RowsFaithful ==
    pc \notin {"load", "cut"} => \A c \in used : c < Len(text) => row[c] = text[c + 1]

\* A batch is refused for want of cells only if it passes the end of the cache,
\* and never by a search that missed a slot.
RefusedOnlyPastEnd == [][Refuse => past + end > Size]_vars

\* A refused batch never leads to a defragmentation, which moves rows as if a
\* layer's rows were one tensor.
NeverDefrags == pc # "defrag"

\* A state file that was written to its end is read to its end.
SavedFilesLoad == pc = "cut" => ~ file.done

\* A decode returns, or the program ends.
DecodeReturns == pc = "split" ~> pc \in {"idle", "ended"}

-----------------------------------------------------------------------------
(* The inductive invariant.                                                *)

\* The cells hold the positions 0 .. n - 1, in order.
Held(n) ==
    /\ n \in 0 .. Size /\ head <= n
    /\ pos = [c \in Cells |-> IF c < n THEN c ELSE None]
    /\ used = 0 .. n - 1 /\ seqPos = 0 .. n - 1

\* The number of cells in use, in terms of what the program is doing.
Count ==
    CASE pc \in {"find", "search"} -> past + at
      [] pc = "unwind" -> IF states = << >> THEN Len(text)
                          ELSE states[Len(states)].new + states[Len(states)].len
      [] pc = "compute" -> past + at + UbatchLen
      [] OTHER -> Len(text)

\* The sub-batch: it starts where the text ended, and no chunk begins inside.
SubBatch ==
    /\ batch \in Batches /\ past + Len(batch) <= Size + 1
    /\ start < end /\ end <= Len(batch) /\ start <= at /\ at <= end
    /\ \A p \in past + start + 1 .. past + end - 1 : p % T # 0

\* hs holds the slots of consecutive ubatches, from position a up to b.
Chain(hs, a, b) ==
    /\ hs # << >> /\ hs[1] = a
    /\ \A k \in 1 .. Len(hs) - 1 : hs[k + 1] = hs[k] + UBatch
    /\ (\A k \in 1 .. Len(hs) : hs[k] < b) /\ b <= hs[Len(hs)] + UBatch

\* The recovery stack ss covers the cells from n on, one slot after the other, all
\* of them empty before.
Stacked(ss, n) ==
    /\ ss # << >> => ss[1].new = n
    /\ \A k \in 1 .. Len(ss) :
         /\ ss[k].len > 0 /\ ss[k].old <= ss[k].new
         /\ ss[k].new >= n /\ ss[k].new + ss[k].len <= Size
         /\ \A c \in Cells : c >= ss[k].new => ss[k].pos[c] = None
         /\ k < Len(ss) => ss[k].new + ss[k].len = ss[k + 1].new

Stack == Stacked(states, Len(text))

\* What prepare has found, before the ubatch at at.
Preparing ==
    /\ SubBatch /\ past + start = Len(text) /\ at < end
    /\ \/ at = start /\ heads = << >> /\ states = << >>
       \/ /\ Chain(heads, past + start, past + at) /\ heads[Len(heads)] + UBatch = past + at
          /\ states # << >>
          /\ states[Len(states)].new + states[Len(states)].len = past + at

\* find_slot: the cells before headCur are in use; if the ubatch fits, the search
\* has not wrapped.
Searched ==
    /\ headCur <= past + at
    /\ past + at + UbatchLen <= Size => tested <= headCur /\ slot # Search!NoSlot
    /\ slot \in Cells => slot = past + at /\ past + at + UbatchLen <= Size

\* The slots of the ubatches that are still to be processed.
Processing ==
    /\ SubBatch /\ past + at = Len(text) /\ at < end /\ past + end <= Size
    /\ Chain(heads, past + at, past + end)

\* The state file: complete meta data are those of its text, and so are the rows.
FileOK ==
    /\ file.n = Len(file.text)
    /\ Len(file.rows) <= file.n
    /\ \A k \in 1 .. Len(file.rows) : file.rows[k] = file.text[k]
    /\ Len(file.pos) = file.n => \A k \in 1 .. file.n : file.pos[k] = k - 1
    /\ Len(file.pos) <= file.n
    /\ file.done => Len(file.pos) = file.n /\ Len(file.rows) = file.n

\* Rows that the chunks before ci hold.
RowsDone == IF io.ci * T <= io.hi THEN io.ci * T ELSE io.hi

Saving ==
    /\ file.text = text /\ ~ file.done /\ io.lo = 0
    /\ \/ io.hi = 0 /\ io.ci = 0 /\ file.pos = << >> /\ file.rows = << >>
       \/ io.hi > 0 /\ io.hi = file.n /\ Len(file.pos) = file.n /\ Len(file.rows) = RowsDone

Loading ==
    /\ file.text = text /\ Len(file.pos) = file.n
    /\ io.lo = 0 /\ io.hi = file.n /\ io.got = RowsDone
    /\ \A c \in Cells : c < io.got => row[c] = text[c + 1]

\* The inductive invariant.
IInv ==
    /\ TypeOK /\ FileOK /\ Stack /\ ChunksCover /\ RowsFaithful /\ SavedFilesLoad
    /\ pc \in {"idle", "split", "find", "search", "unwind", "process", "compute",
               "save", "load", "cut", "ended"}
    /\ IF pc = "ended" THEN \E n \in 0 .. Size : Held(n) ELSE Held(Count)
    /\ pc = "split" => batch \in Batches /\ past + Len(batch) <= Size + 1
    /\ pc \in {"find", "search"} => Preparing
    /\ pc = "search" => Searched
    /\ pc = "unwind" =>
          /\ SubBatch /\ past + start = Len(text)
          /\ at = end => Chain(heads, past + start, past + end) /\ past + end <= Size
    /\ pc \in {"process", "compute"} => Processing
    /\ pc = "compute" => lastChunk = (past + at) \div T
    /\ pc \in {"idle", "split", "process", "compute", "save", "load", "cut"} => states = << >>
    /\ pc \in {"idle", "split", "save", "load", "cut"} => heads = << >>
    /\ pc = "save" => Saving
    /\ pc = "load" => Loading

\* IInv under a name of its own.  The step lemmas are stated with it: a proof
\* that expands IInv then leaves the lemmas it has at hand as they are.
Consistent == IInv
=============================================================================
