---------------------------- MODULE KVCellsFacts ----------------------------
(***************************************************************************)
(* What the proofs about KVCells rest on: the arithmetic of chunks, what   *)
(* the operations do to cells that hold the positions 0 .. n - 1, what is  *)
(* left to show of a step that ends a call; then the steps of a decode up  *)
(* to the end of prepare (the split at chunk boundaries, the search for a  *)
(* slot, the placements and their removal), and the calls between decodes. *)
(***************************************************************************)
EXTENDS KVCells, TLAPS

-----------------------------------------------------------------------------
(* Arithmetic of chunks.                                                   *)

\* A cell is in chunk n \div T, at offset n % T.
LEMMA DivMod ==
    ASSUME NEW n \in Nat
    PROVE  /\ n \div T \in Nat /\ n % T \in 0 .. T - 1
           /\ n = (n \div T) * T + (n % T)
BY SizesAssumption

\* More chunks hold no fewer cells.
LEMMA TimesMono ==
    ASSUME NEW a \in Nat, NEW b \in Nat, a <= b
    PROVE  a * T <= b * T
BY SizesAssumption

\* One more chunk holds T more cells.
LEMMA TimesStrict ==
    ASSUME NEW a \in Nat, NEW b \in Nat, a < b
    PROVE  a * T + T <= b * T
BY SizesAssumption

\* The first cell of the next chunk.
LEMMA TimesIn ==
    ASSUME NEW a \in Nat
    PROVE  a * T \in Nat /\ (a + 1) * T = a * T + T
BY SizesAssumption

\* ChunksFor(n) chunks hold n cells, and none of them is superfluous.
LEMMA ChunksForCovers ==
    ASSUME NEW n \in Nat
    PROVE  ChunksFor(n) \in Nat /\ n <= ChunksFor(n) * T /\ ChunksFor(n) * T < n + T
<1>1. n + T - 1 \in Nat
  BY SizesAssumption
<1>2. PICK m \in Nat : m = n + T - 1
  BY <1>1
<1> QED
  BY <1>2, DivMod, SizesAssumption DEF ChunksFor

\* More cells need no fewer chunks.
LEMMA ChunksForMono ==
    ASSUME NEW n \in Nat, NEW m \in Nat, n <= m
    PROVE  ChunksFor(n) <= ChunksFor(m)
<1>1. PICK a \in Nat, b \in Nat : a = ChunksFor(n) /\ b = ChunksFor(m)
  BY ChunksForCovers
<1>2. a * T < n + T /\ m <= b * T
  BY <1>1, ChunksForCovers
<1>3. b < a => b * T + T <= a * T
  BY TimesStrict
<1>4. a * T \in Nat /\ b * T \in Nat
  BY TimesIn
<1> QED
  BY <1>1, <1>2, <1>3, <1>4, SizesAssumption

\* A multiple of T is the first cell of its chunk.
LEMMA MultipleMod ==
    ASSUME NEW a \in Nat
    PROVE  (a * T) % T = 0 /\ (a * T) \div T = a
<1>1. PICK p \in Nat : p = a * T
  BY TimesIn
<1>2. PICK k \in Nat, r \in 0 .. T - 1 : p = k * T + r /\ r = p % T /\ k = p \div T
  BY DivMod
<1>3. (k < a => k * T + T <= a * T) /\ (a < k => a * T + T <= k * T)
  BY TimesStrict
<1>4. k * T \in Nat
  BY TimesIn
<1>5. k = a
  BY <1>1, <1>2, <1>3, <1>4, SizesAssumption
<1>6. r = 0
  <2>1. p = k * T
    BY <1>1, <1>5
  <2> QED
    BY <1>2, <1>4, <2>1, SizesAssumption
<1> QED
  BY <1>1, <1>2, <1>5, <1>6, Zenon

\* Cells with no beginning of a chunk after the first are in one chunk.
LEMMA InChunk ==
    ASSUME NEW h \in Nat, NEW len \in Nat \ {0},
           \A p \in h + 1 .. h + len - 1 : p % T # 0
    PROVE  (h % T) + len <= T
<1>1. PICK q \in Nat, r \in 0 .. T - 1 : h = q * T + r /\ r = h % T
  BY DivMod
<1>2. (q + 1) * T = q * T + T /\ q * T \in Nat
  BY TimesIn
<1>3. PICK p \in Nat : p = (q + 1) * T
  BY <1>2, SizesAssumption
<1>4. p % T = 0
  <2>1. PICK b \in Nat : b = q + 1
    OBVIOUS
  <2> QED
    BY <1>3, <2>1, MultipleMod
<1>5. p = h - r + T
  BY <1>1, <1>2, <1>3, SizesAssumption
<1>6. p \notin h + 1 .. h + len - 1
  BY <1>4
<1>7. r + len <= T
  BY <1>5, <1>6, SizesAssumption
<1> QED
  BY <1>1, <1>7, Zenon

\* The last of the chunks of n cells.
LEMMA LastChunk ==
    ASSUME NEW n \in Nat \ {0}
    PROVE  /\ (n - 1) \div T \in Nat
           /\ ((n - 1) \div T) * T < n /\ n <= ((n - 1) \div T) * T + T
<1>1. PICK m \in Nat : m = n - 1
  OBVIOUS
<1>2. /\ m \div T \in Nat /\ m % T \in 0 .. T - 1
      /\ m = (m \div T) * T + (m % T)
  BY DivMod
<1>3. PICK q \in Nat, qT \in Nat, r \in 0 .. T - 1 :
          q = m \div T /\ qT = q * T /\ m = qT + r
  BY <1>2, TimesIn, Zenon
<1>4. qT < n /\ n <= qT + T
  BY <1>1, <1>3, SizesAssumption
<1> QED
  BY <1>1, <1>3, <1>4, Zenon

\* chunk_write and chunk_read of the range 0 .. hi - 1: a piece starts at its
\* chunk's first row and is as long as the chunk, or as what is left.
LEMMA Piece ==
    ASSUME io.lo = 0, io.hi \in Nat \ {0}, io.ci \in Nat, io.ci <= (io.hi - 1) \div T
    PROVE  /\ PieceOffset = 0 /\ PieceRows \in Nat \ {0} /\ io.ci * T \in Nat
           /\ io.ci * T < io.hi
           /\ io.ci * T + PieceRows = IF (io.ci + 1) * T <= io.hi THEN (io.ci + 1) * T ELSE io.hi
           /\ PieceRows <= T
<1>1. 0 \div T = 0 /\ 0 % T = 0
  BY SizesAssumption
<1>2. PICK n \in Nat \ {0}, ci \in Nat : n = io.hi /\ ci = io.ci
  OBVIOUS
<1>3. PICK q \in Nat, qT \in Nat : q = (n - 1) \div T /\ qT = q * T /\ qT < n /\ n <= qT + T
  BY LastChunk, TimesIn, Zenon
<1>4. PICK cT \in Nat : cT = ci * T /\ (ci + 1) * T = cT + T
  BY TimesIn
<1>5. ci <= q
  BY <1>2, <1>3
<1>6. (ci < q => cT + T <= qT) /\ (ci = q => cT = qT)
  BY <1>3, <1>4, TimesStrict
<1>7. (q = 0 => qT = 0) /\ (ci = 0 => cT = 0)
  BY <1>3, <1>4, SizesAssumption
<1>8. PieceOffset = 0
  BY <1>1 DEF PieceOffset
<1>9. PieceRows = CASE 0 = q -> n
                    [] 0 # q /\ ci = 0 -> T
                    [] 0 # q /\ ci = q -> n - qT
                    [] OTHER -> T
  <2>1. io.lo \div T = 0 /\ T - (io.lo % T) = T /\ (io.hi - 1) \div T = q /\ n - 0 = n
    BY <1>1, <1>2, <1>3, SizesAssumption
  <2> QED
    BY <1>2, <1>3, <2>1, Zenon DEF PieceRows
<1>10. PieceRows = IF ci = q THEN n - qT ELSE T
  BY <1>5, <1>7, <1>9
<1>11. PieceRows \in Nat \ {0} /\ PieceRows <= T /\ cT < n
       /\ cT + PieceRows = IF cT + T <= n THEN cT + T ELSE n
  BY <1>3, <1>5, <1>6, <1>10, SizesAssumption
<1> QED
  BY <1>2, <1>4, <1>8, <1>11

-----------------------------------------------------------------------------
(* What the operations do to cells that hold 0 .. n - 1.                   *)

\* apply_ubatch at the end of the cells in use extends them.
LEMMA PlaceHeld ==
    ASSUME NEW n \in Nat, NEW len \in Nat \ {0}, n + len <= Size,
           n = past + at, len = UbatchLen, Held(n), PlaceAt(n)
    PROVE  Held(n + len)'
<1>1. pos' = [c \in Cells |-> IF c < n + len THEN c ELSE None]
  BY SizesAssumption DEF Held, PlaceAt, Cells
<1>2. used' = 0 .. n + len - 1 /\ seqPos' = 0 .. n + len - 1 /\ head' = n + len
  BY SizesAssumption DEF Held, PlaceAt
<1> QED
  BY <1>1, <1>2, SizesAssumption DEF Held

\* seq_rm from position p on leaves the cells before p, and head among them or
\* right after.
LEMMA SeqRmHeld ==
    ASSUME NEW n \in Nat, NEW m \in Nat, NEW p \in Nat, Held(n), head \in Nat, SeqRm(p),
           m = IF p < n THEN p ELSE n
    PROVE  Held(m)' /\ head' \in Nat
<1>1. /\ n \in 0 .. Size /\ head <= n /\ pos = [c \in Cells |-> IF c < n THEN c ELSE None]
      /\ used = 0 .. n - 1 /\ seqPos = 0 .. n - 1
  BY DEF Held
<1> DEFINE gone == {c \in Cells : pos[c] >= p}
<1>2. gone = {c \in Cells : c >= p /\ c < n}
  BY <1>1, SizesAssumption DEF Cells, None
<1>3. {pos[c] : c \in gone} = gone
  <2>1. \A c \in gone : pos[c] = c
    BY <1>1, <1>2
  <2> HIDE DEF gone
  <2> QED
    BY <2>1, Zenon
<1>4. /\ pos' = [c \in Cells |-> IF c \in gone THEN None ELSE pos[c]]
      /\ used' = used \ gone /\ seqPos' = seqPos \ gone
      /\ head' = IF \E c \in gone : c < head
                 THEN CHOOSE c \in gone : \A d \in gone : c <= d
                 ELSE head
  BY <1>3 DEF SeqRm
<1> HIDE DEF gone
<1>5. m \in 0 .. Size
  BY <1>1, SizesAssumption
<1>6. pos' = [c \in Cells |-> IF c < m THEN c ELSE None]
  BY <1>1, <1>2, <1>4, SizesAssumption DEF Cells
<1>7. used' = 0 .. m - 1 /\ seqPos' = 0 .. m - 1
  BY <1>1, <1>2, <1>4, SizesAssumption DEF Cells
<1>8. head' <= m /\ head' \in Nat
  <2>1. CASE \E c \in gone : c < head
    <3>1. p \in gone /\ \A d \in gone : p <= d
      BY <1>1, <1>2, <2>1, SizesAssumption DEF Cells
    <3>2. PICK e \in gone : e = head' /\ \A d \in gone : e <= d
      BY <1>4, <2>1, <3>1, Zenon
    <3> QED
      BY <1>2, <3>1, <3>2, SizesAssumption DEF Cells
  <2>2. CASE ~ \E c \in gone : c < head
    <3>1. p < n => ~ (p < head)
      BY <1>1, <1>2, <2>2, SizesAssumption DEF Cells
    <3> QED
      BY <1>1, <1>4, <2>2, <3>1
  <2> QED
    BY <2>1, <2>2
<1> QED
  BY <1>5, <1>6, <1>7, <1>8 DEF Held

\* Taking back the last placement leaves the cells before it.
LEMMA RecoverHeld ==
    ASSUME NEW n \in Nat, NEW m \in Nat, NEW state \in Entry, Held(n), Recover(state),
           state.new = m, n = m + state.len, state.old <= m,
           \A c \in Cells : c >= m => state.pos[c] = None
    PROVE  Held(m)'
<1>1. /\ n \in 0 .. Size /\ pos = [c \in Cells |-> IF c < n THEN c ELSE None]
      /\ used = 0 .. n - 1 /\ seqPos = 0 .. n - 1 /\ state.len \in Nat
  BY DEF Held, Entry
<1> DEFINE slotCells == state.new .. state.new + state.len - 1
<1>2. slotCells = m .. n - 1 /\ slotCells \subseteq Cells
  BY <1>1, SizesAssumption DEF Cells
<1>3. /\ pos' = [c \in Cells |-> IF c \in slotCells THEN state.pos[c] ELSE pos[c]]
      /\ used' = (used \ slotCells) \union {c \in slotCells : state.pos[c] # None}
      /\ seqPos' = (seqPos \ {pos[c] : c \in slotCells})
                       \union {state.pos[c] : c \in {d \in slotCells : state.pos[d] # None}}
      /\ head' = state.old
  BY DEF Recover
<1> HIDE DEF slotCells
<1>4. \A c \in slotCells : state.pos[c] = None
  BY <1>2 DEF Cells
<1>5. {c \in slotCells : state.pos[c] # None} = {}
  BY <1>4
<1>6. {pos[c] : c \in slotCells} = slotCells
  <2>1. \A c \in slotCells : pos[c] = c
    BY <1>1, <1>2
  <2> QED
    BY <2>1, Zenon
<1>7. used' = used \ slotCells /\ seqPos' = seqPos \ slotCells
  BY <1>3, <1>5, <1>6
<1>8. used' = 0 .. m - 1 /\ seqPos' = 0 .. m - 1
  BY <1>1, <1>2, <1>7
<1>9. pos' = [c \in Cells |-> IF c < m THEN c ELSE None]
  BY <1>1, <1>2, <1>3, <1>4 DEF Cells
<1>10. m \in 0 .. Size
  BY <1>1, SizesAssumption
<1> QED
  BY <1>3, <1>8, <1>9, <1>10, Zenon DEF Held

\* The size of the set of used cells, cells.get_used(), counts them.
Counts == \A n \in Nat : Cardinality(0 .. n - 1) = n

\* What the caches say when the cells hold 0 .. n - 1.
LEMMA HeldFacts ==
    ASSUME NEW n \in Nat, Held(n)
    PROVE  /\ SeqPosMax = n - 1 /\ (Counts => Cardinality(used) = n)
           /\ pos \in [Cells -> {None} \union 0 .. Size]
           /\ used \subseteq Cells /\ seqPos \subseteq 0 .. Size
           /\ \A c \in 0 .. n - 1 : pos[c] # None
<1>1. /\ n <= Size /\ used = 0 .. n - 1 /\ seqPos = 0 .. n - 1
      /\ pos = [c \in Cells |-> IF c < n THEN c ELSE None]
  BY DEF Held
<1>2. SeqPosMax = n - 1
  <2>1. CASE n = 0
    BY <1>1, <2>1 DEF SeqPosMax
  <2>2. CASE n # 0
    <3>1. n - 1 \in seqPos /\ \A q \in seqPos : q <= n - 1
      BY <1>1, <2>2
    <3>2. PICK e \in seqPos : e = SeqPosMax /\ \A q \in seqPos : q <= e
      <4>1. seqPos # {}
        BY <3>1, Zenon
      <4> QED
        BY <3>1, <4>1, Zenon DEF SeqPosMax
    <3>3. e \in 0 .. n - 1 /\ n - 1 <= e
      BY <1>1, <3>1, <3>2, Zenon
    <3>4. e = n - 1
      BY <3>3
    <3> QED
      BY <3>2, <3>4
  <2> QED
    BY <2>1, <2>2
<1>3. Counts => Cardinality(used) = n
  BY <1>1, Zenon DEF Counts
<1> QED
  BY <1>1, <1>2, <1>3, SizesAssumption DEF Cells, None

\* What Append adds and what it keeps.
LEMMA AppendFacts ==
    ASSUME NEW S, NEW s \in Seq(S), NEW x \in S
    PROVE  /\ Append(s, x) \in Seq(S) /\ Append(s, x) # << >>
           /\ Len(Append(s, x)) = Len(s) + 1
           /\ \A i \in 1 .. Len(s) : Append(s, x)[i] = s[i]
           /\ Append(s, x)[Len(s) + 1] = x
<1>1. Append(s, x) \in Seq(S) /\ Len(Append(s, x)) = Len(s) + 1
  OBVIOUS
<1>2. Append(s, x) # << >>
  <2>1. Len(Append(s, x)) # 0 /\ Len(<< >>) = 0
    BY <1>1
  <2> QED
    BY <2>1, Zenon
<1>3. \A i \in 1 .. Len(s) : Append(s, x)[i] = s[i]
  OBVIOUS
<1>4. Append(s, x)[Len(s) + 1] = x
  OBVIOUS
<1> QED
  BY <1>1, <1>2, <1>3, <1>4, Zenon

\* A batch's tokens.
LEMMA BatchType ==
    ASSUME NEW b \in Batches \union {<< >>}
    PROVE  b \in Seq(Tokens) /\ Len(b) \in Nat /\ (b \in Batches => Len(b) > 0)
<1>1. b \in Batches => b \in Seq(Tokens) /\ b # << >>
  BY BatchesAssumption, Zenon
<1>2. << >> \in Seq(Tokens)
  OBVIOUS
<1>3. b \in Seq(Tokens)
  BY <1>1, <1>2, Zenon
<1>4. b # << >> => Len(b) \in Nat \ {0}
  BY <1>3
<1> QED
  BY <1>1, <1>3, <1>4

\* The number of cells in use has its type where the program is not ended.
LEMMA HeldTypes ==
    ASSUME NEW n \in Nat, Held(n)', (head \in Nat)'
    PROVE  CellTypes'
<1>1. /\ n <= Size /\ used' = 0 .. n - 1 /\ seqPos' = 0 .. n - 1 /\ head' <= n
      /\ pos' = [c \in Cells |-> IF c < n THEN c ELSE None]
  BY DEF Held
<1> QED
  BY <1>1, SizesAssumption DEF CellTypes, Cells, None

-----------------------------------------------------------------------------
(* The steps.                                                              *)

\* Outside a decode: idle, or at a state file.
LEMMA QuietInv ==
    ASSUME pc' \in {"idle", "save", "load", "cut"},
           CellTypes', ChunkTypes', ProgramTypes', CallTypes', SearchTypes',
           io' \in [ci : Nat, lo : 0 .. Size, hi : 0 .. Size, got : 0 .. Size],
           FileOK', Held(Len(text))', ChunksCover', RowsFaithful', SavedFilesLoad',
           states' = << >>, heads' = << >>,
           pc' = "save" => Saving', pc' = "load" => Loading'
    PROVE  Consistent'
<1> SUFFICES IInv'
  BY DEF Consistent
<1>1. Stack'
  BY DEF Stack, Stacked
<1>2. TypeOK'
  BY DEF TypeOK
<1>3. Count' = Len(text')
  BY DEF Count
<1>4. Held(Count)'
  BY <1>3 DEF Held
<1> QED
  BY <1>1, <1>2, <1>4 DEF IInv

\* A call that returned left the program idle.
LEMMA IdleInv ==
    ASSUME Forgotten, pc' = "idle", CellTypes', ChunkTypes', ProgramTypes',
           io' \in [ci : Nat, lo : 0 .. Size, hi : 0 .. Size, got : 0 .. Size],
           FileOK', Held(Len(text))', ChunksCover', RowsFaithful'
    PROVE  Consistent'
<1> SUFFICES IInv'
  BY DEF Consistent
<1>1. CallTypes' /\ states' = << >> /\ heads' = << >>
  BY DEF Forgotten, CallTypes
<1>2. SearchTypes'
  BY SizesAssumption DEF Forgotten, SearchTypes
<1>3. SavedFilesLoad'
  BY DEF SavedFilesLoad
<1> QED
  BY <1>1, <1>2, <1>3, QuietInv DEF Consistent

\* The initial state.
LEMMA InitInv ==
    ASSUME Init
    PROVE  Consistent
<1> SUFFICES IInv
  BY DEF Consistent
<1>1. CellTypes /\ ProgramTypes /\ CallTypes /\ SearchTypes /\ Stack
  BY SizesAssumption
     DEF Init, CellTypes, ProgramTypes, CallTypes, SearchTypes, Stack, Stacked, NoFile, Cells, None
<1>2. ChunkTypes
  <2>1. 1 <= ChunksFor(Size)
    <3>1. ChunksFor(Size) \in Nat /\ Size <= ChunksFor(Size) * T
      BY ChunksForCovers, SizesAssumption
    <3>2. ChunksFor(Size) # 0
      BY <3>1, SizesAssumption
    <3> QED
      BY <3>1, <3>2
  <2> QED
    BY <2>1, ChunksForCovers, SizesAssumption DEF Init, ChunkTypes
<1>3. TypeOK
  BY <1>1, <1>2, SizesAssumption DEF Init, TypeOK, NoIO
<1>4. FileOK
  BY DEF Init, FileOK, NoFile
<1>5. Held(Count)
  <2>1. Count = 0
    BY DEF Init, Count
  <2>2. 0 .. 0 - 1 = {} /\ \A c \in Cells : ~ c < 0
    BY SizesAssumption DEF Cells
  <2>3. pos = [c \in Cells |-> IF c < 0 THEN c ELSE None]
    BY <2>2 DEF Init
  <2>4. 0 \in 0 .. Size /\ head <= 0
    BY SizesAssumption DEF Init
  <2> QED
    BY <2>1, <2>2, <2>3, <2>4 DEF Init, Held
<1>6. ChunksCover /\ RowsFaithful /\ SavedFilesLoad
  BY DEF Init, ChunksCover, RowsFaithful, SavedFilesLoad
<1> QED
  BY <1>1, <1>3, <1>4, <1>5, <1>6 DEF Init, IInv

\* The batch of a decode.
LEMMA DecodeInv ==
    ASSUME Consistent, NEW b \in Batches, Decode(b)
    PROVE  Consistent'
<1> SUFFICES ASSUME IInv PROVE IInv'
  BY DEF Consistent
<1>1. /\ pc = "idle" /\ past + Len(b) <= Size + 1
      /\ batch' = b /\ start' = 0 /\ pc' = "split"
      /\ UNCHANGED <<cells, chunks, program, end, at, heads, states, search, io>>
  BY DEF Decode
<1>2. /\ TypeOK /\ FileOK /\ Stack /\ ChunksCover /\ RowsFaithful
      /\ Held(Count) /\ states = << >> /\ heads = << >>
  BY <1>1 DEF IInv
<1>3. CallTypes'
  BY <1>1, <1>2, BatchType DEF TypeOK, CallTypes
<1>4. TypeOK'
  BY <1>1, <1>2, <1>3
     DEF TypeOK, CellTypes, ChunkTypes, ProgramTypes, SearchTypes, cells, chunks, program, search
<1>5. FileOK' /\ Stack' /\ ChunksCover' /\ RowsFaithful' /\ SavedFilesLoad'
  BY <1>1, <1>2
     DEF FileOK, Stack, ChunksCover, RowsFaithful, SavedFilesLoad, cells, chunks, program
<1>6. Held(Count)'
  <2>1. Count = Len(text) /\ Count' = Len(text)
    BY <1>1 DEF Count, program
  <2> QED
    BY <1>1, <1>2, <2>1 DEF Held, cells
<1>7. batch' \in Batches /\ past' + Len(batch') <= Size + 1
  BY <1>1 DEF program
<1> QED
  BY <1>1, <1>2, <1>4, <1>5, <1>6, <1>7 DEF IInv

\* A decode that fails, with the text as it was.
LEMMA FailInv ==
    ASSUME Consistent, Fail, UNCHANGED <<nChunks, lastChunk, text, file, io>>,
           past + Len(batch) <= Size + 1, CellTypes', row' \in [Cells -> Tokens \union {Zero}],
           Held(Len(text))', used' \subseteq used,
           \A c \in used' : c < Len(text) => row'[c] = text[c + 1]
    PROVE  Consistent'
<1> SUFFICES ASSUME IInv PROVE IInv'
  BY DEF Consistent
<1>1. TypeOK /\ FileOK /\ ChunksCover
  BY DEF IInv
<1>2. past' \in 0 .. Size + 1
  <2>1. Len(batch) \in Nat
    BY <1>1, BatchType DEF TypeOK, CallTypes
  <2> QED
    BY <1>1, <2>1, SizesAssumption DEF Fail, TypeOK, ProgramTypes
<1>3. ChunkTypes' /\ ProgramTypes'
  BY <1>1, <1>2 DEF TypeOK, ChunkTypes, ProgramTypes
<1>4. io' \in [ci : Nat, lo : 0 .. Size, hi : 0 .. Size, got : 0 .. Size]
  BY <1>1 DEF TypeOK
<1>5. FileOK' /\ ChunksCover'
  BY <1>1 DEF FileOK, ChunksCover
<1>6. pc' = "idle" /\ Forgotten
  BY DEF Fail
<1>7. RowsFaithful'
  BY DEF RowsFaithful
<1> QED
  BY <1>3, <1>4, <1>5, <1>6, <1>7, IdleInv DEF Consistent

\* The next sub-batch.
LEMMA SubDecodeInv ==
    ASSUME Consistent, SubDecode
    PROVE  Consistent'
<1> SUFFICES ASSUME IInv PROVE IInv'
  BY DEF Consistent
<1>1. pc = "split" /\ start < Len(batch) /\ UNCHANGED <<cells, chunks, text, file, io>>
  BY DEF SubDecode
<1>2. /\ TypeOK /\ FileOK /\ Stack /\ ChunksCover /\ RowsFaithful
      /\ Held(Count) /\ states = << >> /\ heads = << >>
      /\ batch \in Batches /\ past + Len(batch) <= Size + 1
  BY <1>1 DEF IInv
<1>3. Count = Len(text)
  BY <1>1 DEF Count
<1>4. /\ Len(text) \in Nat /\ Len(batch) \in Nat /\ start \in 0 .. Len(batch)
      /\ past \in Nat /\ start \in Nat
  BY <1>2, BatchType, SizesAssumption DEF TypeOK, ProgramTypes, CallTypes
<1>5. Held(Len(text)) /\ Held(Len(text))'
  BY <1>1, <1>2, <1>3 DEF Held, cells
<1>6. CASE past + start = SeqPosMax + 1
  <2>1. /\ end' \in start + 1 .. Len(batch) /\ SubEnds(end')
        /\ \A d \in start + 1 .. end' - 1 : ~ SubEnds(d)
        /\ at' = start /\ pc' = "find"
        /\ UNCHANGED <<past, batch, start, heads, states, search>>
    BY <1>6 DEF SubDecode
  <2>2. past + start = Len(text)
    BY <1>4, <1>5, <1>6, HeldFacts
  <2>3. PICK e \in Nat : e = end' /\ e \in start + 1 .. Len(batch)
    BY <1>4, <2>1
  <2>4. ASSUME NEW p \in past + start + 1 .. past + e - 1
        PROVE  p % T # 0
    <3>1. p - past \in start + 1 .. e - 1 /\ past + (p - past) = p /\ p - past < Len(batch)
      <4>1. PICK p0 \in Nat, s0 \in Nat, l0 \in Nat : p0 = past /\ s0 = start /\ l0 = Len(batch)
        BY <1>4, Zenon
      <4>2. p \in p0 + s0 + 1 .. p0 + e - 1 /\ e \in s0 + 1 .. l0
        BY <2>3, <4>1, Zenon
      <4>3. p - p0 \in s0 + 1 .. e - 1 /\ p0 + (p - p0) = p /\ p - p0 < l0
        BY <4>2
      <4> QED
        BY <4>1, <4>3, Zenon
    <3>2. ~ SubEnds(p - past)
      BY <2>1, <2>3, <3>1, Zenon
    <3> QED
      BY <3>1, <3>2, Zenon DEF SubEnds
  <2>5. SubBatch'
    <3>1. start < e /\ e <= Len(batch) /\ start <= start /\ start <= e
      BY <1>4, <2>3
    <3> QED
      BY <1>2, <2>1, <2>3, <2>4, <3>1, Zenon DEF SubBatch
  <2>6. Preparing'
    <3>1. start < e
      BY <1>4, <2>3
    <3> QED
      BY <1>1, <1>2, <2>1, <2>2, <2>3, <2>5, <3>1, Zenon DEF Preparing
  <2>7. CallTypes'
    BY <1>2, <1>4, <2>1, <2>3 DEF TypeOK, CallTypes
  <2>8. TypeOK'
    BY <1>1, <1>2, <2>1, <2>7, Zenon
       DEF TypeOK, CellTypes, ChunkTypes, ProgramTypes, SearchTypes, cells, chunks, search
  <2>9. FileOK' /\ Stack' /\ ChunksCover' /\ RowsFaithful' /\ SavedFilesLoad'
    BY <1>1, <1>2, <2>1
       DEF FileOK, Stack, ChunksCover, RowsFaithful, SavedFilesLoad, cells, chunks
  <2>10. Held(Count)'
    <3>1. Count' = Len(text)'
      BY <1>1, <2>1, <2>2 DEF Count
    <3> QED
      BY <1>5, <3>1 DEF Held
  <2> QED
    BY <2>1, <2>6, <2>8, <2>9, <2>10 DEF IInv
<1>7. CASE past + start # SeqPosMax + 1
  <2>1. Fail
    BY <1>7 DEF SubDecode
  <2>2. UNCHANGED <<pos, used, seqPos, head, row, nChunks, lastChunk, text, file, io>>
    BY <1>1 DEF cells, chunks
  <2>3. CellTypes' /\ row' \in [Cells -> Tokens \union {Zero}]
    BY <1>2, <2>2 DEF TypeOK, CellTypes, ChunkTypes
  <2>4. \A c \in used' : c < Len(text) => row'[c] = text[c + 1]
    BY <1>1, <1>2, <2>2 DEF RowsFaithful
  <2> QED
    BY <1>2, <1>5, <2>1, <2>2, <2>3, <2>4, FailInv DEF Consistent
<1> QED
  BY <1>6, <1>7

\* A decode that returns 0.
LEMMA DecodedInv ==
    ASSUME Consistent, Decoded
    PROVE  Consistent'
<1> SUFFICES ASSUME IInv PROVE IInv'
  BY DEF Consistent
<1>1. /\ pc = "split" /\ pc' = "idle" /\ past' = past + Len(batch) /\ Forgotten
      /\ UNCHANGED <<cells, chunks, text, file, io>>
  BY DEF Decoded
<1>2. /\ TypeOK /\ FileOK /\ ChunksCover /\ RowsFaithful /\ Held(Count)
      /\ batch \in Batches /\ past + Len(batch) <= Size + 1
  BY <1>1 DEF IInv
<1>3. Count = Len(text)
  BY <1>1 DEF Count
<1>4. Held(Len(text))'
  BY <1>1, <1>2, <1>3 DEF Held, cells
<1>5. past' \in 0 .. Size + 1
  BY <1>1, <1>2, BatchType, SizesAssumption DEF TypeOK, ProgramTypes
<1>6. CellTypes' /\ ChunkTypes' /\ ProgramTypes'
  BY <1>1, <1>2, <1>5 DEF TypeOK, CellTypes, ChunkTypes, ProgramTypes, cells, chunks
<1>7. FileOK' /\ ChunksCover' /\ RowsFaithful'
  BY <1>1, <1>2 DEF FileOK, ChunksCover, RowsFaithful, cells, chunks
<1>8. io' \in [ci : Nat, lo : 0 .. Size, hi : 0 .. Size, got : 0 .. Size]
  BY <1>1, <1>2 DEF TypeOK
<1> QED
  BY <1>1, <1>4, <1>6, <1>7, <1>8, IdleInv DEF Consistent

\* find_slot begins at the head or at cell 0.
LEMMA FindSlotInv ==
    ASSUME Consistent, FindSlot
    PROVE  Consistent'
<1> SUFFICES ASSUME IInv PROVE IInv'
  BY DEF Consistent
<1>1. /\ pc = "find" /\ pc' = "search" /\ tested' = 0
      /\ headCur' \in {0, head} /\ slot' = Search!Begun
      /\ UNCHANGED <<cells, chunks, program, call, io>>
  BY DEF FindSlot, Search!StartAt
<1>2. /\ TypeOK /\ FileOK /\ Stack /\ ChunksCover /\ RowsFaithful
      /\ Held(Count) /\ Preparing
  BY <1>1 DEF IInv
<1>3. PICK n \in Nat, len \in Nat \ {0} :
          /\ n = past + at /\ n = (past + at)' /\ n = Count /\ n = Count'
          /\ len = UbatchLen /\ len = UbatchLen'
  <2>1. UbatchLen \in Nat \ {0} /\ past + at \in Nat
    BY <1>2, SizesAssumption
       DEF Preparing, SubBatch, UbatchLen, TypeOK, CallTypes, ProgramTypes
  <2> QED
    BY <1>1, <2>1 DEF Count, UbatchLen, call, program
<1>4. head <= n /\ n \in 0 .. Size /\ head \in 0 .. Size
  BY <1>2, <1>3 DEF Held, TypeOK, CellTypes
<1>5. slot' \in {Search!NoSlot, Search!Searching} /\ (len <= Size => slot' = Search!Searching)
  BY <1>1, <1>3, SizesAssumption DEF Search!Begun
<1>6. SearchTypes'
  BY <1>1, <1>4, <1>5, SizesAssumption DEF SearchTypes
<1>7. TypeOK'
  <2>1. CellTypes' /\ ChunkTypes'
    BY <1>1, <1>2, Zenon DEF TypeOK, CellTypes, ChunkTypes, cells, chunks
  <2>2. ProgramTypes' /\ CallTypes' /\ io' = io
    BY <1>1, <1>2, Zenon DEF TypeOK, ProgramTypes, CallTypes, program, call
  <2> QED
    BY <1>2, <1>6, <2>1, <2>2, Zenon DEF TypeOK
<1>8. Searched'
  <2>1. headCur' <= n /\ 0 <= headCur' /\ tested' <= headCur'
    BY <1>1, <1>4
  <2>2. slot' \notin Cells
    BY <1>5, SizesAssumption DEF Cells, Search!NoSlot, Search!Searching
  <2>3. n + len <= Size => slot' # Search!NoSlot
    BY <1>3, <1>5, SizesAssumption DEF Search!NoSlot, Search!Searching
  <2> QED
    BY <1>3, <2>1, <2>2, <2>3 DEF Searched
<1>9. FileOK' /\ Stack' /\ ChunksCover' /\ RowsFaithful' /\ SavedFilesLoad'
  BY <1>1, <1>2
     DEF FileOK, Stack, ChunksCover, RowsFaithful, SavedFilesLoad, cells, chunks, program, call
<1>10. Held(Count)'
  BY <1>1, <1>2, <1>3 DEF Held, cells
<1>11. Preparing'
  BY <1>1, <1>2 DEF Preparing, SubBatch, Chain, program, call
<1> QED
  BY <1>1, <1>7, <1>8, <1>9, <1>10, <1>11 DEF IInv

\* The numbers of a ubatch that is being placed.
LEMMA Numbers ==
    ASSUME Consistent, pc \in {"find", "search", "process", "compute"}
    PROVE  /\ UbatchLen \in Nat \ {0} /\ UbatchLen <= UBatch
           /\ past \in Nat /\ at \in Nat /\ end \in Nat /\ start \in Nat
           /\ past + at \in Nat /\ past + at <= Size
           /\ at < end /\ at + UbatchLen <= end
           /\ at + UbatchLen # end => UbatchLen = UBatch
           /\ Len(text) \in Nat
<1> IInv
  BY DEF Consistent
<1>1. TypeOK /\ SubBatch /\ at < end
  BY DEF IInv, Preparing, Processing
<1>2. past \in Nat /\ at \in Nat /\ end \in Nat /\ Len(text) \in Nat
  BY <1>1, SizesAssumption DEF TypeOK, ProgramTypes, CallTypes
<1>3. start \in Nat
  <2>1. Len(batch) \in Nat /\ start \in 0 .. Len(batch)
    BY <1>1, BatchType DEF TypeOK, CallTypes
  <2> QED
    BY <2>1
<1>4. /\ UbatchLen \in Nat \ {0} /\ UbatchLen <= UBatch /\ at + UbatchLen <= end
      /\ at + UbatchLen # end => UbatchLen = UBatch
  BY <1>1, <1>2, SizesAssumption DEF UbatchLen
<1>5. past + at <= Size
  <2>1. Held(Count)
    BY DEF IInv
  <2>2. CASE pc \in {"find", "search"}
    BY <2>1, <2>2 DEF Held, Count
  <2>3. CASE pc \in {"process", "compute"}
    <3>1. past + end <= Size
      BY <2>3 DEF IInv, Processing
    <3> QED
      BY <1>1, <1>2, <3>1, SizesAssumption
  <2> QED
    BY <2>2, <2>3
<1> QED
  BY <1>1, <1>2, <1>3, <1>4, <1>5

\* A step of find_slot: it reaches the first free cell and takes it, or it is
\* past the end.
LEMMA SearchStepInv ==
    ASSUME Consistent, SearchStep
    PROVE  Consistent'
<1> SUFFICES ASSUME IInv PROVE IInv'
  BY DEF Consistent
<1>1. /\ pc = "search" /\ UNCHANGED <<pos, seqPos, chunks, program, pc, call, io>>
      /\ Search!Step
  BY DEF SearchStep
<1>2. UNCHANGED <<used, head>>
  BY <1>1 DEF Search!Step, Search!Wrap, Search!Found, Search!Skip
<1>3. /\ TypeOK /\ FileOK /\ Stack /\ ChunksCover /\ RowsFaithful
      /\ Held(Count) /\ Preparing /\ Searched
  BY <1>1 DEF IInv
<1>4. PICK n \in Nat, len \in Nat \ {0} :
          /\ n = past + at /\ n = (past + at)' /\ n = Count /\ n = Count'
          /\ len = UbatchLen /\ len = UbatchLen'
  <2>1. UbatchLen \in Nat \ {0} /\ past + at \in Nat
    BY <1>1, Numbers
  <2>2. UbatchLen' = UbatchLen /\ Count = past + at /\ Count' = past + at
        /\ (past + at)' = past + at
    BY <1>1 DEF Count, UbatchLen, call, program
  <2> QED
    BY <2>1, <2>2, Zenon
<1>5. n \in 0 .. Size /\ used = 0 .. n - 1
  BY <1>3, <1>4 DEF Held
<1>6. PICK h \in 0 .. Size, t \in Nat : h = headCur /\ t = tested /\ h <= n
                                     /\ (n + len <= Size => t <= h)
  BY <1>3, <1>4 DEF TypeOK, SearchTypes, Searched
<1>7. SearchTypes' /\ Searched'
  <2>1. CASE Search!Wrap
    <3>1. /\ slot = Search!Searching /\ slot' = slot /\ h + len > Size
          /\ tested' = t + (Size - h) /\ headCur' = 0
      BY <1>4, <1>6, <2>1 DEF Search!Wrap
    <3>2. slot' \notin Cells /\ ~ (n + len <= Size)
      BY <1>5, <1>6, <3>1, SizesAssumption DEF Cells, Search!Searching
    <3>3. t + (Size - h) \in Nat /\ 0 \in 0 .. Size /\ 0 <= n
      BY <1>6, SizesAssumption
    <3> QED
      BY <1>4, <3>1, <3>2, <3>3, Zenon DEF SearchTypes, Searched
  <2>2. CASE Search!Found
    <3>1. /\ slot' = h /\ h + len <= Size /\ headCur' = h /\ tested' = t
          /\ \A i \in 0 .. len - 1 : h + i \notin used
      BY <1>4, <1>6, <2>2 DEF Search!Found
    <3>2. h + 0 \notin used
      BY <3>1
    <3>3. h = n /\ h \in Cells /\ h # Search!NoSlot
      BY <1>5, <1>6, <3>1, <3>2, SizesAssumption DEF Cells, Search!NoSlot
    <3> QED
      BY <1>4, <1>6, <3>1, <3>3, Zenon DEF SearchTypes, Searched
  <2>3. CASE \E i \in 0 .. UbatchLen - 1 : Search!Skip(i)
    <3>1. PICK i \in 0 .. len - 1 :
              /\ h + i \in used /\ headCur' = h + i + 1 /\ tested' = t + i + 1
              /\ slot' = IF tested' >= Size THEN Search!NoSlot ELSE Search!Searching
      BY <1>4, <1>6, <2>3 DEF Search!Skip, Search!GivesUp
    <3>2. h + i + 1 \in 0 .. Size /\ h + i + 1 <= n /\ t + i + 1 \in Nat
          /\ (n + len <= Size => t + i + 1 <= h + i + 1 /\ ~ (t + i + 1 >= Size))
      BY <1>5, <1>6, <3>1, SizesAssumption
    <3>3. slot' \in {Search!NoSlot, Search!Searching} /\ Search!NoSlot # Search!Searching
          /\ (n + len <= Size => slot' = Search!Searching)
      <4>1. Search!NoSlot # Search!Searching
        BY DEF Search!NoSlot, Search!Searching
      <4> QED
        BY <3>1, <3>2, <4>1, Zenon
    <3>4. slot' \notin Cells
      BY <3>3, SizesAssumption DEF Cells, Search!NoSlot, Search!Searching
    <3> QED
      BY <1>4, <3>1, <3>2, <3>3, <3>4, Zenon DEF SearchTypes, Searched
  <2> QED
    BY <1>1, <2>1, <2>2, <2>3 DEF Search!Step
<1>8. TypeOK'
  BY <1>1, <1>2, <1>3, <1>7, Zenon
     DEF TypeOK, CellTypes, ChunkTypes, ProgramTypes, CallTypes, chunks, program, call
<1>9. FileOK' /\ Stack' /\ ChunksCover' /\ RowsFaithful' /\ SavedFilesLoad'
  BY <1>1, <1>2, <1>3
     DEF FileOK, Stack, ChunksCover, RowsFaithful, SavedFilesLoad, chunks, program, call
<1>10. Held(Count)'
  BY <1>1, <1>2, <1>3, <1>4 DEF Held
<1>11. Preparing'
  BY <1>1, <1>3 DEF Preparing, SubBatch, Chain, program, call
<1> QED
  BY <1>1, <1>7, <1>8, <1>9, <1>10, <1>11 DEF IInv

\* Growing covers the cells it is for.
LEMMA GrowsCovers ==
    ASSUME NEW n \in 0 .. Size, ChunkTypes, Grows(n)
    PROVE  /\ nChunks' \in 1 .. ChunksFor(Size)
           /\ \A c \in 0 .. n - 1 : c < nChunks' * T
           /\ \A c \in Nat : c < nChunks * T => c < nChunks' * T
           /\ Grown(n) \in [Cells -> Tokens \union {Zero}]
           /\ \A c \in Cells : c < nChunks * T => Grown(n)[c] = row[c]
<1>1. ChunksFor(n) \in Nat /\ n <= ChunksFor(n) * T /\ ChunksFor(n) <= ChunksFor(Size)
      /\ ChunksFor(Size) \in Nat
  BY ChunksForCovers, ChunksForMono, SizesAssumption
<1>2. PICK a \in Nat, m \in Nat, b \in Nat :
          a = ChunksFor(n) /\ m = nChunks /\ m >= 1 /\ m <= ChunksFor(Size)
          /\ b = nChunks' /\ (b = IF a <= m THEN m ELSE a)
  BY <1>1 DEF Grows, ChunkTypes
<1>3. a <= b /\ m <= b /\ b >= 1 /\ b <= ChunksFor(Size)
  BY <1>1, <1>2
<1>4. PICK aT \in Nat, mT \in Nat, bT \in Nat :
          aT = a * T /\ mT = m * T /\ bT = b * T /\ aT <= bT /\ mT <= bT
  BY <1>3, TimesIn, TimesMono, Zenon
<1>5. n <= aT
  BY <1>1, <1>2, <1>4
<1>6. (\A c \in 0 .. n - 1 : c < bT) /\ (\A c \in Nat : c < mT => c < bT)
  BY <1>4, <1>5, SizesAssumption
<1>7. Grown(n) \in [Cells -> Tokens \union {Zero}]
  BY DEF Grown, ChunkTypes
<1>8. \A c \in Cells : c < mT => Grown(n)[c] = row[c]
  BY <1>2, <1>4, SizesAssumption DEF Grown, Cells
<1>9. b \in 1 .. ChunksFor(Size)
  BY <1>1, <1>3
<1> QED
  BY <1>2, <1>4, <1>6, <1>7, <1>8, <1>9, Zenon

\* One more slot, where the last ubatch ended.
LEMMA ChainAppend ==
    ASSUME NEW hs \in Seq(Cells), NEW a \in Nat, NEW n \in Cells, NEW len \in Nat \ {0},
           len <= UBatch,
           (hs = << >> /\ n = a) \/ (Chain(hs, a, n) /\ hs[Len(hs)] + UBatch = n)
    PROVE  Chain(Append(hs, n), a, n + len)
<1>1. PICK m \in Nat, new \in Seq(Cells) :
          /\ m = Len(hs) /\ new = Append(hs, n) /\ new # << >> /\ Len(new) = m + 1
          /\ (\A i \in 1 .. m : new[i] = hs[i]) /\ new[m + 1] = n
  <2>1. Len(hs) \in Nat
    OBVIOUS
  <2>2. /\ Append(hs, n) \in Seq(Cells) /\ Append(hs, n) # << >>
        /\ Len(Append(hs, n)) = Len(hs) + 1
        /\ \A i \in 1 .. Len(hs) : Append(hs, n)[i] = hs[i]
        /\ Append(hs, n)[Len(hs) + 1] = n
    BY AppendFacts
  <2> QED
    BY <2>1, <2>2, Zenon
<1>2. \A i \in 1 .. m : hs[i] \in Nat /\ hs[i] < n
  <2>1. \A i \in 1 .. m : hs[i] \in Cells
    BY <1>1
  <2>2. \A i \in 1 .. m : hs[i] < n
    BY <1>1 DEF Chain
  <2> QED
    BY <2>1, <2>2, SizesAssumption DEF Cells
<1>3. n \in Nat /\ n < n + len /\ n + len <= n + UBatch
  BY SizesAssumption DEF Cells
<1>4. \A k \in 1 .. m + 1 : new[k] < n + len
  BY <1>1, <1>2, <1>3
<1>5. new[1] = a
  <2>1. CASE hs = << >>
    BY <1>1, <2>1 DEF Chain
  <2>2. CASE hs # << >>
    <3>1. 1 \in 1 .. m /\ hs[1] = a
      BY <1>1, <2>2 DEF Chain
    <3> QED
      BY <1>1, <3>1
  <2> QED
    BY <2>1, <2>2
<1>6. ASSUME NEW k \in 1 .. m
      PROVE  new[k + 1] = new[k] + UBatch
  <2>1. Chain(hs, a, n) /\ hs[m] + UBatch = n
    BY <1>1
  <2>2. CASE k = m
    BY <1>1, <2>1, <2>2
  <2>3. CASE k # m
    <3>1. k \in 1 .. m - 1 /\ k + 1 \in 1 .. m
      BY <2>3
    <3>2. hs[k + 1] = hs[k] + UBatch
      BY <1>1, <2>1, <3>1 DEF Chain
    <3> QED
      BY <1>1, <3>1, <3>2
  <2> QED
    BY <2>2, <2>3
<1> QED
  BY <1>1, <1>3, <1>4, <1>5, <1>6 DEF Chain

-----------------------------------------------------------------------------
(* Calls between decodes.                                                  *)

\* A rewind cuts the text and the cells at the same place.
LEMMA RewindInv ==
    ASSUME Consistent, NEW p \in 0 .. past, Rewind(p)
    PROVE  Consistent'
<1> SUFFICES ASSUME IInv PROVE IInv'
  BY DEF Consistent
<1>1. /\ pc = "idle" /\ SeqRm(p) /\ past' = p
      /\ text' = SubSeq(text, 1, IF p < Len(text) THEN p ELSE Len(text))
      /\ UNCHANGED <<chunks, file, pc, call, search, io>>
  BY DEF Rewind
<1>2. /\ TypeOK /\ FileOK /\ ChunksCover /\ RowsFaithful /\ Held(Count)
      /\ states = << >> /\ heads = << >>
  BY <1>1 DEF IInv
<1>3. past \in Nat /\ past <= Size + 1 /\ text \in Seq(Tokens) /\ head \in Nat
  BY <1>2, SizesAssumption DEF TypeOK, ProgramTypes, CellTypes
<1>4. p \in Nat /\ p \in 0 .. Size + 1
  BY <1>3, SizesAssumption
<1>5. PICK n \in Nat, m \in Nat : n = Len(text) /\ (m = IF p < n THEN p ELSE n) /\ m <= n
  BY <1>3, <1>4
<1>6. Held(n) /\ used = 0 .. n - 1
  <2>1. Count = n
    BY <1>1, <1>5 DEF Count
  <2> QED
    BY <1>2, <2>1 DEF Held
<1>7. Held(m)' /\ head' \in Nat
  BY <1>1, <1>3, <1>4, <1>5, <1>6, SeqRmHeld, Zenon
<1>8. CellTypes'
  BY <1>7, HeldTypes, Zenon
<1>9. used' = 0 .. m - 1 /\ used' \subseteq used
  <2>1. used' = 0 .. m - 1
    BY <1>7 DEF Held
  <2> QED
    BY <1>5, <1>6, <2>1
<1>10. text' \in Seq(Tokens) /\ Len(text') = m /\ \A i \in 1 .. m : text'[i] = text[i]
  <2>1. text' = SubSeq(text, 1, m)
    BY <1>1, <1>5, Zenon
  <2>2. \A i \in 1 .. m : text[i] \in Tokens
    <3>1. \A i \in 1 .. m : i \in 1 .. Len(text)
      BY <1>5
    <3> QED
      BY <1>3, <3>1
  <2>3. 1 \in Int /\ m \in Int
    OBVIOUS
  <2>4. /\ SubSeq(text, 1, m) \in Seq(Tokens)
        /\ Len(SubSeq(text, 1, m)) = IF 1 <= m THEN m - 1 + 1 ELSE 0
        /\ \A i \in 1 .. m - 1 + 1 : SubSeq(text, 1, m)[i] = text[1 + i - 1]
    BY <2>2, <2>3
  <2>5. m - 1 + 1 = m /\ (~ (1 <= m) => m = 0) /\ \A i \in 1 .. m : 1 + i - 1 = i
    OBVIOUS
  <2> QED
    BY <2>1, <2>4, <2>5, Zenon
<1>11. ChunkTypes' /\ ProgramTypes' /\ CallTypes' /\ SearchTypes'
  BY <1>1, <1>2, <1>4, <1>10, Zenon
     DEF TypeOK, ChunkTypes, ProgramTypes, CallTypes, SearchTypes, chunks, call, search
<1>12. RowsFaithful'
  <2>1. ASSUME NEW c \in used'
        PROVE  row'[c] = text'[c + 1]
    <3>1. c \in used /\ c < n /\ c + 1 \in 1 .. m
      BY <1>5, <1>9
    <3>2. row[c] = text[c + 1]
      BY <1>1, <1>2, <1>5, <3>1 DEF RowsFaithful
    <3> QED
      BY <1>1, <1>10, <3>1, <3>2 DEF chunks
  <2> QED
    BY <2>1 DEF RowsFaithful
<1>13. FileOK' /\ ChunksCover' /\ SavedFilesLoad' /\ states' = << >> /\ heads' = << >>
  BY <1>1, <1>2, <1>9 DEF FileOK, ChunksCover, SavedFilesLoad, chunks, call
<1>14. Held(Len(text))'
  BY <1>7, <1>10, Zenon
<1>15. io' \in [ci : Nat, lo : 0 .. Size, hi : 0 .. Size, got : 0 .. Size]
  BY <1>1, <1>2 DEF TypeOK
<1> QED
  BY <1>1, <1>8, <1>11, <1>12, <1>13, <1>14, <1>15, QuietInv DEF Consistent

\* The empty cache.
LEMMA ResetHeld ==
    ASSUME ResetCells
    PROVE  Held(0)' /\ CellTypes' /\ used' = {}
<1>1. 0 .. 0 - 1 = {} /\ (\A c \in Cells : ~ c < 0) /\ 0 \in 0 .. Size /\ 0 <= 0
  BY SizesAssumption DEF Cells
<1>2. pos' = [c \in Cells |-> IF c < 0 THEN c ELSE None]
  BY <1>1 DEF ResetCells
<1>3. Held(0)'
  BY <1>1, <1>2, Zenon DEF ResetCells, Held
<1>4. head' \in Nat
  BY DEF ResetCells
<1>5. CellTypes'
  BY <1>3, <1>4, HeldTypes, Zenon
<1> QED
  BY <1>3, <1>5 DEF ResetCells

\* llama_memory_clear.
LEMMA ClearInv ==
    ASSUME Consistent, Clear
    PROVE  Consistent'
<1> SUFFICES ASSUME IInv PROVE IInv'
  BY DEF Consistent
<1>1. /\ pc = "idle" /\ ResetCells /\ past' = 0 /\ text' = << >>
      /\ row' \in {row, [c \in Cells |-> IF c < T THEN Zero ELSE row[c]]}
      /\ UNCHANGED <<nChunks, lastChunk, file, pc, call, search, io>>
  BY DEF Clear
<1>2. TypeOK /\ FileOK /\ states = << >> /\ heads = << >>
  BY <1>1 DEF IInv
<1>3. row' \in [Cells -> Tokens \union {Zero}]
  BY <1>1, <1>2 DEF TypeOK, ChunkTypes
<1>4. ChunkTypes' /\ CallTypes' /\ SearchTypes'
  BY <1>1, <1>2, <1>3, Zenon DEF TypeOK, ChunkTypes, CallTypes, SearchTypes, call, search
<1>5. ProgramTypes' /\ Len(text') = 0
  BY <1>1, <1>2, SizesAssumption DEF TypeOK, ProgramTypes
<1>6. FileOK' /\ SavedFilesLoad' /\ states' = << >> /\ heads' = << >>
  BY <1>1, <1>2 DEF FileOK, SavedFilesLoad, call
<1>7. Held(Len(text))' /\ CellTypes' /\ ChunksCover' /\ RowsFaithful'
  BY <1>1, <1>5, ResetHeld, Zenon DEF ChunksCover, RowsFaithful
<1>8. io' \in [ci : Nat, lo : 0 .. Size, hi : 0 .. Size, got : 0 .. Size]
  BY <1>1, <1>2 DEF TypeOK
<1> QED
  BY <1>1, <1>4, <1>5, <1>6, <1>7, <1>8, QuietInv DEF Consistent

\* A new process.
LEMMA RestartInv ==
    ASSUME Consistent, Restart
    PROVE  Consistent'
<1> SUFFICES ASSUME IInv PROVE IInv'
  BY DEF Consistent
<1>1. /\ ResetCells /\ nChunks' = 1 /\ row' = [c \in Cells |-> Zero] /\ lastChunk' = 0
      /\ past' = 0 /\ text' = << >> /\ pc' = "idle" /\ io' = NoIO /\ Forgotten
      /\ UNCHANGED file
  BY DEF Restart
<1>2. TypeOK /\ FileOK
  BY DEF IInv
<1>3. ChunkTypes'
  <2>1. ChunksFor(Size) \in Nat /\ 1 <= ChunksFor(Size)
    BY <1>2, ChunksForCovers, SizesAssumption DEF TypeOK, ChunkTypes
  <2> QED
    BY <1>1, <2>1 DEF ChunkTypes
<1>4. ProgramTypes' /\ Len(text') = 0
  BY <1>1, <1>2, SizesAssumption DEF TypeOK, ProgramTypes
<1>5. FileOK'
  BY <1>1, <1>2 DEF FileOK
<1>6. Held(Len(text))' /\ CellTypes' /\ ChunksCover' /\ RowsFaithful'
  BY <1>1, <1>4, ResetHeld, Zenon DEF ChunksCover, RowsFaithful
<1>7. io' \in [ci : Nat, lo : 0 .. Size, hi : 0 .. Size, got : 0 .. Size]
  BY <1>1, SizesAssumption DEF NoIO
<1> QED
  BY <1>1, <1>3, <1>4, <1>5, <1>6, <1>7, IdleInv DEF Consistent

-----------------------------------------------------------------------------
(* prepare.                                                                *)

\* The recovery stack with one more entry.
LEMMA StackAppend ==
    ASSUME NEW ss \in Seq(Entry), NEW a \in Nat, NEW e \in Entry, Stacked(ss, a),
           IF ss = << >> THEN e.new = a ELSE ss[Len(ss)].new + ss[Len(ss)].len = e.new,
           e.len > 0, e.old <= e.new, e.new >= a, e.new + e.len <= Size,
           \A c \in Cells : c >= e.new => e.pos[c] = None
    PROVE  Stacked(Append(ss, e), a)
<1>1. PICK m \in Nat, new \in Seq(Entry) :
          /\ m = Len(ss) /\ new = Append(ss, e) /\ new # << >> /\ Len(new) = m + 1
          /\ (\A i \in 1 .. m : new[i] = ss[i]) /\ new[m + 1] = e
  <2>1. Len(ss) \in Nat
    OBVIOUS
  <2>2. /\ Append(ss, e) \in Seq(Entry) /\ Append(ss, e) # << >>
        /\ Len(Append(ss, e)) = Len(ss) + 1
        /\ \A i \in 1 .. Len(ss) : Append(ss, e)[i] = ss[i]
        /\ Append(ss, e)[Len(ss) + 1] = e
    BY AppendFacts, Zenon
  <2> QED
    BY <2>1, <2>2, Zenon
<1>2. new[1].new = a
  <2>1. CASE ss = << >>
    BY <1>1, <2>1
  <2>2. CASE ss # << >>
    <3>1. 1 \in 1 .. m /\ ss[1].new = a
      BY <1>1, <2>2 DEF Stacked
    <3> QED
      BY <1>1, <3>1
  <2> QED
    BY <2>1, <2>2
<1>3. ASSUME NEW k \in 1 .. m + 1
      PROVE  /\ new[k].len > 0 /\ new[k].old <= new[k].new
             /\ new[k].new >= a /\ new[k].new + new[k].len <= Size
             /\ \A c \in Cells : c >= new[k].new => new[k].pos[c] = None
             /\ k < m + 1 => new[k].new + new[k].len = new[k + 1].new
  <2>1. CASE k = m + 1
    <3>1. new[k] = e /\ ~ (k < m + 1)
      BY <1>1, <2>1
    <3> QED
      BY <3>1, Zenon
  <2>2. CASE k \in 1 .. m
    <3>1. new[k] = ss[k]
      BY <1>1, <2>2
    <3>2. /\ ss[k].len > 0 /\ ss[k].old <= ss[k].new
          /\ ss[k].new >= a /\ ss[k].new + ss[k].len <= Size
          /\ \A c \in Cells : c >= ss[k].new => ss[k].pos[c] = None
          /\ k < m => ss[k].new + ss[k].len = ss[k + 1].new
      BY <1>1, <2>2, Zenon DEF Stacked
    <3>3. ss[k].new + ss[k].len = new[k + 1].new
      <4>1. CASE k = m
        <5>1. ss # << >> /\ new[k + 1] = e
          BY <1>1, <2>2, <4>1
        <5> QED
          BY <1>1, <4>1, <5>1, Zenon
      <4>2. CASE k # m
        <5>1. k < m /\ k + 1 \in 1 .. m
          BY <2>2, <4>2
        <5> QED
          BY <1>1, <3>2, <5>1, Zenon
      <4> QED
        BY <4>1, <4>2
    <3> QED
      BY <3>1, <3>2, <3>3, Zenon
  <2> QED
    BY <2>1, <2>2
<1> QED
  BY <1>1, <1>2, <1>3, Zenon DEF Stacked

\* A ubatch is placed in the slot that was found for it.
LEMMA PlaceInv ==
    ASSUME Consistent, Place
    PROVE  Consistent'
<1> SUFFICES ASSUME IInv PROVE IInv'
  BY DEF Consistent
<1>1. /\ pc = "search" /\ slot \in Cells
      /\ heads' = Append(heads, slot) /\ states' = Append(states, Remembered(slot))
      /\ Grows(slot + UbatchLen) /\ row' = Grown(slot + UbatchLen) /\ PlaceAt(slot)
      /\ at' = at + UbatchLen /\ pc' = IF at' = end THEN "unwind" ELSE "find"
      /\ UNCHANGED <<lastChunk, past, text, file, batch, start, end, search, io>>
  BY DEF Place, program
<1>2. /\ TypeOK /\ FileOK /\ Stack /\ ChunksCover /\ RowsFaithful
      /\ Held(Count) /\ Preparing /\ Searched
  BY <1>1 DEF IInv
<1>3. PICK n \in Nat, len \in Nat \ {0}, l \in Nat, p0 \in Nat, s0 \in Nat, e0 \in Nat,
           a0 \in Nat, a1 \in Nat :
          /\ n = past + at /\ len = UbatchLen /\ l = Len(text)
          /\ p0 = past /\ s0 = start /\ e0 = end /\ a0 = at /\ a1 = at + UbatchLen
          /\ len <= UBatch /\ a1 <= e0 /\ (a1 # e0 => len = UBatch)
  <2>1. /\ UbatchLen \in Nat \ {0} /\ UbatchLen <= UBatch
        /\ past \in Nat /\ at \in Nat /\ end \in Nat /\ start \in Nat
        /\ past + at \in Nat /\ at + UbatchLen <= end
        /\ (at + UbatchLen # end => UbatchLen = UBatch) /\ Len(text) \in Nat
    BY <1>1, Numbers, Zenon
  <2>2. at + UbatchLen \in Nat
    BY <2>1
  <2> QED
    BY <2>1, <2>2, Zenon
<1>4. slot = n /\ n + len <= Size /\ Held(n) /\ n \in Cells
  BY <1>1, <1>2, <1>3, Zenon DEF Searched, Count
<1>5. n = p0 + a0 /\ a1 = a0 + len /\ p0 + a1 = n + len /\ s0 <= a0 /\ p0 + s0 = l /\ l <= n
  <2>1. n = p0 + a0 /\ a1 = a0 + len /\ s0 <= a0 /\ p0 + s0 = l
    BY <1>2, <1>3, Zenon DEF Preparing, SubBatch
  <2> QED
    BY <2>1
<1>6. Held(n + len)'
  <2>1. PlaceAt(n)
    BY <1>1, <1>4
  <2> QED
    BY <1>3, <1>4, <2>1, PlaceHeld, Zenon
<1>7. head' = n + len /\ used' = 0 .. n + len - 1 /\ n + len \in Nat /\ n + len \in 0 .. Size
  <2>1. head' = n + len
    BY <1>1, <1>3, <1>4 DEF PlaceAt
  <2> QED
    BY <1>4, <1>6, <2>1, SizesAssumption DEF Held
<1>8. CellTypes'
  BY <1>6, <1>7, HeldTypes, Zenon
<1>9. ChunkTypes /\ Grows(n + len) /\ row' = Grown(n + len)
  BY <1>1, <1>2, <1>3, <1>4, Zenon DEF TypeOK
<1>10. /\ nChunks' \in 1 .. ChunksFor(Size)
       /\ \A c \in 0 .. n + len - 1 : c < nChunks' * T
       /\ row' \in [Cells -> Tokens \union {Zero}]
       /\ \A c \in Cells : c < nChunks * T => row'[c] = row[c]
  <2>1. PICK m \in 0 .. Size : m = n + len
    BY <1>7, Zenon
  <2>2. Grows(m) /\ row' = Grown(m)
    BY <1>9, <2>1, Zenon
  <2>3. /\ nChunks' \in 1 .. ChunksFor(Size)
        /\ \A c \in 0 .. m - 1 : c < nChunks' * T
        /\ Grown(m) \in [Cells -> Tokens \union {Zero}]
        /\ \A c \in Cells : c < nChunks * T => Grown(m)[c] = row[c]
    BY <1>9, <2>2, GrowsCovers
  <2>4. \A c \in 0 .. n + len - 1 : c < nChunks' * T
    <3>1. \A c \in 0 .. n + len - 1 : c \in 0 .. m - 1
      BY <2>1
    <3> QED
      BY <2>3, <3>1, Zenon
  <2>5. row' \in [Cells -> Tokens \union {Zero}]
    BY <2>2, <2>3, Zenon
  <2>6. \A c \in Cells : c < nChunks * T => row'[c] = row[c]
    BY <2>2, <2>3, Zenon
  <2> QED
    BY <2>3, <2>4, <2>5, <2>6, Zenon
<1>11. ChunkTypes' /\ ChunksCover'
  BY <1>1, <1>7, <1>9, <1>10, Zenon DEF ChunkTypes, ChunksCover
<1>12. RowsFaithful'
  <2>1. ASSUME NEW c \in used', c < l
        PROVE  row'[c] = text[c + 1]
    <3>1. c \in 0 .. n - 1
      BY <1>5, <1>7, <2>1
    <3>2. c \in used /\ c \in Cells
      BY <1>2, <1>4, <3>1 DEF Held, TypeOK, CellTypes
    <3> QED
      BY <1>1, <1>2, <1>3, <1>10, <2>1, <3>2, Zenon DEF ChunksCover, RowsFaithful
  <2> QED
    BY <1>1, <1>3, <2>1, Zenon DEF RowsFaithful
<1>13. PICK e \in Entry : e = Remembered(slot) /\ e.old = head /\ e.new = n /\ e.len = len
                         /\ e.pos = pos
  <2>1. head \in Nat /\ pos \in [Cells -> {None} \union 0 .. Size]
    BY <1>2, SizesAssumption DEF TypeOK, CellTypes
  <2>2. Remembered(slot) = [old |-> head, new |-> n, len |-> len, pos |-> pos]
    BY <1>3, <1>4 DEF Remembered
  <2> QED
    BY <2>1, <2>2 DEF Entry
<1>14. heads \in Seq(Cells) /\ states \in Seq(Entry)
  BY <1>2 DEF TypeOK, CallTypes
<1>15. heads' = Append(heads, n) /\ states' = Append(states, e)
  BY <1>1, <1>4, <1>13, Zenon
<1>16. (heads = << >> /\ n = l) \/ (Chain(heads, l, n) /\ heads[Len(heads)] + UBatch = n)
  <2>1. CASE at = start /\ heads = << >>
    BY <1>3, <1>5, <2>1
  <2>2. CASE /\ Chain(heads, past + start, past + at)
             /\ heads[Len(heads)] + UBatch = past + at
    BY <1>3, <1>5, <2>2, Zenon
  <2> QED
    BY <1>2, <2>1, <2>2, Zenon DEF Preparing
<1>17. Chain(heads', l, n + len)
  BY <1>3, <1>4, <1>14, <1>15, <1>16, ChainAppend, Zenon
<1>18. IF states = << >> THEN n = l ELSE states[Len(states)].new + states[Len(states)].len = n
  <2>1. CASE at = start /\ states = << >>
    BY <1>3, <1>5, <2>1
  <2>2. CASE /\ states # << >>
             /\ states[Len(states)].new + states[Len(states)].len = past + at
    BY <1>3, <2>2, Zenon
  <2> QED
    BY <1>2, <2>1, <2>2, Zenon DEF Preparing
<1>19. Stack'
  <2>1. head <= n /\ \A c \in Cells : c >= n => pos[c] = None
    BY <1>4, SizesAssumption DEF Held, Cells
  <2>2. len > 0 /\ n >= l
    BY <1>5
  <2>3. Stacked(states, l)
    BY <1>2, <1>3, Zenon DEF Stack
  <2>4. Stacked(Append(states, e), l)
    BY <1>4, <1>13, <1>14, <1>18, <2>1, <2>2, <2>3, StackAppend, Zenon
  <2> QED
    BY <1>1, <1>3, <1>15, <2>4, Zenon DEF Stack
<1>20. heads' \in Seq(Cells) /\ states' \in Seq(Entry) /\ states' # << >>
       /\ states'[Len(states')] = e /\ heads'[Len(heads')] = n
  <2>1. heads' \in Seq(Cells) /\ heads'[Len(heads')] = n
    BY <1>4, <1>14, <1>15, AppendFacts
  <2>2. states' \in Seq(Entry) /\ states' # << >> /\ states'[Len(states')] = e
    BY <1>13, <1>14, <1>15, AppendFacts
  <2> QED
    BY <2>1, <2>2
<1>21. at' = a1 /\ end' = end /\ past' = past /\ start' = start /\ batch' = batch /\ text' = text
  BY <1>1, <1>3
<1>22. CallTypes'
  BY <1>2, <1>20, <1>21, Zenon DEF TypeOK, CallTypes
<1>23. TypeOK'
  BY <1>1, <1>2, <1>8, <1>11, <1>22, Zenon
     DEF TypeOK, ProgramTypes, SearchTypes, search
<1>24. FileOK' /\ SavedFilesLoad'
  BY <1>1, <1>2 DEF FileOK, SavedFilesLoad
<1>25. SubBatch' /\ (past + start = Len(text))'
  <2>1. SubBatch /\ past + start = Len(text)
    BY <1>2 DEF Preparing
  <2>2. start <= a1 /\ a1 <= end
    BY <1>3, <1>5
  <2> QED
    BY <1>21, <2>1, <2>2, Zenon DEF SubBatch
<1>26. Chain(heads, past + start, past + at)'
  BY <1>3, <1>5, <1>17, <1>21, Zenon
<1>27. CASE a1 = e0
  <2>1. pc' = "unwind"
    BY <1>1, <1>3, <1>27
  <2>2. Count' = n + len
    BY <1>13, <1>20, <2>1 DEF Count
  <2>3. Held(Count)'
    BY <1>6, <2>2, Zenon
  <2>4. (at = end)' /\ (past + end)' = n + len
    BY <1>3, <1>5, <1>21, <1>27
  <2>5. (Chain(heads, past + start, past + end) /\ past + end <= Size)'
    BY <1>4, <1>21, <1>26, <2>4, Zenon
  <2> QED
    BY <1>11, <1>12, <1>19, <1>23, <1>24, <1>25, <2>1, <2>3, <2>5 DEF IInv
<1>28. CASE a1 # e0
  <2>1. pc' = "find"
    BY <1>1, <1>3, <1>28
  <2>2. Count' = n + len /\ (past + at)' = n + len
    BY <1>3, <1>5, <1>21, <2>1 DEF Count
  <2>3. Held(Count)'
    BY <1>6, <2>2, Zenon
  <2>4. (at < end)' /\ (heads[Len(heads)] + UBatch = past + at)'
        /\ (states[Len(states)].new + states[Len(states)].len = past + at)'
    <3>1. a1 < e0 /\ n + UBatch = n + len
      BY <1>3, <1>28
    <3> QED
      BY <1>3, <1>13, <1>20, <1>21, <2>2, <3>1, Zenon
  <2>5. Preparing'
    BY <1>20, <1>25, <1>26, <2>4, Zenon DEF Preparing
  <2> QED
    BY <1>11, <1>12, <1>19, <1>23, <1>24, <2>1, <2>3, <2>5 DEF IInv
<1> QED
  BY <1>27, <1>28

\* No slot: the ubatch passes the end of the cache.
LEMMA RefuseInv ==
    ASSUME Consistent, Refuse
    PROVE  Consistent' /\ past + end > Size
<1> SUFFICES ASSUME IInv PROVE IInv' /\ past + end > Size
  BY DEF Consistent
<1>1. /\ pc = "search" /\ slot = Search!NoSlot /\ pc' = "unwind"
      /\ UNCHANGED <<cells, chunks, program, call, search, io>>
  BY DEF Refuse
<1>2. /\ TypeOK /\ FileOK /\ Stack /\ ChunksCover /\ RowsFaithful
      /\ Held(Count) /\ Preparing /\ Searched
  BY <1>1 DEF IInv
<1>3. TypeOK'
  BY <1>1, <1>2, Zenon
     DEF TypeOK, CellTypes, ChunkTypes, ProgramTypes, CallTypes, SearchTypes,
         cells, chunks, program, call, search
<1>4. FileOK' /\ Stack' /\ ChunksCover' /\ RowsFaithful' /\ SavedFilesLoad'
  BY <1>1, <1>2, Zenon
     DEF FileOK, Stack, ChunksCover, RowsFaithful, SavedFilesLoad, cells, chunks, program, call
<1>5. Count' = Count
  <2>1. CASE states = << >>
    <3>1. Count' = Len(text) /\ Count = past + at
      BY <1>1, <2>1 DEF Count, program, call
    <3>2. past + at = Len(text)
      BY <1>2, <2>1, Zenon DEF Preparing
    <3> QED
      BY <3>1, <3>2
  <2>2. CASE states # << >>
    <3>1. Count' = states[Len(states)].new + states[Len(states)].len /\ Count = past + at
      BY <1>1, <2>2 DEF Count, program, call
    <3>2. states[Len(states)].new + states[Len(states)].len = past + at
      BY <1>2, <2>2, Zenon DEF Preparing
    <3> QED
      BY <3>1, <3>2
  <2> QED
    BY <2>1, <2>2
<1>6. Held(Count)'
  BY <1>1, <1>2, <1>5, Zenon DEF Held, cells
<1>7. SubBatch' /\ (past + start = Len(text))' /\ ~ (at = end)'
  <2>1. SubBatch /\ past + start = Len(text) /\ at # end
    <3>1. at \in Nat /\ end \in Nat
      BY <1>2 DEF TypeOK, CallTypes
    <3> QED
      BY <1>2, <3>1 DEF Preparing
  <2> QED
    BY <1>1, <2>1 DEF SubBatch, program, call
<1>8. past + end > Size
  <2>1. /\ UbatchLen \in Nat \ {0} /\ past \in Nat /\ at \in Nat /\ end \in Nat
        /\ at + UbatchLen <= end
    BY <1>1, Numbers
  <2>2. ~ (past + at + UbatchLen <= Size)
    BY <1>1, <1>2 DEF Searched
  <2> QED
    BY <2>1, <2>2, SizesAssumption
<1> QED
  BY <1>1, <1>3, <1>4, <1>6, <1>7, <1>8 DEF IInv

\* The program ends for want of memory.
LEMMA GrowFailsInv ==
    ASSUME Consistent, GrowFails \/ LoadFails
    PROVE  Consistent'
<1> SUFFICES ASSUME IInv PROVE IInv'
  BY DEF Consistent
<1>1. /\ pc \in {"search", "idle"} /\ pc' = "ended"
      /\ UNCHANGED <<cells, chunks, program, call, search, io>>
  BY DEF GrowFails, LoadFails
<1>2. /\ TypeOK /\ FileOK /\ Stack /\ ChunksCover /\ RowsFaithful /\ Held(Count)
  BY <1>1 DEF IInv
<1>3. TypeOK'
  BY <1>1, <1>2, Zenon
     DEF TypeOK, CellTypes, ChunkTypes, ProgramTypes, CallTypes, SearchTypes,
         cells, chunks, program, call, search
<1>4. FileOK' /\ Stack' /\ ChunksCover' /\ RowsFaithful' /\ SavedFilesLoad'
  BY <1>1, <1>2
     DEF FileOK, Stack, ChunksCover, RowsFaithful, SavedFilesLoad, cells, chunks, program, call
<1>5. \E n \in 0 .. Size : Held(n)'
  <2>1. PICK n \in 0 .. Size : n = Count
    BY <1>2 DEF Held
  <2>2. Held(n)'
    BY <1>1, <1>2, <2>1, Zenon DEF Held, cells
  <2> QED
    BY <2>2, Zenon
<1> QED
  BY <1>1, <1>3, <1>4, <1>5 DEF IInv

\* The stack without its last entry.
LEMMA StackPop ==
    ASSUME NEW ss \in Seq(Entry), NEW a \in Nat, Stacked(ss, a), ss # << >>
    PROVE  LET top == ss[Len(ss)]
               rest == SubSeq(ss, 1, Len(ss) - 1)
           IN  /\ top \in Entry /\ rest \in Seq(Entry) /\ Stacked(rest, a)
               /\ IF rest = << >> THEN top.new = a
                  ELSE rest[Len(rest)].new + rest[Len(rest)].len = top.new
               /\ top.old <= top.new
               /\ \A c \in Cells : c >= top.new => top.pos[c] = None
<1>1. PICK m \in Nat \ {0} : m = Len(ss)
  OBVIOUS
<1>2. PICK rest : rest = SubSeq(ss, 1, m - 1)
  BY Zenon
<1>3. \A i \in 1 .. m : ss[i] \in Entry
  BY <1>1
<1>4. /\ rest \in Seq(Entry) /\ Len(rest) = m - 1
      /\ \A i \in 1 .. m - 1 : rest[i] = ss[i]
  <2>1. \A i \in 1 .. m - 1 : ss[i] \in Entry
    BY <1>3
  <2> QED
    BY <1>2, <2>1
<1>5. PICK top \in Entry : top = ss[m]
  BY <1>3
<1>6. m \in 1 .. m /\ 1 \in 1 .. m
  OBVIOUS
<1>7. \A k \in 1 .. m :
         /\ ss[k].len > 0 /\ ss[k].old <= ss[k].new
         /\ ss[k].new >= a /\ ss[k].new + ss[k].len <= Size
         /\ \A c \in Cells : c >= ss[k].new => ss[k].pos[c] = None
         /\ k < m => ss[k].new + ss[k].len = ss[k + 1].new
  BY <1>1, Zenon DEF Stacked
<1>8. ss[1].new = a
  BY Zenon DEF Stacked
<1>9. Stacked(rest, a)
  <2>1. rest # << >> => rest[1].new = a
    <3>1. rest # << >> => 1 \in 1 .. m - 1
      BY <1>1, <1>4
    <3> QED
      BY <1>4, <1>8, <3>1, Zenon
  <2>2. ASSUME NEW k \in 1 .. m - 1
        PROVE  /\ rest[k].len > 0 /\ rest[k].old <= rest[k].new
               /\ rest[k].new >= a /\ rest[k].new + rest[k].len <= Size
               /\ \A c \in Cells : c >= rest[k].new => rest[k].pos[c] = None
               /\ k < m - 1 => rest[k].new + rest[k].len = rest[k + 1].new
    <3>1. k \in 1 .. m /\ k < m /\ (k < m - 1 => k + 1 \in 1 .. m - 1)
      OBVIOUS
    <3>2. rest[k] = ss[k] /\ (k < m - 1 => rest[k + 1] = ss[k + 1])
      BY <1>4, <3>1, Zenon
    <3> QED
      BY <1>7, <3>1, <3>2, Zenon
  <2> QED
    BY <1>4, <2>1, <2>2, Zenon DEF Stacked
<1>10. IF rest = << >> THEN top.new = a
       ELSE rest[Len(rest)].new + rest[Len(rest)].len = top.new
  <2>1. CASE rest = << >>
    <3>1. m = 1
      BY <1>4, <2>1
    <3> QED
      BY <1>5, <1>8, <2>1, <3>1, Zenon
  <2>2. CASE rest # << >>
    <3>1. m - 1 \in 1 .. m - 1 /\ m - 1 \in 1 .. m /\ m - 1 < m /\ (m - 1) + 1 = m
      BY <1>4, <2>2
    <3>2. rest[m - 1] = ss[m - 1] /\ ss[m - 1].new + ss[m - 1].len = ss[(m - 1) + 1].new
      BY <1>4, <1>7, <3>1, Zenon
    <3> QED
      BY <1>4, <1>5, <2>2, <3>1, <3>2, Zenon
  <2> QED
    BY <2>1, <2>2
<1>11. top.old <= top.new /\ \A c \in Cells : c >= top.new => top.pos[c] = None
  BY <1>5, <1>6, <1>7, Zenon
<1> QED
  BY <1>1, <1>2, <1>4, <1>5, <1>9, <1>10, <1>11, Zenon

\* prepare takes its last ubatch back.
LEMMA UnwindInv ==
    ASSUME Consistent, Unwind
    PROVE  Consistent'
<1> SUFFICES ASSUME IInv PROVE IInv'
  BY DEF Consistent
<1>1. /\ pc = "unwind" /\ states # << >> /\ Recover(states[Len(states)])
      /\ states' = SubSeq(states, 1, Len(states) - 1)
      /\ UNCHANGED <<chunks, program, pc, batch, start, end, at, heads, search, io>>
  BY DEF Unwind
<1>2. /\ TypeOK /\ FileOK /\ Stack /\ ChunksCover /\ RowsFaithful /\ Held(Count)
      /\ SubBatch /\ past + start = Len(text)
      /\ (at = end => Chain(heads, past + start, past + end) /\ past + end <= Size)
  BY <1>1 DEF IInv
<1>3. states \in Seq(Entry) /\ Len(text) \in Nat /\ Stacked(states, Len(text))
  BY <1>2 DEF TypeOK, CallTypes, ProgramTypes, Stack
<1>4. PICK top \in Entry, rest \in Seq(Entry) :
          /\ top = states[Len(states)] /\ rest = states' /\ Stacked(rest, Len(text))
          /\ IF rest = << >> THEN top.new = Len(text)
             ELSE rest[Len(rest)].new + rest[Len(rest)].len = top.new
          /\ top.old <= top.new
          /\ \A c \in Cells : c >= top.new => top.pos[c] = None
  BY <1>1, <1>3, StackPop, Zenon
<1>5. PICK n \in Nat, m \in Nat : m = top.new /\ n = m + top.len /\ n = Count
                               /\ top.len \in Nat /\ top.old \in Nat
  <2>1. top.new \in Nat /\ top.len \in Nat /\ top.old \in Nat
    BY DEF Entry
  <2>2. Count = top.new + top.len
    BY <1>1, <1>4 DEF Count
  <2> QED
    BY <2>1, <2>2
<1>6. Held(m)'
  <2>1. Held(n) /\ Recover(top)
    BY <1>1, <1>2, <1>4, <1>5, Zenon
  <2> QED
    BY <1>4, <1>5, <2>1, RecoverHeld, Zenon
<1>7. head' \in Nat
  BY <1>1, <1>4, <1>5, Zenon DEF Recover
<1>8. CellTypes'
  BY <1>6, <1>7, HeldTypes, Zenon
<1>9. used' \subseteq used
  <2>1. used = 0 .. n - 1 /\ used' = 0 .. m - 1 /\ m <= n
    BY <1>2, <1>5, <1>6 DEF Held
  <2> QED
    BY <2>1
<1>10. UNCHANGED <<nChunks, row, lastChunk, past, text, file>>
  BY <1>1 DEF chunks, program
<1>11. CallTypes'
  BY <1>1, <1>2, <1>4, Zenon DEF TypeOK, CallTypes
<1>12. TypeOK'
  <2>1. ChunkTypes' /\ ProgramTypes'
    BY <1>2, <1>10, Zenon DEF TypeOK, ChunkTypes, ProgramTypes
  <2>2. SearchTypes' /\ io' = io
    BY <1>1, <1>2, Zenon DEF TypeOK, SearchTypes, search
  <2> QED
    BY <1>2, <1>8, <1>11, <2>1, <2>2, Zenon DEF TypeOK
<1>13. FileOK' /\ SavedFilesLoad'
  BY <1>1, <1>2, <1>10, Zenon DEF FileOK, SavedFilesLoad
<1>14. ChunksCover' /\ RowsFaithful'
  BY <1>1, <1>2, <1>9, <1>10, Zenon DEF ChunksCover, RowsFaithful
<1>15. Stack'
  BY <1>4, <1>10, Zenon DEF Stack
<1>16. Count' = m
  <2>1. Count' = IF rest = << >> THEN Len(text) ELSE rest[Len(rest)].new + rest[Len(rest)].len
    BY <1>1, <1>4, <1>10 DEF Count
  <2> QED
    BY <1>4, <1>5, <2>1, Zenon
<1>17. Held(Count)'
  BY <1>6, <1>16, Zenon
<1>18. /\ SubBatch' /\ (past + start = Len(text))'
       /\ (at = end => Chain(heads, past + start, past + end) /\ past + end <= Size)'
  BY <1>1, <1>2, <1>10, Zenon DEF SubBatch
<1> QED
  BY <1>1, <1>12, <1>13, <1>14, <1>15, <1>17, <1>18, Zenon DEF IInv

\* prepare returns.  There are no holes, so that a refused batch moves nothing.
LEMMA PreparedInv ==
    ASSUME Counts, Consistent, Prepared
    PROVE  Consistent'
<1> SUFFICES ASSUME IInv PROVE IInv'
  BY DEF Consistent
<1>1. pc = "unwind" /\ states = << >> /\ UNCHANGED <<cells, chunks, text, file, io>>
  BY DEF Prepared
<1>2. /\ TypeOK /\ FileOK /\ Stack /\ ChunksCover /\ RowsFaithful /\ Held(Count)
      /\ SubBatch /\ past + start = Len(text)
      /\ (at = end => Chain(heads, past + start, past + end) /\ past + end <= Size)
  BY <1>1 DEF IInv
<1>3. Count = Len(text) /\ Len(text) \in Nat
  BY <1>1, <1>2 DEF Count, TypeOK, ProgramTypes
<1>4. Held(Len(text)) /\ Held(Len(text))'
  BY <1>1, <1>2, <1>3 DEF Held, cells
<1>5. start \in Nat /\ end \in Nat /\ at \in Nat
  <2>1. Len(batch) \in Nat /\ start \in 0 .. Len(batch)
    BY <1>2, BatchType DEF TypeOK, CallTypes
  <2>2. start \in Nat
    BY <2>1
  <2> QED
    BY <1>2, <2>2 DEF TypeOK, CallTypes
<1>6. CASE /\ at = end /\ pc' = "process" /\ at' = start
           /\ UNCHANGED <<past, batch, start, end, heads, states, search>>
  <2>1. CallTypes'
    BY <1>2, <1>5, <1>6 DEF TypeOK, CallTypes
  <2>2. TypeOK'
    <3>1. CellTypes' /\ ChunkTypes'
      BY <1>1, <1>2, <1>6, Zenon DEF TypeOK, CellTypes, ChunkTypes, cells, chunks
    <3>2. ProgramTypes' /\ SearchTypes' /\ io' = io
      BY <1>1, <1>2, <1>6, Zenon DEF TypeOK, ProgramTypes, SearchTypes, search
    <3> QED
      BY <1>2, <2>1, <3>1, <3>2, Zenon DEF TypeOK
  <2>3. FileOK' /\ Stack' /\ ChunksCover' /\ RowsFaithful' /\ SavedFilesLoad'
    <3>1. FileOK' /\ Stack'
      BY <1>1, <1>2, <1>6, Zenon DEF FileOK, Stack
    <3>2. ChunksCover' /\ RowsFaithful' /\ SavedFilesLoad'
      BY <1>1, <1>2, <1>6, Zenon DEF ChunksCover, RowsFaithful, SavedFilesLoad, cells, chunks
    <3> QED
      BY <3>1, <3>2
  <2>4. Held(Count)'
    <3>1. Count' = Len(text)'
      BY <1>6 DEF Count
    <3> QED
      BY <1>4, <3>1, Zenon
  <2>5. SubBatch'
    <3>1. start < end /\ start <= start /\ start <= end
      BY <1>2, <1>5 DEF SubBatch
    <3> QED
      BY <1>2, <1>6, <3>1, Zenon DEF SubBatch
  <2>6. Processing'
    <3>1. start < end
      BY <1>2 DEF SubBatch
    <3> QED
      BY <1>1, <1>2, <1>6, <2>5, <3>1, Zenon DEF Processing
  <2> QED
    BY <1>1, <1>6, <2>2, <2>3, <2>4, <2>6 DEF IInv
<1>7. CASE /\ at < end
           /\ IF \E c \in 0 .. Cardinality(used) - 1 : pos[c] = None
              THEN pc' = "defrag" /\ UNCHANGED <<past, call, search>>
              ELSE Fail
  <2>1. Fail
    <3>1. Cardinality(used) = Len(text) /\ \A c \in 0 .. Len(text) - 1 : pos[c] # None
      BY <1>3, <1>4, HeldFacts, Zenon
    <3> QED
      BY <1>7, <3>1, Zenon
  <2>2. UNCHANGED <<pos, used, seqPos, head, row, nChunks, lastChunk, text, file, io>>
    BY <1>1 DEF cells, chunks
  <2>3. CellTypes' /\ row' \in [Cells -> Tokens \union {Zero}]
    BY <1>2, <2>2 DEF TypeOK, CellTypes, ChunkTypes
  <2>4. \A c \in used' : c < Len(text) => row'[c] = text[c + 1]
    BY <1>1, <1>2, <2>2 DEF RowsFaithful
  <2>5. past + Len(batch) <= Size + 1
    BY <1>2 DEF SubBatch
  <2> QED
    BY <1>4, <2>1, <2>2, <2>3, <2>4, <2>5, FailInv DEF Consistent
<1> QED
  BY <1>6, <1>7, Zenon DEF Prepared
=============================================================================
