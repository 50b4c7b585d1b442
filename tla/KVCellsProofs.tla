--------------------------- MODULE KVCellsProofs ----------------------------
(***************************************************************************)
(* KVCells keeps its properties, for every size of the cache, the chunks,  *)
(* the ubatches and the batches.                                           *)
(*                                                                         *)
(* IInv is the inductive invariant.  Its core is Held: the cells in use    *)
(* are 0 .. n - 1, cell c holds position c, and n follows from what the    *)
(* program is doing (Count).  None of the properties is inductive without  *)
(* it: a slot is at the end of the text only because no hole is left, and  *)
(* none is left only because prepare's recovery stack (Stack) and its slot *)
(* list (Chain) line up with the ubatches.                                 *)
(*                                                                         *)
(* The steps of a decode up to the end of prepare and the calls between    *)
(* decodes are in KVCellsFacts; the ubatches of a prepared sub-batch and   *)
(* the state file come first here.                                         *)
(***************************************************************************)
EXTENDS KVCellsFacts

-----------------------------------------------------------------------------
(* The ubatches of a prepared sub-batch, one after the other.              *)

\* A ubatch is applied: it begins where the text ends and stays in its chunk.
LEMMA ApplyInv ==
    ASSUME Consistent, Apply
    PROVE  Consistent'
<1> SUFFICES ASSUME IInv PROVE IInv'
  BY DEF Consistent
<1>1. /\ pc = "process"
      /\ Grows(Head(heads) + UbatchLen) /\ row' = Grown(Head(heads) + UbatchLen)
      /\ PlaceAt(Head(heads)) /\ lastChunk' = Head(heads) \div T
      /\ pc' = IF (Head(heads) % T) + UbatchLen > T THEN "overrun" ELSE "compute"
      /\ UNCHANGED <<past, text, file, batch, start, end, at, heads, states, search, io>>
  BY DEF Apply, program, call
<1>2. /\ TypeOK /\ FileOK /\ Stack /\ ChunksCover /\ RowsFaithful /\ Held(Count)
      /\ Processing /\ states = << >>
  BY <1>1 DEF IInv
<1>3. PICK n \in Nat, len \in Nat \ {0}, p0 \in Nat, s0 \in Nat, e0 \in Nat, a0 \in Nat :
          /\ n = past + at /\ len = UbatchLen /\ n = Len(text) /\ n = Count
          /\ p0 = past /\ s0 = start /\ e0 = end /\ a0 = at /\ a0 + len <= e0
          /\ s0 <= a0 /\ p0 + e0 <= Size
  <2>1. /\ UbatchLen \in Nat \ {0} /\ past \in Nat /\ at \in Nat /\ end \in Nat
        /\ start \in Nat /\ past + at \in Nat /\ at + UbatchLen <= end
    BY <1>1, Numbers, Zenon
  <2>2. Count = Len(text)
    BY <1>1 DEF Count
  <2> QED
    BY <1>2, <2>1, <2>2, Zenon DEF Processing, SubBatch
<1>4. n = p0 + a0 /\ n + len <= p0 + e0 /\ n + len <= Size /\ n + len \in Nat
      /\ n + len \in 0 .. Size
  <2>1. n = p0 + a0
    BY <1>3, Zenon
  <2> QED
    BY <1>3, <2>1, SizesAssumption
<1>5. Head(heads) = n
  BY <1>2, <1>3 DEF Processing, Chain
<1>6. (n % T) + len <= T
  <2>1. \A p \in p0 + s0 + 1 .. p0 + e0 - 1 : p % T # 0
    BY <1>2, <1>3, Zenon DEF Processing, SubBatch
  <2>2. \A p \in n + 1 .. n + len - 1 : p \in p0 + s0 + 1 .. p0 + e0 - 1
    BY <1>3, <1>4
  <2>3. \A p \in n + 1 .. n + len - 1 : p % T # 0
    BY <2>1, <2>2, Zenon
  <2> QED
    BY <2>3, InChunk, Zenon
<1>7. pc' = "compute"
  <2>1. ~ ((n % T) + len > T)
    BY <1>6, DivMod, SizesAssumption
  <2> QED
    BY <1>1, <1>3, <1>5, <2>1, Zenon
<1>8. Held(n + len)' /\ head' = n + len
  <2>1. PlaceAt(n) /\ Held(n)
    BY <1>1, <1>2, <1>3, <1>5, Zenon
  <2>2. head' = n + len
    BY <1>3, <2>1 DEF PlaceAt
  <2> QED
    BY <1>3, <1>4, <2>1, <2>2, PlaceHeld, Zenon
<1>9. used' = 0 .. n + len - 1 /\ used = 0 .. n - 1
  BY <1>2, <1>3, <1>8 DEF Held
<1>10. CellTypes'
  BY <1>4, <1>8, HeldTypes, Zenon
<1>11. /\ nChunks' \in 1 .. ChunksFor(Size)
       /\ (\A c \in used' : c < nChunks' * T)
       /\ row' \in [Cells -> Tokens \union {Zero}]
       /\ \A c \in Cells : c < nChunks * T => row'[c] = row[c]
  <2>1. PICK m \in 0 .. Size : m = n + len
    BY <1>4, Zenon
  <2>2. ChunkTypes /\ Grows(m) /\ row' = Grown(m)
    BY <1>1, <1>2, <1>3, <1>5, <2>1, Zenon DEF TypeOK
  <2>3. /\ nChunks' \in 1 .. ChunksFor(Size)
        /\ \A c \in 0 .. m - 1 : c < nChunks' * T
        /\ Grown(m) \in [Cells -> Tokens \union {Zero}]
        /\ \A c \in Cells : c < nChunks * T => Grown(m)[c] = row[c]
    BY <2>2, GrowsCovers
  <2>4. used' = 0 .. m - 1
    BY <1>9, <2>1
  <2>5. row' \in [Cells -> Tokens \union {Zero}]
    BY <2>2, <2>3, Zenon
  <2>6. \A c \in Cells : c < nChunks * T => row'[c] = row[c]
    BY <2>2, <2>3, Zenon
  <2> QED
    BY <2>3, <2>4, <2>5, <2>6, Zenon
<1>12. lastChunk' = (past + at)' \div T /\ lastChunk' \in Nat
  <2>1. lastChunk' = n \div T /\ (past + at)' = n
    BY <1>1, <1>3, <1>5
  <2> QED
    BY <2>1, DivMod, Zenon
<1>13. ChunkTypes' /\ ChunksCover'
  BY <1>11, <1>12, Zenon DEF ChunkTypes, ChunksCover
<1>14. RowsFaithful'
  <2>1. ASSUME NEW c \in used', c < n
        PROVE  row'[c] = text[c + 1]
    <3>1. c \in used /\ c \in Cells
      BY <1>4, <1>9, <2>1, SizesAssumption DEF Cells
    <3>2. row[c] = text[c + 1] /\ c < nChunks * T
      BY <1>1, <1>2, <1>3, <2>1, <3>1 DEF RowsFaithful, ChunksCover
    <3> QED
      BY <1>11, <3>1, <3>2, Zenon
  <2> QED
    BY <1>1, <1>3, <2>1, Zenon DEF RowsFaithful
<1>15. TypeOK'
  BY <1>1, <1>2, <1>10, <1>13, Zenon
     DEF TypeOK, ProgramTypes, CallTypes, SearchTypes, search
<1>16. FileOK' /\ Stack' /\ SavedFilesLoad' /\ states' = << >>
  BY <1>1, <1>2, <1>7 DEF FileOK, Stack, SavedFilesLoad
<1>17. Held(Count)'
  <2>1. UbatchLen' = UbatchLen
    BY <1>1 DEF UbatchLen
  <2>2. Count' = n + len
    BY <1>1, <1>3, <1>7, <2>1 DEF Count
  <2> QED
    BY <1>8, <2>2, Zenon
<1>18. Processing'
  BY <1>1, <1>2, Zenon DEF Processing, SubBatch
<1> QED
  BY <1>7, <1>12, <1>13, <1>14, <1>15, <1>16, <1>17, <1>18 DEF IInv

\* The copy kernel writes the ubatch's rows, and no row before them.
LEMMA WrittenRows ==
    ASSUME Consistent, pc = "compute"
    PROVE  /\ Written \in [Cells -> Tokens \union {Zero}]
           /\ \A c \in Cells :
                Written[c] = IF c >= Len(text) /\ c < Len(text) + UbatchLen
                             THEN batch[at + (c - Len(text)) + 1] ELSE row[c]
<1> IInv
  BY DEF Consistent
<1>1. /\ TypeOK /\ Processing /\ lastChunk = (past + at) \div T
  BY DEF IInv
<1>2. PICK n \in Nat, len \in Nat \ {0}, a0 \in Nat, e0 \in Nat, l \in Nat :
          /\ n = past + at /\ len = UbatchLen /\ n = Len(text) /\ a0 = at /\ e0 = end
          /\ a0 + len <= e0 /\ l = Len(batch) /\ e0 <= l
  <2>1. /\ UbatchLen \in Nat \ {0} /\ past + at \in Nat /\ at \in Nat /\ end \in Nat
        /\ at + UbatchLen <= end
    BY Numbers, Zenon
  <2>2. Len(batch) \in Nat
    BY <1>1, BatchType DEF TypeOK, CallTypes
  <2> QED
    BY <1>1, <2>1, <2>2, Zenon DEF Processing, SubBatch
<1>3. Head(heads) = n
  BY <1>1, <1>2 DEF Processing, Chain
<1>4. lastChunk * T + (Head(heads) % T) = n
  <2>1. n = (n \div T) * T + (n % T)
    BY DivMod, Zenon
  <2> QED
    BY <1>1, <1>2, <1>3, <2>1, Zenon
<1>5. Written = [c \in Cells |-> IF c - n >= 0 /\ c - n < len
                                THEN batch[a0 + (c - n) + 1] ELSE row[c]]
  BY <1>2, <1>4, Zenon DEF Written
<1>6. ASSUME NEW c \in Cells
      PROVE  /\ (c - n >= 0 /\ c - n < len) <=> (c >= n /\ c < n + len)
             /\ c - n >= 0 /\ c - n < len => a0 + (c - n) + 1 \in 1 .. l
  BY <1>2, SizesAssumption DEF Cells
<1>7. \A k \in 1 .. l : batch[k] \in Tokens
  <2>1. batch \in Seq(Tokens)
    BY <1>1, BatchType DEF TypeOK, CallTypes
  <2> QED
    BY <1>2, <2>1
<1>8. ASSUME NEW c \in Cells
      PROVE  Written[c] \in Tokens \union {Zero}
  <2>1. row[c] \in Tokens \union {Zero}
    BY <1>1 DEF TypeOK, ChunkTypes
  <2>2. CASE c - n >= 0 /\ c - n < len
    <3>1. batch[a0 + (c - n) + 1] \in Tokens
      BY <1>6, <1>7, <2>2, Zenon
    <3> QED
      BY <1>5, <2>2, <3>1, Zenon
  <2>3. CASE ~ (c - n >= 0 /\ c - n < len)
    BY <1>5, <2>1, <2>3, Zenon
  <2> QED
    BY <2>2, <2>3
<1>9. Written \in [Cells -> Tokens \union {Zero}]
  BY <1>5, <1>8, Zenon
<1>10. ASSUME NEW c \in Cells
       PROVE  Written[c] = IF c >= n /\ c < n + len THEN batch[a0 + (c - n) + 1] ELSE row[c]
  BY <1>5, <1>6, Zenon
<1> QED
  BY <1>2, <1>9, <1>10, Zenon

\* The slots after the first.
LEMMA ChainTail ==
    ASSUME NEW hs \in Seq(Cells), NEW a \in Nat, NEW b \in Nat, Chain(hs, a, b)
    PROVE  /\ Tail(hs) \in Seq(Cells)
           /\ b <= a + UBatch => Tail(hs) = << >>
           /\ b > a + UBatch => Chain(Tail(hs), a + UBatch, b)
<1>1. PICK m \in Nat \ {0} : m = Len(hs)
  BY DEF Chain
<1>2. PICK tl \in Seq(Cells) :
          tl = Tail(hs) /\ Len(tl) = m - 1 /\ \A i \in 1 .. m - 1 : tl[i] = hs[i + 1]
  <2>1. hs # << >>
    BY DEF Chain
  <2>2. /\ Tail(hs) \in Seq(Cells) /\ Len(Tail(hs)) = Len(hs) - 1
        /\ \A i \in 1 .. Len(Tail(hs)) : Tail(hs)[i] = hs[i + 1]
    BY <2>1
  <2> QED
    BY <1>1, <2>2, Zenon
<1>3. /\ hs[1] = a /\ (\A k \in 1 .. m - 1 : hs[k + 1] = hs[k] + UBatch)
      /\ (\A k \in 1 .. m : hs[k] < b) /\ b <= hs[m] + UBatch
  BY <1>1, Zenon DEF Chain
<1>4. \A k \in 1 .. m : hs[k] \in Nat
  <2>1. \A k \in 1 .. m : hs[k] \in Cells
    BY <1>1
  <2> QED
    BY <2>1, SizesAssumption DEF Cells
<1>5. m > 1 => 1 \in 1 .. m - 1 /\ 2 \in 1 .. m /\ hs[2] = a + UBatch /\ hs[2] < b
  <2>1. m > 1 => 1 \in 1 .. m - 1 /\ 2 \in 1 .. m /\ 1 + 1 = 2
    OBVIOUS
  <2> QED
    BY <1>3, <2>1
<1>6. ASSUME b <= a + UBatch
      PROVE  tl = << >>
  <2>1. m = 1
    <3>1. ~ (m > 1)
      BY <1>5, <1>6, SizesAssumption
    <3> QED
      BY <3>1
  <2>2. Len(tl) = 0
    BY <1>2, <2>1
  <2> QED
    BY <2>2
<1>7. ASSUME b > a + UBatch
      PROVE  Chain(tl, a + UBatch, b)
  <2>1. m > 1
    <3>1. m = 1 => b <= a + UBatch
      BY <1>3
    <3> QED
      BY <1>7, <3>1, SizesAssumption
  <2>2. tl # << >> /\ tl[1] = a + UBatch
    <3>1. 1 \in 1 .. m - 1 /\ 1 + 1 = 2 /\ Len(tl) # 0
      BY <1>2, <2>1
    <3>2. tl # << >>
      BY <3>1
    <3> QED
      BY <1>2, <1>5, <2>1, <3>1, <3>2, Zenon
  <2>3. ASSUME NEW k \in 1 .. m - 2
        PROVE  tl[k + 1] = tl[k] + UBatch
    <3>1. k \in 1 .. m - 1 /\ k + 1 \in 1 .. m - 1
      OBVIOUS
    <3>2. tl[k + 1] = hs[(k + 1) + 1] /\ tl[k] = hs[k + 1]
      BY <1>2, <3>1
    <3>3. hs[(k + 1) + 1] = hs[k + 1] + UBatch
      BY <1>3, <3>1, Zenon
    <3> QED
      BY <3>2, <3>3
  <2>4. \A k \in 1 .. m - 1 : tl[k] < b
    <3>1. \A k \in 1 .. m - 1 : k + 1 \in 1 .. m
      OBVIOUS
    <3> QED
      BY <1>2, <1>3, <3>1, Zenon
  <2>5. tl[m - 1] = hs[m]
    <3>1. m - 1 \in 1 .. m - 1 /\ (m - 1) + 1 = m
      BY <2>1
    <3> QED
      BY <1>2, <3>1
  <2>6. Len(tl) = m - 1 /\ Len(tl) - 1 = m - 2
    BY <1>2
  <2>7. b <= tl[Len(tl)] + UBatch
    BY <1>3, <2>5, <2>6
  <2>8. \A k \in 1 .. Len(tl) - 1 : tl[k + 1] = tl[k] + UBatch
    BY <2>3, <2>6, Zenon
  <2>9. \A k \in 1 .. Len(tl) : tl[k] < b
    BY <2>4, <2>6, Zenon
  <2> QED
    BY <2>2, <2>7, <2>8, <2>9, Zenon DEF Chain
<1> QED
  BY <1>2, <1>6, <1>7

\* new is t with the len tokens of b after token a.
Extends(new, t, b, a, len) ==
    /\ new \in Seq(Tokens) /\ Len(new) = Len(t) + len
    /\ \A i \in 1 .. Len(t) : new[i] = t[i]
    /\ \A i \in 1 .. len : new[Len(t) + i] = b[a + i]

\* The ubatch's tokens join the text.
LEMMA TextGrows ==
    ASSUME NEW t \in Seq(Tokens), NEW b \in Seq(Tokens), NEW a \in Nat, NEW len \in Nat \ {0},
           a + len <= Len(b)
    PROVE  Extends(t \o SubSeq(b, a + 1, a + len), t, b, a, len)
<1>1. PICK l \in Nat, n \in Nat : l = Len(b) /\ n = Len(t)
  OBVIOUS
<1>2. \A i \in a + 1 .. a + len : b[i] \in Tokens
  <2>1. \A i \in a + 1 .. a + len : i \in 1 .. l
    BY <1>1
  <2> QED
    BY <1>1, <2>1
<1>3. PICK u \in Seq(Tokens) :
          u = SubSeq(b, a + 1, a + len) /\ Len(u) = len /\ \A i \in 1 .. len : u[i] = b[a + i]
  <2>1. PICK x \in Int, y \in Int : x = a + 1 /\ y = a + len
    OBVIOUS
  <2>2. /\ SubSeq(b, x, y) \in Seq(Tokens)
        /\ Len(SubSeq(b, x, y)) = IF x <= y THEN y - x + 1 ELSE 0
        /\ \A i \in 1 .. y - x + 1 : SubSeq(b, x, y)[i] = b[x + i - 1]
    <3>1. \A i \in x .. y : b[i] \in Tokens
      BY <1>2, <2>1
    <3> QED
      BY <3>1
  <2>3. y - x + 1 = len /\ x <= y /\ \A i \in 1 .. len : x + i - 1 = a + i
    BY <2>1
  <2>4. \A i \in 1 .. len : SubSeq(b, x, y)[i] = b[a + i]
    BY <2>2, <2>3, Zenon
  <2> QED
    BY <2>1, <2>2, <2>3, <2>4, Zenon
<1>4. PICK new : new = t \o u
  BY Zenon
<1>5. /\ new \in Seq(Tokens) /\ Len(new) = n + len
      /\ \A i \in 1 .. n + len : new[i] = IF i <= n THEN t[i] ELSE u[i - n]
  <2>1. /\ t \o u \in Seq(Tokens) /\ Len(t \o u) = Len(t) + Len(u)
        /\ \A i \in 1 .. Len(t) + Len(u) :
              (t \o u)[i] = IF i <= Len(t) THEN t[i] ELSE u[i - Len(t)]
    OBVIOUS
  <2> QED
    BY <1>1, <1>3, <1>4, <2>1, Zenon
<1>6. \A i \in 1 .. n : new[i] = t[i]
  <2>1. \A i \in 1 .. n : i \in 1 .. n + len /\ i <= n
    OBVIOUS
  <2> QED
    BY <1>5, <2>1, Zenon
<1>7. \A i \in 1 .. len : new[n + i] = b[a + i]
  <2>1. \A i \in 1 .. len : n + i \in 1 .. n + len /\ ~ (n + i <= n) /\ (n + i) - n = i
    OBVIOUS
  <2>2. \A i \in 1 .. len : new[n + i] = u[i]
    BY <1>5, <2>1
  <2> QED
    BY <1>3, <2>2, Zenon
<1> QED
  BY <1>1, <1>3, <1>4, <1>5, <1>6, <1>7, Zenon DEF Extends

\* The graph is computed: the text and its rows grow by the ubatch.
LEMMA ComputeOKInv ==
    ASSUME Consistent, ComputeOK
    PROVE  Consistent'
<1> SUFFICES ASSUME IInv PROVE IInv'
  BY DEF Consistent
<1>1. /\ pc = "compute" /\ row' = Written
      /\ text' = text \o SubSeq(batch, at + 1, at + UbatchLen)
      /\ heads' = Tail(heads) /\ at' = at + UbatchLen
      /\ IF at' = end THEN start' = end /\ pc' = "split"
         ELSE pc' = "process" /\ UNCHANGED start
      /\ UNCHANGED <<cells, nChunks, lastChunk, past, file, batch, end, states, search, io>>
  BY DEF ComputeOK
<1>2. /\ TypeOK /\ FileOK /\ ChunksCover /\ RowsFaithful /\ Held(Count)
      /\ Processing /\ states = << >>
  BY <1>1 DEF IInv
<1>3. PICK n \in Nat, len \in Nat \ {0}, p0 \in Nat, e0 \in Nat, a0 \in Nat, a1 \in Nat,
           s0 \in Nat, l \in Nat :
          /\ n = past + at /\ len = UbatchLen /\ n = Len(text) /\ s0 = start /\ l = Len(batch)
          /\ p0 = past /\ e0 = end /\ a0 = at /\ a1 = at' /\ a1 = a0 + len /\ a1 <= e0
          /\ len <= UBatch /\ (a1 # e0 => len = UBatch)
          /\ e0 <= l /\ s0 <= a0 /\ p0 + e0 <= Size /\ p0 + l <= Size + 1
  <2>1. /\ UbatchLen \in Nat \ {0} /\ UbatchLen <= UBatch
        /\ past \in Nat /\ at \in Nat /\ end \in Nat /\ start \in Nat
        /\ past + at \in Nat /\ at + UbatchLen <= end
        /\ (at + UbatchLen # end => UbatchLen = UBatch)
    BY <1>1, Numbers, Zenon
  <2>2. at + UbatchLen \in Nat
    BY <2>1
  <2>3. Len(batch) \in Nat
    BY <1>2, BatchType DEF TypeOK, CallTypes
  <2> QED
    BY <1>1, <1>2, <2>1, <2>2, <2>3, Zenon DEF Processing, SubBatch
<1>4. n = p0 + a0 /\ n + len = p0 + a1 /\ n + len <= p0 + e0 /\ n + len <= Size
      /\ n + len \in Nat /\ p0 + e0 \in Nat /\ s0 <= a1
  <2>1. n = p0 + a0
    BY <1>3, Zenon
  <2> QED
    BY <1>3, <2>1, SizesAssumption
<1>5. Held(n + len) /\ used = 0 .. n + len - 1
  <2>1. Count = n + len
    BY <1>1, <1>3 DEF Count
  <2> QED
    BY <1>2, <2>1 DEF Held
<1>6. text \in Seq(Tokens) /\ batch \in Seq(Tokens) /\ a0 + len <= Len(batch)
  <2>1. text \in Seq(Tokens) /\ batch \in Seq(Tokens)
    BY <1>2, BatchType DEF TypeOK, CallTypes, ProgramTypes
  <2>2. a0 + len <= l
    BY <1>3
  <2> QED
    BY <1>3, <2>1, <2>2, Zenon
<1>7. /\ text' \in Seq(Tokens) /\ Len(text') = n + len
      /\ (\A i \in 1 .. n : text'[i] = text[i])
      /\ \A i \in 1 .. len : text'[n + i] = batch[a0 + i]
  <2>1. Extends(text', text, batch, a0, len)
    <3>1. Extends(text \o SubSeq(batch, a0 + 1, a0 + len), text, batch, a0, len)
      BY <1>6, TextGrows, Zenon
    <3> QED
      BY <1>1, <1>3, <3>1, Zenon
  <2> QED
    BY <1>3, <2>1, Zenon DEF Extends
<1>8. /\ row' \in [Cells -> Tokens \union {Zero}]
      /\ \A c \in Cells : row'[c] = IF c >= n /\ c < n + len
                                   THEN batch[a0 + (c - n) + 1] ELSE row[c]
  BY <1>1, <1>3, WrittenRows, Zenon
<1>9. UNCHANGED <<pos, used, seqPos, head>>
  BY <1>1 DEF cells
<1>10. CellTypes' /\ ChunkTypes' /\ ProgramTypes'
  BY <1>1, <1>2, <1>7, <1>8, <1>9, Zenon DEF TypeOK, CellTypes, ChunkTypes, ProgramTypes
<1>11. RowsFaithful'
  <2>1. ASSUME NEW c \in 0 .. n + len - 1
        PROVE  row'[c] = text'[c + 1]
    <3>1. c \in Cells
      BY <1>4, SizesAssumption DEF Cells
    <3>2. CASE c < n
      <4>1. c \in used /\ c + 1 \in 1 .. n /\ ~ (c >= n)
        BY <1>5, <3>2
      <4>2. row[c] = text[c + 1]
        BY <1>1, <1>2, <1>3, <3>2, <4>1 DEF RowsFaithful
      <4> QED
        BY <1>7, <1>8, <3>1, <4>1, <4>2, Zenon
    <3>3. CASE c >= n
      <4>1. PICK i \in 1 .. len : i = (c - n) + 1 /\ n + i = c + 1 /\ a0 + i = a0 + (c - n) + 1
        BY <3>3
      <4>2. c < n + len
        OBVIOUS
      <4>3. row'[c] = batch[a0 + i]
        BY <1>8, <3>1, <3>3, <4>1, <4>2, Zenon
      <4> QED
        BY <1>7, <4>1, <4>3, Zenon
    <3> QED
      BY <3>2, <3>3
  <2>2. used' = 0 .. n + len - 1
    BY <1>5, <1>9
  <2> QED
    BY <2>1, <2>2, Zenon DEF RowsFaithful
<1>12. heads \in Seq(Cells) /\ Chain(heads, n, p0 + e0)
  BY <1>2, <1>3, Zenon DEF TypeOK, CallTypes, Processing
<1>13. /\ heads' \in Seq(Cells)
       /\ p0 + e0 <= n + UBatch => heads' = << >>
       /\ p0 + e0 > n + UBatch => Chain(heads', n + UBatch, p0 + e0)
  BY <1>1, <1>4, <1>12, ChainTail, Zenon
<1>14. FileOK' /\ ChunksCover'
  BY <1>1, <1>2, <1>9, Zenon DEF FileOK, ChunksCover
<1>15. states' = << >> /\ past' = past /\ end' = end /\ batch' = batch
  BY <1>1, <1>2
<1>16. Stack'
  BY <1>15 DEF Stack, Stacked
<1>17. Held(n + len)'
  BY <1>5, <1>9, Zenon DEF Held
<1>18. start' \in 0 .. Len(batch)
  <2>1. s0 \in 0 .. l /\ e0 \in 0 .. l
    BY <1>3
  <2> QED
    BY <1>1, <1>3, <2>1, Zenon
<1>19. CallTypes'
  <2>1. end \in Nat /\ at' \in Nat /\ batch \in Batches \union {<< >>}
    BY <1>2, <1>3 DEF TypeOK, CallTypes
  <2>2. states' \in Seq(Entry)
    BY <1>15
  <2> QED
    BY <1>13, <1>15, <1>18, <2>1, <2>2, Zenon DEF CallTypes
<1>20. TypeOK'
  BY <1>1, <1>2, <1>10, <1>19, Zenon DEF TypeOK, SearchTypes, search
<1>21. batch' \in Batches /\ past' + Len(batch') <= Size + 1
  BY <1>2, <1>15 DEF Processing, SubBatch
<1>22. CASE a1 = e0
  <2>1. pc' = "split"
    BY <1>1, <1>3, <1>22
  <2>2. heads' = << >>
    <3>1. p0 + e0 <= n + UBatch
      BY <1>3, <1>4, <1>22, SizesAssumption
    <3> QED
      BY <1>13, <3>1
  <2>3. Held(Count)'
    <3>1. Count' = n + len
      BY <1>7, <2>1 DEF Count
    <3> QED
      BY <1>17, <3>1, Zenon
  <2>4. SavedFilesLoad'
    BY <2>1 DEF SavedFilesLoad
  <2> QED
    BY <1>11, <1>14, <1>15, <1>16, <1>20, <1>21, <2>1, <2>2, <2>3, <2>4 DEF IInv
<1>23. CASE a1 # e0
  <2>1. pc' = "process" /\ start' = start
    BY <1>1, <1>3, <1>23
  <2>2. Chain(heads', n + len, p0 + e0) /\ a1 < e0
    <3>1. len = UBatch
      BY <1>3, <1>23
    <3>2. a1 < e0 /\ p0 + e0 > n + len
      BY <1>3, <1>4, <1>23
    <3> QED
      BY <1>13, <3>1, <3>2, Zenon
  <2>3. Held(Count)'
    <3>1. Count' = n + len
      BY <1>7, <2>1 DEF Count
    <3> QED
      BY <1>17, <3>1, Zenon
  <2>4. SavedFilesLoad'
    BY <2>1 DEF SavedFilesLoad
  <2>5. SubBatch'
    <3>1. SubBatch
      BY <1>2 DEF Processing
    <3>2. start <= a1 /\ a1 <= end
      BY <1>3, <1>4, Zenon
    <3> QED
      BY <1>3, <1>15, <2>1, <3>1, <3>2, Zenon DEF SubBatch
  <2>6. (past + at)' = n + len /\ (past + end)' = p0 + e0
    BY <1>3, <1>4, <1>15
  <2>7. Processing'
    <3>1. (past + end <= Size)' /\ (at < end)'
      BY <1>3, <1>15, <2>2, <2>6, Zenon
    <3> QED
      BY <1>7, <2>2, <2>5, <2>6, <3>1, Zenon DEF Processing
  <2> QED
    BY <1>11, <1>14, <1>15, <1>16, <1>20, <2>1, <2>3, <2>4, <2>7 DEF IInv
<1> QED
  BY <1>22, <1>23

\* The graph fails: the ubatch's cells are freed, the rows of the text are intact.
LEMMA ComputeFailsInv ==
    ASSUME Consistent, ComputeFails
    PROVE  Consistent'
<1> SUFFICES ASSUME IInv PROVE IInv'
  BY DEF Consistent
<1>1. /\ pc = "compute" /\ row' \in {row, Written} /\ SeqRm(past + at) /\ Fail
      /\ UNCHANGED <<nChunks, lastChunk, text, file, io>>
  BY DEF ComputeFails
<1>2. TypeOK /\ RowsFaithful /\ Held(Count) /\ Processing
  BY <1>1 DEF IInv
<1>3. PICK n \in Nat, len \in Nat \ {0} :
          n = past + at /\ len = UbatchLen /\ n = Len(text)
  <2>1. UbatchLen \in Nat \ {0} /\ past + at \in Nat
    BY <1>1, Numbers, Zenon
  <2> QED
    BY <1>2, <2>1, Zenon DEF Processing
<1>4. Held(n + len) /\ used = 0 .. n + len - 1 /\ head \in Nat
  <2>1. Count = n + len
    BY <1>1, <1>3 DEF Count
  <2>2. head \in Nat
    BY <1>2, SizesAssumption DEF TypeOK, CellTypes
  <2> QED
    BY <1>2, <2>1, <2>2 DEF Held
<1>5. Held(n)' /\ head' \in Nat
  <2>1. PICK k \in Nat : k = n + len
    OBVIOUS
  <2>2. n = IF n < k THEN n ELSE k
    BY <2>1
  <2>3. SeqRm(n) /\ Held(k)
    BY <1>1, <1>3, <1>4, <2>1, Zenon
  <2> QED
    BY <1>4, <2>2, <2>3, SeqRmHeld, Zenon
<1>6. used' = 0 .. n - 1 /\ used' \subseteq used
  <2>1. used' = 0 .. n - 1
    BY <1>5 DEF Held
  <2> QED
    BY <1>4, <2>1
<1>7. CellTypes'
  BY <1>5, HeldTypes, Zenon
<1>8. row' \in [Cells -> Tokens \union {Zero}]
  <2>1. row \in [Cells -> Tokens \union {Zero}]
    BY <1>2 DEF TypeOK, ChunkTypes
  <2>2. Written \in [Cells -> Tokens \union {Zero}]
    BY <1>1, WrittenRows, Zenon
  <2> QED
    BY <1>1, <2>1, <2>2, Zenon
<1>9. ASSUME NEW c \in used'
      PROVE  row'[c] = text[c + 1]
  <2>1. c \in used /\ c \in Cells /\ c < n /\ ~ (c >= n)
    BY <1>2, <1>6 DEF TypeOK, CellTypes
  <2>2. row[c] = text[c + 1]
    BY <1>1, <1>2, <1>3, <2>1 DEF RowsFaithful
  <2>3. Written[c] = row[c]
    BY <1>1, <1>3, <2>1, WrittenRows, Zenon
  <2> QED
    BY <1>1, <2>2, <2>3, Zenon
<1>10. past + Len(batch) <= Size + 1
  BY <1>2 DEF Processing, SubBatch
<1>11. Held(Len(text))'
  BY <1>1, <1>3, <1>5, Zenon
<1> QED
  BY <1>1, <1>6, <1>7, <1>8, <1>9, <1>10, <1>11, FailInv, Zenon DEF Consistent

-----------------------------------------------------------------------------
(* The state file.                                                         *)

\* A function on 1 .. m is a sequence of length m.
LEMMA SeqOfFunction ==
    ASSUME NEW S, NEW m \in Nat, NEW f \in [1 .. m -> S]
    PROVE  f \in Seq(S) /\ Len(f) = m
<1>1. f \in Seq(S)
  OBVIOUS
<1>2. DOMAIN f = 1 .. m /\ Len(f) \in Nat /\ DOMAIN f = 1 .. Len(f)
  BY <1>1
<1>3. PICK l \in Nat : l = Len(f) /\ 1 .. l = 1 .. m
  BY <1>2, Zenon
<1>4. l = m
  <2>1. l > m => l \in 1 .. l /\ l \notin 1 .. m
    OBVIOUS
  <2>2. m > l => m \in 1 .. m /\ m \notin 1 .. l
    OBVIOUS
  <2> QED
    BY <1>3, <2>1, <2>2
<1> QED
  BY <1>1, <1>3, <1>4

\* s with the sequence f after it.
LEMMA Joined ==
    ASSUME NEW S, NEW s \in Seq(S), NEW m \in Nat, NEW f \in [1 .. m -> S]
    PROVE  /\ s \o f \in Seq(S) /\ Len(s \o f) = Len(s) + m
           /\ \A i \in 1 .. Len(s) : (s \o f)[i] = s[i]
           /\ \A i \in 1 .. m : (s \o f)[Len(s) + i] = f[i]
<1>1. f \in Seq(S) /\ Len(f) = m
  BY SeqOfFunction, Zenon
<1>2. PICK n \in Nat : n = Len(s)
  OBVIOUS
<1>3. /\ s \o f \in Seq(S) /\ Len(s \o f) = n + m
      /\ \A i \in 1 .. n + m : (s \o f)[i] = IF i <= n THEN s[i] ELSE f[i - n]
  <2>1. /\ s \o f \in Seq(S) /\ Len(s \o f) = Len(s) + Len(f)
        /\ \A i \in 1 .. Len(s) + Len(f) :
              (s \o f)[i] = IF i <= Len(s) THEN s[i] ELSE f[i - Len(s)]
    BY <1>1
  <2> QED
    BY <1>1, <1>2, <2>1, Zenon
<1>4. PICK g : g = s \o f
  BY Zenon
<1>5. \A i \in 1 .. n : i \in 1 .. n + m /\ i <= n
  OBVIOUS
<1>6. \A i \in 1 .. m : n + i \in 1 .. n + m /\ ~ (n + i <= n) /\ (n + i) - n = i
  OBVIOUS
<1>7. \A i \in 1 .. n : g[i] = s[i]
  BY <1>3, <1>4, <1>5, Zenon
<1>8. \A i \in 1 .. m : g[n + i] = f[i]
  <2>1. \A i \in 1 .. n + m : g[i] = IF i <= n THEN s[i] ELSE f[i - n]
    BY <1>3, <1>4, Zenon
  <2> HIDE <1>4
  <2> QED
    BY <1>6, <2>1
<1> QED
  BY <1>2, <1>3, <1>4, <1>7, <1>8, Zenon

\* Once every chunk of the range was visited, all its rows are there.
LEMMA AllRows ==
    ASSUME io.hi \in Nat, io.ci \in Nat, io.hi = 0 \/ io.ci > (io.hi - 1) \div T
    PROVE  RowsDone = io.hi
<1>1. PICK hi \in Nat, ci \in Nat : hi = io.hi /\ ci = io.ci
  BY Zenon
<1>2. PICK cT \in Nat : cT = ci * T
  BY TimesIn
<1>3. hi <= cT
  <2>1. CASE hi = 0
    BY <2>1
  <2>2. CASE hi # 0
    <3>1. PICK q \in Nat, qT \in Nat : q = (hi - 1) \div T /\ qT = q * T /\ hi <= qT + T
      <4>1. hi \in Nat \ {0}
        BY <2>2
      <4> QED
        BY <4>1, LastChunk, TimesIn, Zenon
    <3>2. q < ci
      <4>1. ci > q
        BY <1>1, <2>2, <3>1, Zenon
      <4> QED
        BY <4>1
    <3>3. qT + T <= cT
      BY <1>2, <3>1, <3>2, TimesStrict
    <3> QED
      BY <3>1, <3>3, SizesAssumption
  <2> QED
    BY <2>1, <2>2
<1>4. (IF cT <= hi THEN cT ELSE hi) = hi
  BY <1>3
<1> QED
  BY <1>1, <1>2, <1>4, Zenon DEF RowsDone

\* A state file is begun.
LEMMA SaveInv ==
    ASSUME Counts, Consistent, Save
    PROVE  Consistent'
<1> SUFFICES ASSUME IInv PROVE IInv'
  BY DEF Consistent
<1>1. /\ pc = "idle" /\ pc' = "save" /\ io' = NoIO
      /\ file' = [NoFile EXCEPT !.n = Cardinality(used), !.text = text]
      /\ UNCHANGED <<cells, chunks, past, text, call, search>>
  BY DEF Save
<1>2. /\ TypeOK /\ ChunksCover /\ RowsFaithful /\ Held(Count)
      /\ states = << >> /\ heads = << >>
  BY <1>1 DEF IInv
<1>3. PICK n \in Nat : n = Len(text) /\ n = Count /\ n <= Size
  BY <1>1, <1>2 DEF Count, TypeOK, ProgramTypes, Held
<1>4. Cardinality(used) = n
  BY <1>2, <1>3, HeldFacts, Zenon
<1>5. file' = [n |-> n, pos |-> << >>, rows |-> << >>, text |-> text, done |-> FALSE]
  <2>1. file' = [NoFile EXCEPT !.n = n, !.text = text]
    BY <1>1, <1>4, Zenon
  <2> QED
    BY <2>1, Zenon DEF NoFile
<1>6. file' \in [n : 0 .. Size, pos : Seq(Cells), rows : Seq(Tokens), text : Seq(Tokens),
                 done : BOOLEAN]
  BY <1>2, <1>3, <1>5, SizesAssumption DEF TypeOK, ProgramTypes
<1>7. CellTypes' /\ ChunkTypes' /\ ProgramTypes' /\ CallTypes' /\ SearchTypes'
  BY <1>1, <1>2, <1>6, Zenon
     DEF TypeOK, CellTypes, ChunkTypes, ProgramTypes, CallTypes, SearchTypes,
         cells, chunks, call, search
<1>8. FileOK'
  <2>1. file'.n = n /\ file'.text = text /\ file'.pos = << >> /\ file'.rows = << >>
        /\ file'.done = FALSE
    BY <1>5, Zenon
  <2>2. Len(file'.pos) = 0 /\ Len(file'.rows) = 0 /\ file'.n = Len(file'.text)
    BY <1>3, <2>1, Zenon
  <2>3. 0 <= n /\ 1 .. 0 = {} /\ (0 = n => 1 .. n = {})
    OBVIOUS
  <2> QED
    BY <2>1, <2>2, <2>3, Zenon DEF FileOK
<1>9. io' \in [ci : Nat, lo : 0 .. Size, hi : 0 .. Size, got : 0 .. Size]
  BY <1>1, SizesAssumption DEF NoIO
<1>10. Saving'
  <2>1. file'.text = text' /\ file'.pos = << >> /\ file'.rows = << >> /\ ~ file'.done
    <3>1. text' = text
      BY <1>1
    <3> QED
      BY <1>5, <3>1
  <2>2. io'.lo = 0 /\ io'.hi = 0 /\ io'.ci = 0
    BY <1>1 DEF NoIO
  <2> QED
    BY <2>1, <2>2, Zenon DEF Saving
<1>11. ChunksCover' /\ RowsFaithful' /\ SavedFilesLoad' /\ states' = << >> /\ heads' = << >>
  BY <1>1, <1>2 DEF ChunksCover, RowsFaithful, SavedFilesLoad, cells, chunks, call
<1>12. Held(Len(text))'
  BY <1>1, <1>2, <1>3, Zenon DEF Held, cells
<1> QED
  BY <1>1, <1>7, <1>8, <1>9, <1>10, <1>11, <1>12, QuietInv DEF Consistent

\* What a state file holds, field by field.
FileIs(f, n, ps, rs, t, d) ==
    f = [n |-> n, pos |-> ps, rows |-> rs, text |-> t, done |-> d]

\* A file is the record of its fields.
LEMMA FileFields ==
    ASSUME Consistent
    PROVE  \E n \in 0 .. Size, ps \in Seq(Cells), rs \in Seq(Tokens), t \in Seq(Tokens),
               d \in BOOLEAN :
             /\ FileIs(file, n, ps, rs, t, d)
             /\ file.n = n /\ file.pos = ps /\ file.rows = rs /\ file.text = t /\ file.done = d
<1> IInv
  BY DEF Consistent
<1>1. file \in [n : 0 .. Size, pos : Seq(Cells), rows : Seq(Tokens), text : Seq(Tokens),
                done : BOOLEAN]
  BY DEF IInv, TypeOK, ProgramTypes
<1>2. /\ file.n \in 0 .. Size /\ file.pos \in Seq(Cells) /\ file.rows \in Seq(Tokens)
      /\ file.text \in Seq(Tokens) /\ file.done \in BOOLEAN
  BY <1>1, Zenon
<1>3. FileIs(file, file.n, file.pos, file.rows, file.text, file.done)
  BY <1>1, Zenon DEF FileIs
<1> QED
  BY <1>2, <1>3, Zenon

\* The fields of a changed file.
LEMMA FileUpdate ==
    ASSUME NEW f, NEW n, NEW ps, NEW rs, NEW t, NEW d, FileIs(f, n, ps, rs, t, d), NEW x
    PROVE  /\ FileIs([f EXCEPT !.pos = x], n, x, rs, t, d)
           /\ FileIs([f EXCEPT !.rows = x], n, ps, x, t, d)
           /\ FileIs([f EXCEPT !.done = x], n, ps, rs, t, x)
<1>1. f = [n |-> n, pos |-> ps, rows |-> rs, text |-> t, done |-> d]
  BY DEF FileIs
<1>2. [f EXCEPT !.pos = x] = [n |-> n, pos |-> x, rows |-> rs, text |-> t, done |-> d]
  BY <1>1, SMT
<1>3. [f EXCEPT !.rows = x] = [n |-> n, pos |-> ps, rows |-> x, text |-> t, done |-> d]
  BY <1>1, SMT
<1>4. [f EXCEPT !.done = x] = [n |-> n, pos |-> ps, rows |-> rs, text |-> t, done |-> x]
  BY <1>1, SMT
<1> QED
  BY <1>2, <1>3, <1>4, Zenon DEF FileIs

\* What the fields of a file must be: those of its text, as far as it goes.
GoodFields(n, ps, rs, t, d) ==
    /\ n \in 0 .. Size /\ ps \in Seq(Cells) /\ rs \in Seq(Tokens) /\ t \in Seq(Tokens)
    /\ d \in BOOLEAN /\ n = Len(t)
    /\ Len(rs) <= n /\ \A k \in 1 .. Len(rs) : rs[k] = t[k]
    /\ Len(ps) = n => \A k \in 1 .. n : ps[k] = k - 1
    /\ Len(ps) <= n
    /\ d => Len(ps) = n /\ Len(rs) = n

\* Good fields make a good file.
LEMMA FileOKFields ==
    ASSUME NEW n, NEW ps, NEW rs, NEW t, NEW d,
           FileIs(file', n, ps, rs, t, d), GoodFields(n, ps, rs, t, d)
    PROVE  /\ FileOK'
           /\ file' \in [n : 0 .. Size, pos : Seq(Cells), rows : Seq(Tokens),
                         text : Seq(Tokens), done : BOOLEAN]
           /\ file'.n = n /\ file'.pos = ps /\ file'.rows = rs /\ file'.text = t
           /\ file'.done = d
<1>1. /\ file'.n = n /\ file'.pos = ps /\ file'.rows = rs /\ file'.text = t
      /\ file'.done = d
  BY Zenon DEF FileIs
<1>2. FileOK'
  BY <1>1, Zenon DEF FileOK, GoodFields
<1>3. file' \in [n : 0 .. Size, pos : Seq(Cells), rows : Seq(Tokens), text : Seq(Tokens),
                 done : BOOLEAN]
  BY Zenon DEF FileIs, GoodFields
<1> QED
  BY <1>1, <1>2, <1>3, Zenon

\* The only range of cells in use: all of them.
LEMMA SaveRangeInv ==
    ASSUME Consistent, SaveRange
    PROVE  Consistent'
<1> SUFFICES ASSUME IInv PROVE IInv'
  BY DEF Consistent
<1>1. pc = "save" /\ UNCHANGED <<cells, chunks, past, text, pc, call, search>>
  BY DEF SaveRange
<1>2. /\ TypeOK /\ FileOK /\ ChunksCover /\ RowsFaithful /\ Held(Count)
      /\ states = << >> /\ heads = << >> /\ Saving
  BY <1>1, Zenon DEF IInv
<1>3. PICK a \in Cells, b \in 1 .. Size :
         /\ a >= io.hi /\ a < b /\ a .. b - 1 \subseteq used /\ b \notin used
         /\ \A c \in io.hi .. a - 1 : c \notin used
         /\ io' = [io EXCEPT !.lo = a, !.hi = b, !.ci = a \div T]
         /\ file' = [file EXCEPT !.pos = @ \o [k \in 1 .. b - a |-> pos[a + k - 1]]]
  BY Zenon DEF SaveRange
<1>4. PICK n \in 0 .. Size, ps \in Seq(Cells), rs \in Seq(Tokens), t \in Seq(Tokens),
           d \in BOOLEAN :
             /\ FileIs(file, n, ps, rs, t, d)
             /\ file.n = n /\ file.pos = ps /\ file.rows = rs /\ file.text = t /\ file.done = d
  BY FileFields, Zenon
<1>5. t = text /\ n = Len(t) /\ d = FALSE /\ io.lo = 0
  BY <1>2, <1>4, Zenon DEF Saving, FileOK
<1>6. n \in Nat /\ used = 0 .. n - 1 /\ pos = [c \in Cells |-> IF c < n THEN c ELSE None]
      /\ Held(n)
  <2>1. Count = n /\ n \in Nat
    BY <1>1, <1>4, <1>5, SizesAssumption DEF Count
  <2> QED
    BY <1>2, <2>1 DEF Held
<1>7. a \in Nat /\ b \in Nat /\ a \in used /\ b - 1 \in used
  <2>1. a \in Nat /\ b \in Nat /\ a \in a .. b - 1 /\ b - 1 \in a .. b - 1
    BY <1>3, SizesAssumption DEF Cells
  <2> QED
    BY <1>3, <2>1, Zenon
<1>8. io.hi = 0 /\ io.ci = 0 /\ ps = << >> /\ rs = << >>
  <2>1. ~ (io.hi > 0 /\ io.hi = n)
    BY <1>3, <1>6, <1>7
  <2> QED
    BY <1>2, <1>4, <2>1, Zenon DEF Saving
<1>9. a = 0 /\ b = n /\ n > 0
  <2>1. a > 0 => 0 \in io.hi .. a - 1 /\ 0 \in used
    BY <1>6, <1>7, <1>8
  <2>2. a = 0
    BY <1>3, <1>7, <2>1
  <2>3. b = n /\ n > 0
    BY <1>3, <1>6, <1>7
  <2> QED
    BY <2>2, <2>3
<1>10. PICK ps1 \in [1 .. n -> Cells] :
           file' = [file EXCEPT !.pos = ps1] /\ \A k \in 1 .. n : ps1[k] = k - 1
  <2>1. b - a = n /\ \A k \in 1 .. n : a + k - 1 = k - 1 /\ k - 1 \in Cells /\ k - 1 < n
    BY <1>6, <1>9, SizesAssumption DEF Cells
  <2>2. PICK f : f = [k \in 1 .. b - a |-> pos[a + k - 1]]
    BY Zenon
  <2>3. \A k \in 1 .. n : pos[a + k - 1] = k - 1
    BY <1>6, <2>1, Zenon
  <2>4. f \in [1 .. n -> Cells] /\ \A k \in 1 .. n : f[k] = k - 1
    BY <2>1, <2>2, <2>3, Zenon
  <2>5. f \in Seq(Cells)
    BY <1>6, <2>4, SeqOfFunction, Zenon
  <2>6. << >> \o f = f
    BY <2>5
  <2>7. file.pos \o [k \in 1 .. b - a |-> pos[a + k - 1]] = f
    BY <1>4, <1>8, <2>2, <2>6, Zenon
  <2> QED
    BY <1>3, <2>4, <2>7, Zenon
<1>11. ps1 \in Seq(Cells) /\ Len(ps1) = n
  BY <1>6, <1>10, SeqOfFunction, Zenon
<1>12. FileIs(file', n, ps1, rs, t, d)
  BY <1>4, <1>10, FileUpdate, Zenon
<1>13. Len(rs) = 0 /\ 0 <= n /\ n <= n /\ 1 .. 0 = {}
  <2>1. Len(rs) = 0
    BY <1>8
  <2> QED
    BY <1>6, <2>1
<1>14. /\ FileOK'
       /\ file' \in [n : 0 .. Size, pos : Seq(Cells), rows : Seq(Tokens),
                     text : Seq(Tokens), done : BOOLEAN]
       /\ file'.n = n /\ file'.pos = ps1 /\ file'.rows = rs /\ file'.text = t
       /\ file'.done = d
  <2>1. Len(rs) <= n /\ \A k \in 1 .. Len(rs) : rs[k] = t[k]
    BY <1>13, Zenon
  <2>2. /\ Len(ps1) = n => \A k \in 1 .. n : ps1[k] = k - 1
        /\ Len(ps1) <= n
        /\ d => Len(ps1) = n /\ Len(rs) = n
    BY <1>5, <1>10, <1>11, <1>13, Zenon
  <2>3. GoodFields(n, ps1, rs, t, d)
    BY <1>5, <1>11, <2>1, <2>2, Zenon DEF GoodFields
  <2> QED
    BY <1>12, <2>3, FileOKFields, Zenon
<1>15. io'.lo = 0 /\ io'.hi = n /\ io'.ci = 0
       /\ io' \in [ci : Nat, lo : 0 .. Size, hi : 0 .. Size, got : 0 .. Size]
  <2>1. 0 \div T = 0 /\ 0 \in 0 .. Size
    BY SizesAssumption
  <2>2. io' = [io EXCEPT !.lo = 0, !.hi = n, !.ci = 0]
    BY <1>3, <1>9, <2>1, Zenon
  <2> QED
    BY <1>2, <1>4, <2>1, <2>2, SizesAssumption, Zenon DEF TypeOK
<1>16. RowsDone' = 0
  <2>1. 0 * T = 0 /\ 0 * T <= n
    BY <1>6, SizesAssumption
  <2> QED
    BY <1>15, <2>1, Zenon DEF RowsDone
<1>17. Saving'
  <2>1. text' = t /\ ~ d
    BY <1>1, <1>5
  <2> QED
    BY <1>9, <1>11, <1>13, <1>14, <1>15, <1>16, <2>1, Zenon DEF Saving
<1>18. CellTypes' /\ ChunkTypes' /\ ProgramTypes' /\ CallTypes' /\ SearchTypes'
  BY <1>1, <1>2, <1>14, Zenon
     DEF TypeOK, CellTypes, ChunkTypes, ProgramTypes, CallTypes, SearchTypes,
         cells, chunks, call, search
<1>19. ChunksCover' /\ RowsFaithful' /\ SavedFilesLoad' /\ states' = << >> /\ heads' = << >>
  BY <1>1, <1>2 DEF ChunksCover, RowsFaithful, SavedFilesLoad, cells, chunks, call
<1>20. Held(Len(text))'
  BY <1>1, <1>5, <1>6, Zenon DEF Held, cells
<1> QED
  BY <1>1, <1>14, <1>15, <1>17, <1>18, <1>19, <1>20, QuietInv DEF Consistent

\* The rows of one more chunk: they are the text's.
LEMMA SaveChunkInv ==
    ASSUME Consistent, SaveChunk
    PROVE  Consistent'
<1> SUFFICES ASSUME IInv PROVE IInv'
  BY DEF Consistent
<1>1. pc = "save" /\ UNCHANGED <<cells, chunks, past, text, pc, call, search>>
  BY DEF SaveChunk
<1>2. /\ TypeOK /\ FileOK /\ ChunksCover /\ RowsFaithful /\ Held(Count)
      /\ states = << >> /\ heads = << >> /\ Saving
  BY <1>1, Zenon DEF IInv
<1>3. PICK n \in 0 .. Size, ps \in Seq(Cells), rs \in Seq(Tokens), t \in Seq(Tokens),
           d \in BOOLEAN :
             /\ FileIs(file, n, ps, rs, t, d)
             /\ file.n = n /\ file.pos = ps /\ file.rows = rs /\ file.text = t /\ file.done = d
  BY <1>1, FileFields, Zenon
<1>4. t = text /\ n = Len(t) /\ d = FALSE /\ io.lo = 0
      /\ \A k \in 1 .. Len(rs) : rs[k] = t[k]
  BY <1>2, <1>3, Zenon DEF Saving, FileOK
<1>5. n \in Nat /\ used = 0 .. n - 1 /\ Held(n)
  <2>1. Count = n /\ n \in Nat
    BY <1>1, <1>3, <1>4, SizesAssumption DEF Count
  <2> QED
    BY <1>2, <2>1 DEF Held
<1>6. io.lo < io.hi /\ io.ci <= (io.hi - 1) \div T
  BY DEF SaveChunk
<1>7. io.hi = n /\ n > 0 /\ Len(ps) = n /\ Len(rs) = RowsDone
  <2>1. io.hi # 0
    BY <1>4, <1>6
  <2>2. io.hi > 0 /\ io.hi = n /\ Len(ps) = n /\ Len(rs) = RowsDone
    BY <1>2, <1>3, <2>1, Zenon DEF Saving
  <2> QED
    BY <2>2, Zenon
<1>8. PICK ci \in Nat : io.ci = ci
  BY <1>2, Zenon DEF TypeOK
<1>9. PICK m \in Nat \ {0}, base \in Nat :
         /\ PieceRows = m /\ base = ci * T /\ base < n /\ PieceOffset = 0
         /\ base + m = IF (ci + 1) * T <= n THEN (ci + 1) * T ELSE n
  <2>1. n \in Nat \ {0}
    BY <1>5, <1>7
  <2>2. /\ PieceOffset = 0 /\ PieceRows \in Nat \ {0} /\ ci * T \in Nat
        /\ ci * T < n
        /\ ci * T + PieceRows = IF (ci + 1) * T <= n THEN (ci + 1) * T ELSE n
    BY <1>4, <1>6, <1>7, <1>8, <2>1, Piece
  <2> QED
    BY <2>2, Zenon
<1>10. Len(rs) = base
  <2>1. base <= n
    BY <1>5, <1>9
  <2> QED
    BY <1>7, <1>8, <1>9, <2>1, Zenon DEF RowsDone
<1>11. base + m <= n
  BY <1>5, <1>9
<1>12. PICK f \in [1 .. m -> Tokens] :
           /\ file' = [file EXCEPT !.rows = rs \o f]
           /\ \A k \in 1 .. m : f[k] = t[base + k]
  <2>1. PICK g : g = [k \in 1 .. PieceRows |-> row[io.ci * T + PieceOffset + k - 1]]
    BY Zenon
  <2>2. file' = [file EXCEPT !.rows = rs \o g]
    BY <1>3, <2>1, Zenon DEF SaveChunk
  <2>3. \A k \in 1 .. m : /\ base + 0 + k - 1 \in 0 .. n - 1 /\ base + 0 + k - 1 < n
                          /\ base + 0 + k - 1 + 1 = base + k /\ base + k \in 1 .. n
    BY <1>5, <1>11
  <2>4. \A c \in 0 .. n - 1 : c < n => row[c] = t[c + 1]
    BY <1>1, <1>2, <1>4, <1>5, Zenon DEF RowsFaithful
  <2>5. \A k \in 1 .. m : row[base + 0 + k - 1] = t[base + k]
    BY <2>3, <2>4, Zenon
  <2>6. \A k \in 1 .. m : t[base + k] \in Tokens
    BY <1>3, <1>4, <2>3
  <2>7. g = [k \in 1 .. m |-> row[base + 0 + k - 1]]
    BY <1>8, <1>9, <2>1, Zenon
  <2>8. g \in [1 .. m -> Tokens] /\ \A k \in 1 .. m : g[k] = t[base + k]
    BY <2>5, <2>6, <2>7, Zenon
  <2> QED
    BY <2>2, <2>8, Zenon
<1>13. PICK rs1 \in Seq(Tokens) :
           /\ rs1 = rs \o f /\ Len(rs1) = base + m
           /\ \A i \in 1 .. base : rs1[i] = rs[i]
           /\ \A i \in 1 .. m : rs1[base + i] = f[i]
  <2>1. m \in Nat
    OBVIOUS
  <2>2. /\ rs \o f \in Seq(Tokens) /\ Len(rs \o f) = Len(rs) + m
        /\ \A i \in 1 .. Len(rs) : (rs \o f)[i] = rs[i]
        /\ \A i \in 1 .. m : (rs \o f)[Len(rs) + i] = f[i]
    BY <2>1, Joined
  <2> QED
    BY <1>10, <2>2, Zenon
<1>14. \A k \in 1 .. base + m : rs1[k] = t[k]
  <2> SUFFICES ASSUME NEW k \in 1 .. base + m
               PROVE  rs1[k] = t[k]
    OBVIOUS
  <2>1. CASE k <= base
    <3>1. k \in 1 .. base
      BY <2>1
    <3> QED
      BY <1>4, <1>10, <1>13, <3>1, Zenon
  <2>2. CASE k > base
    <3>1. PICK i \in 1 .. m : k = base + i
      <4>1. k - base \in 1 .. m /\ k = base + (k - base)
        BY <2>2
      <4> QED
        BY <4>1
    <3> QED
      BY <1>12, <1>13, <3>1, Zenon
  <2> QED
    BY <2>1, <2>2
<1>15. FileIs(file', n, ps, rs1, t, d)
  BY <1>3, <1>12, <1>13, FileUpdate, Zenon
<1>16. GoodFields(n, ps, rs1, t, d)
  <2>1. Len(ps) <= n /\ Len(rs1) <= n
    BY <1>5, <1>7, <1>11, <1>13
  <2>2. \A k \in 1 .. n : ps[k] = k - 1
    BY <1>2, <1>3, <1>7, Zenon DEF FileOK
  <2> QED
    BY <1>4, <1>13, <1>14, <2>1, <2>2, Zenon DEF GoodFields
<1>17. /\ FileOK'
       /\ file' \in [n : 0 .. Size, pos : Seq(Cells), rows : Seq(Tokens),
                     text : Seq(Tokens), done : BOOLEAN]
       /\ file'.n = n /\ file'.pos = ps /\ file'.rows = rs1 /\ file'.text = t
       /\ file'.done = d
  BY <1>15, <1>16, FileOKFields, Zenon
<1>18. io'.lo = 0 /\ io'.hi = n /\ io'.ci = ci + 1
       /\ io' \in [ci : Nat, lo : 0 .. Size, hi : 0 .. Size, got : 0 .. Size]
  <2>1. io' = [io EXCEPT !.ci = ci + 1]
    BY <1>8, Zenon DEF SaveChunk
  <2>2. ci + 1 \in Nat
    OBVIOUS
  <2> QED
    BY <1>2, <1>4, <1>7, <2>1, <2>2, Zenon DEF TypeOK
<1>19. RowsDone' = base + m
  BY <1>9, <1>18, Zenon DEF RowsDone
<1>20. Saving'
  <2>1. text' = t /\ ~ d
    BY <1>1, <1>4
  <2> QED
    BY <1>7, <1>13, <1>17, <1>18, <1>19, <2>1, Zenon DEF Saving
<1>21. CellTypes' /\ ChunkTypes' /\ ProgramTypes' /\ CallTypes' /\ SearchTypes'
  BY <1>1, <1>2, <1>17, Zenon
     DEF TypeOK, CellTypes, ChunkTypes, ProgramTypes, CallTypes, SearchTypes,
         cells, chunks, call, search
<1>22. ChunksCover' /\ RowsFaithful' /\ SavedFilesLoad' /\ states' = << >> /\ heads' = << >>
  BY <1>1, <1>2 DEF ChunksCover, RowsFaithful, SavedFilesLoad, cells, chunks, call
<1>23. Held(Len(text))'
  BY <1>1, <1>4, <1>5, Zenon DEF Held, cells
<1> QED
  BY <1>1, <1>17, <1>18, <1>20, <1>21, <1>22, <1>23, QuietInv DEF Consistent

\* Nothing is left to write: the file is whole.
LEMMA SavedInv ==
    ASSUME Consistent, Saved
    PROVE  Consistent'
<1> SUFFICES ASSUME IInv PROVE IInv'
  BY DEF Consistent
<1>1. /\ pc = "save" /\ pc' = "idle" /\ io' = NoIO /\ file' = [file EXCEPT !.done = TRUE]
      /\ UNCHANGED <<cells, chunks, past, text, call, search>>
  BY DEF Saved
<1>2. /\ TypeOK /\ FileOK /\ ChunksCover /\ RowsFaithful /\ Held(Count)
      /\ states = << >> /\ heads = << >> /\ Saving
  BY <1>1, Zenon DEF IInv
<1>3. PICK n \in 0 .. Size, ps \in Seq(Cells), rs \in Seq(Tokens), t \in Seq(Tokens),
           d \in BOOLEAN :
             /\ FileIs(file, n, ps, rs, t, d)
             /\ file.n = n /\ file.pos = ps /\ file.rows = rs /\ file.text = t /\ file.done = d
  BY <1>1, FileFields, Zenon
<1>4. t = text /\ n = Len(t) /\ io.lo = 0
      /\ \A k \in 1 .. Len(rs) : rs[k] = t[k]
  BY <1>2, <1>3, Zenon DEF Saving, FileOK
<1>5. n \in Nat /\ used = 0 .. n - 1 /\ Held(n)
  <2>1. Count = n /\ n \in Nat
    BY <1>1, <1>3, <1>4, SizesAssumption DEF Count
  <2> QED
    BY <1>2, <2>1 DEF Held
<1>6. Len(ps) = n /\ Len(rs) = n
  <2>1. CASE io.hi = 0 /\ io.ci = 0 /\ ps = << >> /\ rs = << >>
    <3>1. \A c \in 0 .. Size - 1 : c \notin used
      BY <2>1, Zenon DEF Saved
    <3>2. n > 0 => 0 \in 0 .. Size - 1 /\ 0 \in used
      BY <1>3, <1>5, SizesAssumption
    <3>3. n = 0
      BY <1>5, <3>1, <3>2
    <3> QED
      BY <2>1, <3>3
  <2>2. CASE io.hi > 0 /\ io.hi = n /\ Len(ps) = n /\ Len(rs) = RowsDone
    <3>1. io.hi \in Nat /\ io.ci \in Nat /\ (io.hi = 0 \/ io.ci > (io.hi - 1) \div T)
      <4>1. io.lo # io.hi
        BY <1>4, <1>5, <2>2
      <4>2. io.ci > (io.hi - 1) \div T
        BY <4>1, Zenon DEF Saved
      <4>3. io.ci \in Nat
        BY <1>2, Zenon DEF TypeOK
      <4> QED
        BY <1>5, <2>2, <4>2, <4>3, Zenon
    <3>2. RowsDone = io.hi
      BY <3>1, AllRows, Zenon
    <3> QED
      BY <2>2, <3>2, Zenon
  <2> QED
    BY <1>2, <1>3, <2>1, <2>2, Zenon DEF Saving
<1>7. FileIs(file', n, ps, rs, t, TRUE)
  BY <1>1, <1>3, FileUpdate, Zenon
<1>8. GoodFields(n, ps, rs, t, TRUE)
  <2>1. n <= n
    BY <1>5
  <2>2. \A k \in 1 .. n : ps[k] = k - 1
    BY <1>2, <1>3, <1>6, Zenon DEF FileOK
  <2> QED
    BY <1>4, <1>6, <2>1, <2>2, Zenon DEF GoodFields
<1>9. /\ FileOK'
      /\ file' \in [n : 0 .. Size, pos : Seq(Cells), rows : Seq(Tokens),
                    text : Seq(Tokens), done : BOOLEAN]
  BY <1>7, <1>8, FileOKFields, Zenon
<1>10. io' \in [ci : Nat, lo : 0 .. Size, hi : 0 .. Size, got : 0 .. Size]
  BY <1>1, SizesAssumption DEF NoIO
<1>11. CellTypes' /\ ChunkTypes' /\ ProgramTypes' /\ CallTypes' /\ SearchTypes'
  BY <1>1, <1>2, <1>9, Zenon
     DEF TypeOK, CellTypes, ChunkTypes, ProgramTypes, CallTypes, SearchTypes,
         cells, chunks, call, search
<1>12. ChunksCover' /\ RowsFaithful' /\ SavedFilesLoad' /\ states' = << >> /\ heads' = << >>
  BY <1>1, <1>2 DEF ChunksCover, RowsFaithful, SavedFilesLoad, cells, chunks, call
<1>13. Held(Len(text))'
  BY <1>1, <1>4, <1>5, Zenon DEF Held, cells
<1> QED
  BY <1>1, <1>9, <1>10, <1>11, <1>12, <1>13, QuietInv DEF Consistent

\* The meta data of a whole file put the cells back as they were saved; one that
\* was cut short was never finished.
LEMMA LoadInv ==
    ASSUME Consistent, Load
    PROVE  Consistent'
<1> SUFFICES ASSUME IInv PROVE IInv'
  BY DEF Consistent
<1>1. pc = "idle" /\ UNCHANGED <<call, search>>
  BY DEF Load
<1>2. /\ TypeOK /\ FileOK /\ ChunksCover /\ RowsFaithful /\ Held(Count)
      /\ states = << >> /\ heads = << >>
  BY <1>1, Zenon DEF IInv
<1>3. PICK n \in 0 .. Size, ps \in Seq(Cells), rs \in Seq(Tokens), t \in Seq(Tokens),
           d \in BOOLEAN :
             /\ FileIs(file, n, ps, rs, t, d)
             /\ file.n = n /\ file.pos = ps /\ file.rows = rs /\ file.text = t /\ file.done = d
  BY <1>1, FileFields, Zenon
<1>4. /\ n = Len(t) /\ Len(ps) <= n
      /\ Len(ps) = n => \A k \in 1 .. n : ps[k] = k - 1
      /\ d => Len(ps) = n
  BY <1>2, <1>3, Zenon DEF FileOK
<1>5. n \in Nat /\ Len(ps) \in Nat
  <2>1. Len(ps) \in Nat
    OBVIOUS
  <2> QED
    BY <1>3, <2>1, SizesAssumption
<1>6. CASE Len(ps) < n
  <2>1. pc' = "cut" /\ UNCHANGED <<cells, chunks, program, io>>
    BY <1>3, <1>6, Zenon DEF Load
  <2>2. ~ d
    BY <1>4, <1>5, <1>6
  <2>3. file' = file /\ SavedFilesLoad'
    BY <1>3, <2>1, <2>2, Zenon DEF SavedFilesLoad, program
  <2>4. CellTypes' /\ ChunkTypes' /\ ProgramTypes' /\ CallTypes' /\ SearchTypes'
    BY <1>1, <1>2, <2>1, Zenon
       DEF TypeOK, CellTypes, ChunkTypes, ProgramTypes, CallTypes, SearchTypes,
           cells, chunks, program, call, search
  <2>5. io' \in [ci : Nat, lo : 0 .. Size, hi : 0 .. Size, got : 0 .. Size]
    BY <1>2, <2>1, Zenon DEF TypeOK
  <2>6. FileOK' /\ ChunksCover' /\ RowsFaithful' /\ states' = << >> /\ heads' = << >>
    BY <1>1, <1>2, <2>1, <2>3
       DEF FileOK, ChunksCover, RowsFaithful, cells, chunks, call
  <2>7. Held(Len(text))'
    <3>1. Count = Len(text)
      BY <1>1 DEF Count
    <3> QED
      BY <1>2, <2>1, <3>1, Zenon DEF Held, cells, program
  <2> QED
    BY <2>1, <2>3, <2>4, <2>5, <2>6, <2>7, QuietInv DEF Consistent
<1>7. CASE ~ (Len(ps) < n)
  <2>1. Len(ps) = n /\ \A k \in 1 .. n : ps[k] = k - 1
    <3>1. Len(ps) = n
      BY <1>4, <1>5, <1>7
    <3> QED
      BY <1>4, <3>1, Zenon
  <2>2. /\ pos' = [c \in Cells |-> IF c < n THEN ps[c + 1] ELSE None]
        /\ used' = 0 .. n - 1 /\ seqPos' = {ps[k] : k \in 1 .. n} /\ head' = 0
        /\ Grows(n) /\ row' = [c \in Cells |-> IF c < T THEN Zero ELSE Grown(n)[c]]
        /\ io' = [NoIO EXCEPT !.hi = n] /\ pc' = "load" /\ text' = t
        /\ UNCHANGED <<lastChunk, past, file>>
    BY <1>3, <1>7, Zenon DEF Load
  <2>3. Held(n)'
    <3>2. \A c \in Cells : c < n => ps[c + 1] = c
      <4> SUFFICES ASSUME NEW c \in Cells, c < n
                   PROVE  ps[c + 1] = c
        OBVIOUS
      <4>0. c + 1 \in 1 .. n /\ (c + 1) - 1 = c
        BY <1>5, SizesAssumption DEF Cells
      <4>1. PICK k \in 1 .. n : k = c + 1 /\ k - 1 = c
        <5>1. \E k \in 1 .. n : k = c + 1
          BY <4>0, Zenon
        <5> QED
          BY <4>0, <5>1, Zenon
      <4> QED
        BY <2>1, <4>1, Zenon
    <3>3. pos' = [c \in Cells |-> IF c < n THEN c ELSE None]
      BY <2>2, <3>2, Zenon
    <3>4. seqPos' = 0 .. n - 1
      <4>1. seqPos' = {k - 1 : k \in 1 .. n}
        BY <2>1, <2>2, Zenon
      <4>2. {k - 1 : k \in 1 .. n} = 0 .. n - 1
        <5>1. \A k \in 1 .. n : k - 1 \in 0 .. n - 1
          BY <1>5
        <5>2. \A c \in 0 .. n - 1 : \E k \in 1 .. n : c = k - 1
          <6> SUFFICES ASSUME NEW c \in 0 .. n - 1
                       PROVE  \E k \in 1 .. n : c = k - 1
            OBVIOUS
          <6>1. c + 1 \in 1 .. n /\ c = (c + 1) - 1
            BY <1>5
          <6> QED
            BY <6>1
        <5> QED
          BY <5>1, <5>2, Zenon
      <4> QED
        BY <4>1, <4>2
    <3>5. head' <= n
      BY <1>5, <2>2
    <3> QED
      BY <2>2, <3>3, <3>4, <3>5, Zenon DEF Held
  <2>4. CellTypes'
    <3>1. (head \in Nat)'
      BY <2>2
    <3> QED
      BY <1>5, <2>3, <3>1, HeldTypes, Zenon
  <2>5. /\ nChunks' \in 1 .. ChunksFor(Size)
        /\ \A c \in 0 .. n - 1 : c < nChunks' * T
        /\ Grown(n) \in [Cells -> Tokens \union {Zero}]
    <3>1. ChunkTypes
      BY <1>2 DEF TypeOK
    <3> QED
      BY <2>2, <3>1, GrowsCovers, Zenon
  <2>6. ChunkTypes'
    <3>1. row' \in [Cells -> Tokens \union {Zero}]
      <4>1. \A c \in Cells : (IF c < T THEN Zero ELSE Grown(n)[c]) \in Tokens \union {Zero}
        BY <2>5, Zenon
      <4> QED
        BY <2>2, <4>1, Zenon
    <3> QED
      BY <1>2, <2>2, <2>5, <3>1, Zenon DEF TypeOK, ChunkTypes
  <2>7. ChunksCover'
    BY <2>2, <2>5, Zenon DEF ChunksCover
  <2>8. CallTypes' /\ SearchTypes'
    BY <1>1, <1>2, Zenon DEF TypeOK, CallTypes, SearchTypes, call, search
  <2>9. ProgramTypes'
    BY <1>2, <1>3, <2>2, Zenon DEF TypeOK, ProgramTypes
  <2>10. io'.lo = 0 /\ io'.hi = n /\ io'.ci = 0 /\ io'.got = 0
         /\ io' \in [ci : Nat, lo : 0 .. Size, hi : 0 .. Size, got : 0 .. Size]
    <3>1. io' = [ci |-> 0, lo |-> 0, hi |-> n, got |-> 0]
      BY <2>2, SMT DEF NoIO
    <3>2. 0 \in 0 .. Size /\ 0 \in Nat
      BY SizesAssumption
    <3> QED
      BY <3>1, <3>2, Zenon
  <2>11. FileOK' /\ SavedFilesLoad' /\ RowsFaithful'
    BY <1>2, <2>2, Zenon DEF FileOK, SavedFilesLoad, RowsFaithful
  <2>12. RowsDone' = 0
    <3>1. 0 * T = 0 /\ 0 * T <= n
      BY <1>5, SizesAssumption
    <3> QED
      BY <2>10, <3>1, Zenon DEF RowsDone
  <2>13. Loading'
    <3>1. \A c \in Cells : ~ (c < 0)
      BY SizesAssumption DEF Cells
    <3> QED
      BY <1>3, <2>1, <2>2, <2>10, <2>12, <3>1, Zenon DEF Loading
  <2>14. states' = << >> /\ heads' = << >>
    BY <1>1, <1>2 DEF call
  <2>15. Held(Len(text))'
    BY <1>4, <2>2, <2>3, Zenon
  <2> QED
    BY <2>2, <2>4, <2>6, <2>7, <2>8, <2>9, <2>10, <2>11, <2>13, <2>14, <2>15, QuietInv DEF Consistent
<1> QED
  BY <1>6, <1>7

\* The rows of one more chunk come back; a file that lacks them was not whole.
LEMMA LoadChunkInv ==
    ASSUME Consistent, LoadChunk
    PROVE  Consistent'
<1> SUFFICES ASSUME IInv PROVE IInv'
  BY DEF Consistent
<1>1. pc = "load" /\ UNCHANGED <<cells, nChunks, lastChunk, program, call, search>>
  BY DEF LoadChunk
<1>2. /\ TypeOK /\ FileOK /\ ChunksCover /\ Held(Count)
      /\ states = << >> /\ heads = << >> /\ Loading
  BY <1>1, Zenon DEF IInv
<1>3. PICK n \in 0 .. Size, ps \in Seq(Cells), rs \in Seq(Tokens), t \in Seq(Tokens),
           d \in BOOLEAN :
             /\ FileIs(file, n, ps, rs, t, d)
             /\ file.n = n /\ file.pos = ps /\ file.rows = rs /\ file.text = t /\ file.done = d
  BY <1>1, FileFields, Zenon
<1>4. /\ t = text /\ n = Len(t) /\ Len(ps) = n /\ io.lo = 0 /\ io.hi = n
      /\ io.got = RowsDone
      /\ \A c \in Cells : c < io.got => row[c] = t[c + 1]
      /\ Len(rs) <= n /\ \A k \in 1 .. Len(rs) : rs[k] = t[k]
      /\ d => Len(rs) = n
  BY <1>2, <1>3, Zenon DEF Loading, FileOK
<1>5. n \in Nat /\ Len(rs) \in Nat /\ Held(n)
  <2>1. Len(rs) \in Nat
    OBVIOUS
  <2>2. Count = n /\ n \in Nat
    BY <1>1, <1>3, <1>4, SizesAssumption DEF Count
  <2> QED
    BY <1>2, <2>1, <2>2, Zenon
<1>6. n > 0 /\ io.ci <= (io.hi - 1) \div T
  BY <1>4 DEF LoadChunk
<1>7. PICK ci \in Nat : io.ci = ci
  BY <1>2, Zenon DEF TypeOK
<1>8. PICK m \in Nat \ {0}, base \in Nat :
         /\ PieceRows = m /\ base = ci * T /\ base < n /\ PieceOffset = 0
         /\ base + m = IF (ci + 1) * T <= n THEN (ci + 1) * T ELSE n
  <2>1. n \in Nat \ {0}
    BY <1>5, <1>6
  <2>2. /\ PieceOffset = 0 /\ PieceRows \in Nat \ {0} /\ ci * T \in Nat
        /\ ci * T < n
        /\ ci * T + PieceRows = IF (ci + 1) * T <= n THEN (ci + 1) * T ELSE n
    BY <1>4, <1>6, <1>7, <2>1, Piece
  <2> QED
    BY <2>2, Zenon
<1>9. io.got = base
  <2>1. base <= n
    BY <1>5, <1>8
  <2> QED
    BY <1>4, <1>7, <1>8, <2>1, Zenon DEF RowsDone
<1>10. base + m <= n
  BY <1>5, <1>8
<1>11. CellTypes' /\ ProgramTypes' /\ CallTypes' /\ SearchTypes'
  BY <1>1, <1>2, Zenon
     DEF TypeOK, CellTypes, ProgramTypes, CallTypes, SearchTypes, cells, program, call, search
<1>12. FileOK' /\ ChunksCover' /\ states' = << >> /\ heads' = << >>
  <2>1. file' = file
    BY <1>1 DEF program
  <2> QED
    BY <1>1, <1>2, <2>1, Zenon DEF FileOK, ChunksCover, cells, call
<1>13. Held(Len(text))'
  BY <1>1, <1>4, <1>5, Zenon DEF Held, cells, program
<1>14. CASE base + m > Len(rs)
  <2>1. pc' = "cut" /\ UNCHANGED <<row, io>>
    BY <1>3, <1>8, <1>9, <1>14, Zenon DEF LoadChunk
  <2>2. ~ d
    BY <1>4, <1>5, <1>10, <1>14
  <2>3. SavedFilesLoad' /\ RowsFaithful'
    BY <1>1, <1>3, <2>1, <2>2, Zenon DEF SavedFilesLoad, RowsFaithful, program
  <2>4. ChunkTypes'
    BY <1>1, <1>2, <2>1, Zenon DEF TypeOK, ChunkTypes
  <2>5. io' \in [ci : Nat, lo : 0 .. Size, hi : 0 .. Size, got : 0 .. Size]
    BY <1>2, <2>1, Zenon DEF TypeOK
  <2> QED
    BY <1>11, <1>12, <1>13, <2>1, <2>3, <2>4, <2>5, QuietInv DEF Consistent
<1>15. CASE ~ (base + m > Len(rs))
  <2>1. /\ row' = [c \in Cells |->
                     LET i == c - (base + 0) IN
                     IF i >= 0 /\ i < m THEN rs[base + i + 1] ELSE row[c]]
        /\ io' = [io EXCEPT !.ci = ci + 1, !.got = base + m]
        /\ pc' = pc
    BY <1>3, <1>7, <1>8, <1>9, <1>15, Zenon DEF LoadChunk
  <2>2. \A c \in Cells :
          /\ base <= c /\ c < base + m => row'[c] = t[c + 1] /\ t[c + 1] \in Tokens
          /\ ~ (base <= c /\ c < base + m) => row'[c] = row[c]
    <3> SUFFICES ASSUME NEW c \in Cells
                 PROVE  /\ base <= c /\ c < base + m => row'[c] = t[c + 1] /\ t[c + 1] \in Tokens
                        /\ ~ (base <= c /\ c < base + m) => row'[c] = row[c]
      BY Zenon
    <3>1. c \in Int
      BY SizesAssumption DEF Cells
    <3>2. PICK i \in Int : i = c - (base + 0)
      BY <3>1
    <3>3. row'[c] = IF i >= 0 /\ i < m THEN rs[base + i + 1] ELSE row[c]
      BY <2>1, <3>2, Zenon
    <3>4. base <= c /\ c < base + m <=> i >= 0 /\ i < m
      BY <3>1, <3>2
    <3>5. CASE base <= c /\ c < base + m
      <4>1. PICK k \in 1 .. Len(rs) : k = base + i + 1 /\ k = c + 1 /\ k \in 1 .. n
        <5>1. base + i + 1 \in 1 .. Len(rs) /\ base + i + 1 = c + 1 /\ base + i + 1 \in 1 .. n
          BY <1>5, <1>10, <1>15, <3>1, <3>2, <3>5
        <5> QED
          BY <5>1, Zenon
      <4>2. row'[c] = rs[k]
        BY <3>3, <3>4, <3>5, <4>1, Zenon
      <4>3. rs[k] = t[k]
        BY <1>4, <4>1, Zenon
      <4>4. t[k] \in Tokens
        BY <1>4, <4>1
      <4> QED
        BY <3>5, <4>1, <4>2, <4>3, <4>4, Zenon
    <3>6. CASE ~ (base <= c /\ c < base + m)
      BY <3>3, <3>4, <3>6, Zenon
    <3> QED
      BY <3>5, <3>6, Zenon
  <2>3. ChunkTypes'
    <3>1. row \in [Cells -> Tokens \union {Zero}]
      BY <1>2, Zenon DEF TypeOK, ChunkTypes
    <3>2. \A c \in Cells : row'[c] \in Tokens \union {Zero}
      BY <2>2, <3>1, Zenon
    <3>3. row' = [c \in Cells |-> row'[c]]
      BY <2>1, Zenon
    <3>4. row' \in [Cells -> Tokens \union {Zero}]
      BY <3>2, <3>3, Zenon
    <3> QED
      BY <1>1, <1>2, <3>4, Zenon DEF TypeOK, ChunkTypes
  <2>4. io'.lo = 0 /\ io'.hi = n /\ io'.ci = ci + 1 /\ io'.got = base + m
        /\ io' \in [ci : Nat, lo : 0 .. Size, hi : 0 .. Size, got : 0 .. Size]
    <3>1. ci + 1 \in Nat /\ base + m \in 0 .. Size
      BY <1>3, <1>5, <1>10, SizesAssumption
    <3> QED
      BY <1>2, <1>4, <2>1, <3>1, Zenon DEF TypeOK
  <2>5. RowsDone' = base + m
    BY <1>8, <2>4, Zenon DEF RowsDone
  <2>6. \A c \in Cells : c < base + m => row'[c] = t[c + 1]
    <3>1. \A c \in Cells : c < base \/ base <= c
      BY SizesAssumption DEF Cells
    <3>2. \A c \in Cells : c < base => ~ (base <= c)
      BY SizesAssumption DEF Cells
    <3> QED
      BY <1>4, <1>9, <2>2, <3>1, <3>2, Zenon
  <2>7. Loading'
    <3>1. file' = file /\ text' = t
      BY <1>1, <1>4 DEF program
    <3> QED
      BY <1>3, <1>4, <2>4, <2>5, <2>6, <3>1, Zenon DEF Loading
  <2>8. SavedFilesLoad' /\ RowsFaithful' /\ pc' = "load"
    BY <1>1, <2>1 DEF SavedFilesLoad, RowsFaithful
  <2> QED
    BY <1>11, <1>12, <1>13, <2>3, <2>4, <2>7, <2>8, QuietInv DEF Consistent
<1> QED
  BY <1>14, <1>15

\* Everything is read: the cache is the one that was saved.
LEMMA LoadedInv ==
    ASSUME Consistent, Loaded
    PROVE  Consistent'
<1> SUFFICES ASSUME IInv PROVE IInv'
  BY DEF Consistent
<1>1. /\ pc = "load" /\ past' = Len(text) /\ io' = NoIO
      /\ pc' = (IF io.got = Len(file.rows) THEN "idle" ELSE "cut")
      /\ UNCHANGED <<cells, chunks, text, file, call, search>>
  BY DEF Loaded
<1>2. /\ TypeOK /\ FileOK /\ ChunksCover /\ Held(Count)
      /\ states = << >> /\ heads = << >> /\ Loading
  BY <1>1, Zenon DEF IInv
<1>3. PICK n \in 0 .. Size, ps \in Seq(Cells), rs \in Seq(Tokens), t \in Seq(Tokens),
           d \in BOOLEAN :
             /\ FileIs(file, n, ps, rs, t, d)
             /\ file.n = n /\ file.pos = ps /\ file.rows = rs /\ file.text = t /\ file.done = d
  BY <1>1, FileFields, Zenon
<1>4. /\ t = text /\ n = Len(t) /\ io.lo = 0 /\ io.hi = n /\ io.got = RowsDone
      /\ \A c \in Cells : c < io.got => row[c] = t[c + 1]
      /\ d => Len(rs) = n
  BY <1>2, <1>3, Zenon DEF Loading, FileOK
<1>5. n \in Nat /\ used \subseteq Cells /\ Held(n)
  <2>1. Count = n /\ n \in Nat
    BY <1>1, <1>3, <1>4, SizesAssumption DEF Count
  <2>2. used \subseteq Cells
    BY <1>2, Zenon DEF TypeOK, CellTypes
  <2> QED
    BY <1>2, <2>1, <2>2, Zenon
<1>6. io.got = n
  <2>1. io.hi = 0 \/ io.ci > (io.hi - 1) \div T
    BY DEF Loaded
  <2>2. io.hi \in Nat /\ io.ci \in Nat
    BY <1>2, <1>4, <1>5, Zenon DEF TypeOK
  <2>3. RowsDone = io.hi
    BY <2>1, <2>2, AllRows, Zenon
  <2> QED
    BY <1>4, <2>3, Zenon
<1>7. RowsFaithful'
  BY <1>1, <1>4, <1>5, <1>6, Zenon DEF RowsFaithful, cells, chunks
<1>8. SavedFilesLoad'
  BY <1>1, <1>3, <1>4, <1>6, Zenon DEF SavedFilesLoad
<1>9. pc' \in {"idle", "cut"}
  BY <1>1
<1>10. io' \in [ci : Nat, lo : 0 .. Size, hi : 0 .. Size, got : 0 .. Size]
  BY <1>1, SizesAssumption DEF NoIO
<1>11. CellTypes' /\ ChunkTypes' /\ CallTypes' /\ SearchTypes'
  BY <1>1, <1>2, Zenon
     DEF TypeOK, CellTypes, ChunkTypes, CallTypes, SearchTypes, cells, chunks, call, search
<1>12. ProgramTypes'
  <2>1. past' \in 0 .. Size + 1
    BY <1>1, <1>3, <1>4, <1>5, SizesAssumption
  <2> QED
    BY <1>1, <1>2, <2>1, Zenon DEF TypeOK, ProgramTypes
<1>13. FileOK' /\ ChunksCover' /\ states' = << >> /\ heads' = << >>
  BY <1>1, <1>2, Zenon DEF FileOK, ChunksCover, cells, chunks, call
<1>14. Held(Len(text))'
  BY <1>1, <1>4, <1>5, Zenon DEF Held, cells
<1> QED
  BY <1>7, <1>8, <1>9, <1>10, <1>11, <1>12, <1>13, <1>14, QuietInv DEF Consistent

-----------------------------------------------------------------------------
(* The theorems.                                                           *)

\* A step of anything else changes nothing.
LEMMA StutterInv ==
    ASSUME Consistent, UNCHANGED vars
    PROVE  Consistent'
<1> SUFFICES ASSUME IInv PROVE IInv'
  BY DEF Consistent
<1>1. /\ UNCHANGED <<pos, used, seqPos, head>> /\ UNCHANGED <<nChunks, row, lastChunk>>
      /\ UNCHANGED <<past, text, file>> /\ UNCHANGED <<batch, start, end, at, heads, states>>
      /\ UNCHANGED <<headCur, tested, slot>> /\ UNCHANGED <<pc, io>>
  BY DEF vars, cells, chunks, program, call, search
<1>2. TypeOK'
  BY <1>1, Zenon
     DEF IInv, TypeOK, CellTypes, ChunkTypes, ProgramTypes, CallTypes, SearchTypes
<1>3. FileOK' /\ ChunksCover' /\ RowsFaithful' /\ SavedFilesLoad'
  BY <1>1, Zenon DEF IInv, FileOK, ChunksCover, RowsFaithful, SavedFilesLoad
<1>4. Stack'
  BY <1>1, Zenon DEF IInv, Stack
<1>5. (Saving <=> Saving') /\ (Loading <=> Loading')
  BY <1>1, Zenon DEF Saving, Loading, RowsDone
<1>6. UbatchLen' = UbatchLen /\ (SubBatch <=> SubBatch')
  BY <1>1, Zenon DEF UbatchLen, SubBatch
<1>7. (Preparing <=> Preparing') /\ (Searched <=> Searched') /\ (Processing <=> Processing')
  BY <1>1, <1>6, Zenon DEF Preparing, Searched, Processing
<1>8. Count' = Count
  BY <1>1, <1>6, Zenon DEF Count
<1>9. \A n : Held(n) <=> Held(n)'
  BY <1>1, Zenon DEF Held
<1>10. IF pc' = "ended" THEN \E n \in 0 .. Size : Held(n)' ELSE Held(Count)'
  BY <1>1, <1>8, <1>9, Zenon DEF IInv, Held
<1> QED
  BY <1>1, <1>2, <1>3, <1>4, <1>5, <1>6, <1>7, <1>10, Zenon DEF IInv

\* An interval has as many members as its length.  The library of finite sets
\* comes in here, where few proofs are left that carry it along.
INSTANCE FiniteSetTheorems

LEMMA CountsHold == Counts
<1> SUFFICES ASSUME NEW n \in Nat
             PROVE  Cardinality(0 .. n - 1) = n
  BY DEF Counts
<1>1. 0 \in Int /\ n - 1 \in Int
  OBVIOUS
<1>2. Cardinality(0 .. n - 1) = IF 0 > n - 1 THEN 0 ELSE (n - 1) - 0 + 1
  BY <1>1, FS_Interval, Zenon
<1> QED
  BY <1>2

\* Every step of the programs and of the library keeps IInv.
LEMMA NextInv ==
    ASSUME Consistent, [Next]_vars
    PROVE  Consistent'
<1>1. CASE \E b \in Batches : Decode(b)
  BY <1>1, DecodeInv, Zenon
<1>2. CASE InDecode
  <2>1. CASE SubDecode
    BY <2>1, SubDecodeInv, Zenon
  <2>2. CASE Decoded
    BY <2>2, DecodedInv, Zenon
  <2>3. CASE FindSlot
    BY <2>3, FindSlotInv, Zenon
  <2>4. CASE SearchStep
    BY <2>4, SearchStepInv, Zenon
  <2>5. CASE Place
    BY <2>5, PlaceInv, Zenon
  <2>6. CASE Refuse
    BY <2>6, RefuseInv, Zenon
  <2>7. CASE GrowFails
    BY <2>7, GrowFailsInv, Zenon
  <2>8. CASE Unwind
    BY <2>8, UnwindInv, Zenon
  <2>9. CASE Prepared
    BY <2>9, CountsHold, PreparedInv, Zenon
  <2>10. CASE Apply
    BY <2>10, ApplyInv, Zenon
  <2>11. CASE ComputeOK
    BY <2>11, ComputeOKInv, Zenon
  <2>12. CASE ComputeFails
    BY <2>12, ComputeFailsInv, Zenon
  <2> QED
    BY <1>2, <2>1, <2>2, <2>3, <2>4, <2>5, <2>6, <2>7, <2>8, <2>9, <2>10, <2>11, <2>12,
       Zenon DEF InDecode
<1>3. CASE InFile
  <2>1. CASE SaveRange
    BY <2>1, SaveRangeInv, Zenon
  <2>2. CASE SaveChunk
    BY <2>2, SaveChunkInv, Zenon
  <2>3. CASE Saved
    BY <2>3, SavedInv, Zenon
  <2>4. CASE LoadChunk
    BY <2>4, LoadChunkInv, Zenon
  <2>5. CASE Loaded
    BY <2>5, LoadedInv, Zenon
  <2> QED
    BY <1>3, <2>1, <2>2, <2>3, <2>4, <2>5, Zenon DEF InFile
<1>4. CASE \E p \in 0 .. past : Rewind(p)
  BY <1>4, RewindInv, Zenon
<1>5. CASE Clear
  BY <1>5, ClearInv, Zenon
<1>6. CASE Save
  BY <1>6, CountsHold, SaveInv, Zenon
<1>7. CASE Load
  BY <1>7, LoadInv, Zenon
<1>8. CASE LoadFails
  BY <1>8, GrowFailsInv, Zenon
<1>9. CASE Restart
  BY <1>9, RestartInv, Zenon
<1>10. CASE UNCHANGED vars
  BY <1>10, StutterInv, Zenon
<1> QED
  BY <1>1, <1>2, <1>3, <1>4, <1>5, <1>6, <1>7, <1>8, <1>9, <1>10, Zenon DEF Next

\* IInv is an inductive invariant of the cache, the programs that use it and the
\* files they leave, for every size of cache, chunk, ubatch and batch.
THEOREM CellsInvariant == Spec => []IInv
<1>1. Init => IInv
  BY InitInv DEF Consistent
<1>2. IInv /\ [Next]_vars => IInv'
  BY NextInv DEF Consistent
<1> QED
  BY <1>1, <1>2, PTL DEF Spec

\* Some number of cells is always held, in order.
LEMMA SomeHeld ==
    ASSUME IInv
    PROVE  \E n \in 0 .. Size : Held(n)
BY Zenon DEF IInv, Held

\* The variables of the cache keep their types.
THEOREM CellsTyped == Spec => []TypeOK
<1>1. IInv => TypeOK
  BY Zenon DEF IInv
<1> QED
  BY <1>1, CellsInvariant, PTL

\* used and seq_pos never fall behind the position table, whichever of prepare's
\* placements are taken back and whatever seq_rm removes.
THEOREM CachesStayExact == Spec => []CachesExact
<1>1. IInv => CachesExact
  <2> SUFFICES ASSUME IInv
               PROVE  CachesExact
    OBVIOUS
  <2>1. PICK n \in 0 .. Size : Held(n)
    BY SomeHeld
  <2>2. n \in Nat /\ n <= Size
    BY SizesAssumption
  <2>3. /\ pos = [c \in Cells |-> IF c < n THEN c ELSE None]
        /\ used = 0 .. n - 1 /\ seqPos = 0 .. n - 1
    BY <2>1, Zenon DEF Held
  <2>4. \A c \in Cells : (c < n <=> c \in 0 .. n - 1) /\ c # None
    BY <2>2, SizesAssumption DEF Cells, None
  <2>5. \A c \in 0 .. n - 1 : c \in Cells
    BY <2>2, SizesAssumption DEF Cells
  <2>6. used = {c \in Cells : pos[c] # None}
    <3>1. \A c \in Cells : c \in used <=> pos[c] # None
      BY <2>3, <2>4, Zenon
    <3>2. \A c \in used : c \in Cells
      BY <2>3, <2>5, Zenon
    <3> QED
      BY <3>1, <3>2, Zenon
  <2>7. \A c \in used : pos[c] = c
    BY <2>3, <2>4, <2>5, Zenon
  <2>8. seqPos = {pos[c] : c \in used}
    <3>1. {pos[c] : c \in used} = used
      BY <2>7, Zenon
    <3> QED
      BY <2>3, <3>1
  <2> QED
    BY <2>6, <2>8 DEF CachesExact
<1> QED
  BY <1>1, CellsInvariant, PTL

\* The slot of a token is its position: the chunk that mzCache derives from a
\* position is the one the cache writes.
THEOREM CellsArePositions == Spec => []CellIsPosition
<1>1. IInv => CellIsPosition
  BY SomeHeld, Zenon DEF CellIsPosition, Held
<1> QED
  BY <1>1, CellsInvariant, PTL

\* decode_chunk_aligned's cuts are enough for every batch: no write spans two
\* chunks.
THEOREM WritesInOneChunk == Spec => []WritesStayInChunk
<1>1. IInv => WritesStayInChunk
  BY DEF IInv, WritesStayInChunk
<1> QED
  BY <1>1, CellsInvariant, PTL

\* find_slot and state_read grow the chunks before a cell beyond them is used.
THEOREM ChunksAlwaysCover == Spec => []ChunksCover
<1>1. IInv => ChunksCover
  BY Zenon DEF IInv
<1> QED
  BY <1>1, CellsInvariant, PTL

\* prepare leaves nothing behind, however many ubatches it placed and however far
\* it came.
THEOREM PrepareLeavesNothing == Spec => []NoTraceOfPrepare
<1>1. IInv => NoTraceOfPrepare
  <2> SUFFICES ASSUME IInv, pc \in {"idle", "split", "process", "save"}
               PROVE  used = 0 .. Len(text) - 1
    BY DEF NoTraceOfPrepare
  <2>1. Count = Len(text) /\ pc # "ended"
    BY DEF Count
  <2> QED
    BY <2>1, Zenon DEF IInv, Held
<1> QED
  BY <1>1, CellsInvariant, PTL

\* Every decoded token's row is its own, through failed batches, growth, cuts,
\* saved and restored files.
THEOREM RowsStayFaithful == Spec => []RowsFaithful
<1>1. IInv => RowsFaithful
  BY Zenon DEF IInv
<1> QED
  BY <1>1, CellsInvariant, PTL

\* No batch makes the cache defragment itself.
THEOREM NoDefrag == Spec => []NeverDefrags
<1>1. IInv => NeverDefrags
  BY DEF IInv, NeverDefrags
<1> QED
  BY <1>1, CellsInvariant, PTL

\* state_write and state_read agree about the pieces of every range.
THEOREM FilesLoad == Spec => []SavedFilesLoad
<1>1. IInv => SavedFilesLoad
  BY Zenon DEF IInv
<1> QED
  BY <1>1, CellsInvariant, PTL

\* find_slot never refuses a batch that fits.
THEOREM RefusalsPastEnd == Spec => RefusedOnlyPastEnd
<1>1. IInv /\ [Next]_vars => [Refuse => past + end > Size]_vars
  BY RefuseInv, Zenon DEF Consistent
<1> QED
  BY <1>1, CellsInvariant, PTL DEF Spec, RefusedOnlyPastEnd
=============================================================================
