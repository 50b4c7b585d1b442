------------------------- MODULE SlotSearchProofs -------------------------
(***************************************************************************)
(* find_slot is right for a cache of any size: SearchInv is an invariant   *)
(* of SlotSearch, and with it what the search returns is free and what it  *)
(* refuses has no room.                                                    *)
(***************************************************************************)
EXTENDS SlotSearch, FiniteSetTheorems, TLAPS

\* The number of used cells is a number.
LEMMA UsedCount ==
    ASSUME used \subseteq Cells
    PROVE  Cardinality(used) \in Nat
<1>1. 0 \in Int /\ Size - 1 \in Int
  BY SizeAssumption
<1>2. IsFiniteSet(Cells)
  BY <1>1, FS_Interval, Zenon DEF Cells
<1>3. IsFiniteSet(used)
  BY <1>2, FS_Subset, Zenon
<1> QED
  BY <1>3, FS_CardinalityType, Zenon

\* The search starts inside the cache or at its end.
LEMMA StartInCache ==
    ASSUME SearchTypeOK
    PROVE  StartAt \in 0 .. Size
<1>1. Cardinality(used) \in Nat
  BY UsedCount DEF SearchTypeOK
<1> QED
  BY <1>1, SizeAssumption DEF SearchTypeOK, StartAt

\* A search starts with the invariant.
LEMMA SearchInit ==
    ASSUME Init
    PROVE  SearchInv
<1>1. used \subseteq Cells /\ head \in 0 .. Size /\ need \in 1 .. Size + 1
  BY DEF Init
<1>2. Cardinality(used) \in Nat
  BY <1>1, UsedCount
<1>3. headCur = StartAt /\ headCur \in 0 .. Size
  BY <1>1, <1>2, SizeAssumption DEF Init, StartAt
<1>4. tested = 0 /\ slot \in {Searching, NoSlot}
       /\ (slot = Searching => need <= Size) /\ (slot = NoSlot => need > Size)
  BY <1>1, SizeAssumption DEF Init, Begun, Searching, NoSlot
<1>5. SearchTypeOK
  BY <1>1, <1>3, <1>4 DEF SearchTypeOK
<1>6. slot \notin Cells
  BY <1>4, SizeAssumption DEF Searching, NoSlot, Cells
<1>7. RefusedOnlyIfFull
  BY <1>1, <1>4, SizeAssumption DEF RefusedOnlyIfFull, Fits, Cells
<1>8. Covered
  BY <1>3, <1>4 DEF Covered
<1> QED
  BY <1>4, <1>5, <1>6, <1>7, <1>8 DEF SearchInv, SlotIsFree

\* A wrap has ruled out the starts from which a run would pass the end.
LEMMA WrapInv ==
    ASSUME SearchInv, Wrap
    PROVE  SearchInv'
<1>1. /\ UNCHANGED <<used, head, need, slot>> /\ slot = Searching
      /\ headCur + need > Size /\ tested' = tested + (Size - headCur) /\ headCur' = 0
  BY DEF Wrap
<1>2. /\ used \subseteq Cells /\ head \in 0 .. Size /\ need \in 1 .. Size
      /\ headCur \in 0 .. Size /\ tested \in Nat
  BY <1>1 DEF SearchInv, SearchTypeOK
<1>3. StartAt \in 0 .. Size /\ StartAt' = StartAt
  BY <1>1, StartInCache DEF SearchInv, StartAt
<1>4. \A s : Fits(s)' <=> Fits(s)
  BY <1>1 DEF Fits
<1>5. SearchTypeOK' /\ SlotIsFree' /\ RefusedOnlyIfFull'
  BY <1>1, <1>2, SizeAssumption
     DEF SearchTypeOK, SlotIsFree, RefusedOnlyIfFull, Searching, NoSlot, Cells
<1>6. \A s \in Cells : s >= headCur => ~ Fits(s)
  BY <1>1, <1>2, SizeAssumption DEF Fits, Cells
<1>7. Covered'
  <2>1. CASE /\ headCur >= StartAt /\ tested = headCur - StartAt
             /\ \A s \in StartAt .. headCur - 1 : ~ Fits(s)
    <3>1. \A s \in Cells : s >= StartAt => ~ Fits(s)
      BY <1>2, <1>3, <1>6, <2>1, SizeAssumption DEF Cells
    <3>2. tested' = Size - StartAt + headCur'
      BY <1>1, <1>2, <1>3, <2>1, SizeAssumption
    <3>3. \A s \in Cells : s < headCur' \/ s >= StartAt => ~ Fits(s)
      BY <1>1, <1>3, <3>1, SizeAssumption DEF Cells
    <3> QED
      BY <1>3, <1>4, <3>2, <3>3 DEF Covered
  <2>2. CASE /\ tested = Size - StartAt + headCur
             /\ \A s \in Cells : s < headCur \/ s >= StartAt => ~ Fits(s)
    <3>1. \A s \in Cells : ~ Fits(s)
      BY <1>2, <1>6, <2>2, SizeAssumption DEF Cells
    <3> QED
      BY <1>4, <3>1 DEF Covered
  <2>3. CASE \A s \in Cells : ~ Fits(s)
    BY <1>4, <2>3 DEF Covered
  <2> QED
    BY <1>1, <2>1, <2>2, <2>3 DEF SearchInv, Covered
<1> QED
  BY <1>1, <1>2, <1>5, <1>7 DEF SearchInv

\* The run that was found is free.
LEMMA FoundInv ==
    ASSUME SearchInv, Found
    PROVE  SearchInv'
<1>1. /\ UNCHANGED <<used, head, need, headCur, tested>> /\ slot' = headCur
      /\ headCur + need <= Size /\ \A i \in 0 .. need - 1 : headCur + i \notin used
  BY DEF Found
<1>2. /\ used \subseteq Cells /\ head \in 0 .. Size /\ need \in 1 .. Size
      /\ headCur \in 0 .. Size /\ tested \in Nat
  BY DEF SearchInv, SearchTypeOK, Found
<1>3. slot' \in Cells
  BY <1>1, <1>2, SizeAssumption DEF Cells
<1>4. Fits(slot)'
  <2>1. ASSUME NEW i \in headCur .. headCur + need - 1
        PROVE  i \notin used
    <3>1. i - headCur \in 0 .. need - 1 /\ headCur + (i - headCur) = i
      BY <1>2, SizeAssumption
    <3> QED
      BY <1>1, <3>1
  <2> QED
    BY <1>1, <2>1 DEF Fits
<1>5. slot' # Searching /\ slot' # NoSlot
  BY <1>3, SizeAssumption DEF Cells, Searching, NoSlot
<1>6. SearchTypeOK'
  BY <1>1, <1>2, <1>3, SizeAssumption DEF SearchTypeOK
<1> QED
  BY <1>4, <1>5, <1>6 DEF SearchInv, SlotIsFree, RefusedOnlyIfFull

\* A used cell rules out every start up to it.
LEMMA SkipInv ==
    ASSUME SearchInv, NEW i \in 0 .. need - 1, Skip(i)
    PROVE  SearchInv'
<1>1. /\ UNCHANGED <<used, head, need>> /\ slot = Searching
      /\ headCur + need <= Size /\ headCur + i \in used
      /\ headCur' = headCur + i + 1 /\ tested' = tested + i + 1
      /\ slot' = IF tested' >= Size THEN NoSlot ELSE Searching
  BY DEF Skip, GivesUp
<1>2. /\ used \subseteq Cells /\ head \in 0 .. Size /\ need \in 1 .. Size
      /\ headCur \in 0 .. Size /\ tested \in Nat /\ i \in Nat /\ i < need
  BY <1>1, SizeAssumption DEF SearchInv, SearchTypeOK
<1>3. PICK h0 \in 0 .. Size : StartAt = h0 /\ StartAt' = h0
  BY <1>1, StartInCache DEF SearchInv, StartAt
<1>4. \A s : Fits(s)' <=> Fits(s)
  BY <1>1 DEF Fits
<1>5. PICK h1 \in 0 .. Size, t1 \in Nat :
          h1 = headCur + i + 1 /\ h1 = headCur' /\ t1 = tested + i + 1 /\ t1 = tested'
  BY <1>1, <1>2, SizeAssumption
<1>6. \A s \in headCur .. h1 - 1 : ~ Fits(s)
  <2>1. ASSUME NEW s \in headCur .. h1 - 1
        PROVE  headCur + i \in s .. s + need - 1
    BY <1>2, <1>5, SizeAssumption
  <2> QED
    BY <1>1, <2>1 DEF Fits
<1>7. Covered' /\ (t1 >= Size => \A s \in Cells : ~ Fits(s))
  <2>1. CASE /\ headCur >= h0 /\ tested = headCur - h0
             /\ \A s \in h0 .. headCur - 1 : ~ Fits(s)
    <3>1. \A s \in h0 .. h1 - 1 : ~ Fits(s)
      BY <1>2, <1>5, <1>6, <2>1, SizeAssumption
    <3>2. h1 >= h0 /\ t1 = h1 - h0
      BY <1>2, <1>5, <2>1, SizeAssumption
    <3>3. ASSUME t1 >= Size, NEW s \in Cells
          PROVE  s \in h0 .. h1 - 1
      BY <3>2, <3>3, SizeAssumption DEF Cells
    <3> QED
      BY <1>3, <1>4, <1>5, <3>1, <3>2, <3>3, Zenon DEF Covered
  <2>2. CASE /\ tested = Size - h0 + headCur
             /\ \A s \in Cells : s < headCur \/ s >= h0 => ~ Fits(s)
    <3>1. \A s \in Cells : s < h1 \/ s >= h0 => ~ Fits(s)
      BY <1>2, <1>5, <1>6, <2>2, SizeAssumption DEF Cells
    <3>2. t1 = Size - h0 + h1
      BY <1>2, <1>5, <2>2, SizeAssumption
    <3>3. ASSUME t1 >= Size, NEW s \in Cells
          PROVE  s < h1 \/ s >= h0
      BY <3>2, <3>3, SizeAssumption DEF Cells
    <3> QED
      BY <1>3, <1>4, <1>5, <3>1, <3>2, <3>3, Zenon DEF Covered
  <2>3. CASE \A s \in Cells : ~ Fits(s)
    BY <1>4, <2>3 DEF Covered
  <2> QED
    BY <1>1, <1>3, <2>1, <2>2, <2>3 DEF SearchInv, Covered
<1>8. slot' \in {Searching, NoSlot} /\ (slot' = NoSlot => t1 >= Size)
  BY <1>1, <1>5 DEF Searching, NoSlot
<1>9. slot' \notin Cells
  BY <1>8, SizeAssumption DEF Searching, NoSlot, Cells
<1>10. SearchTypeOK'
  BY <1>1, <1>2, <1>5, <1>8, SizeAssumption DEF SearchTypeOK
<1>11. SlotIsFree' /\ RefusedOnlyIfFull'
  BY <1>4, <1>7, <1>8, <1>9 DEF SlotIsFree, RefusedOnlyIfFull, Cells
<1> QED
  BY <1>1, <1>2, <1>7, <1>10, <1>11 DEF SearchInv

\* SearchInv is inductive: find_slot's search keeps to what it has ruled out.
THEOREM SearchInvariant == Spec => []SearchInv
<1>1. SearchInv /\ [Step]_svars => SearchInv'
  <2> SUFFICES ASSUME SearchInv, [Step]_svars
               PROVE  SearchInv'
    OBVIOUS
  <2>1. CASE Wrap
    BY <2>1, WrapInv
  <2>2. CASE Found
    BY <2>2, FoundInv
  <2>3. CASE \E i \in 0 .. need - 1 : Skip(i)
    BY <2>3, SkipInv
  <2>4. CASE UNCHANGED svars
    BY <2>4 DEF svars, SearchInv, SearchTypeOK, SlotIsFree, RefusedOnlyIfFull, Covered,
                StartAt, Fits
  <2> QED
    BY <2>1, <2>2, <2>3, <2>4 DEF Step
<1> QED
  BY <1>1, SearchInit, PTL DEF Spec

\* The cells find_slot returns are free, in a cache of any size and from any head.
THEOREM SlotsAreFree == Spec => []SlotIsFree
<1>1. SearchInv => SlotIsFree
  BY DEF SearchInv
<1> QED
  BY <1>1, SearchInvariant, PTL

\* find_slot refuses a ubatch only if no run of free cells is long enough.
THEOREM RefusalsAreRight == Spec => []RefusedOnlyIfFull
<1>1. SearchInv => RefusedOnlyIfFull
  BY DEF SearchInv
<1> QED
  BY <1>1, SearchInvariant, PTL

\* Both at once: what find_slot answers, a slot or a refusal, is right.
THEOREM SearchAnswersRight == Spec => []SearchCorrect
<1>1. SearchInv => SearchCorrect
  BY DEF SearchInv, SearchCorrect
<1> QED
  BY <1>1, SearchInvariant, PTL
=============================================================================
