---------------------------- MODULE SlotSearch ----------------------------
(***************************************************************************)
(* find_slot of llama_kv_cache_unified: the search for a run of free cells *)
(* that is long enough for a ubatch.  It starts at the cache's head, wraps *)
(* at the end, and gives up once it has tested as many cells as there are. *)
(* The cache has no sliding window (LLAMA_SWA_TYPE_NONE), so a cell can be *)
(* used if and only if it is empty.                                        *)
(***************************************************************************)
EXTENDS Integers, FiniteSets

CONSTANT Size            \* cells.size()

ASSUME SizeAssumption == Size \in Nat \ {0}

VARIABLES
    used,                \* cells.used
    head,                \* this->head
    need,                \* ubatch.n_tokens
    headCur,             \* head_cur
    tested,              \* n_tested
    slot                 \* the result, or Searching

svars == <<used, head, need, headCur, tested, slot>>

Cells == 0 .. Size - 1
Searching == -2
NoSlot == -1

\* Cells before the head are worth a try when enough of them must be free.
StartAt == IF head > Cardinality(used) + 2 * need THEN 0 ELSE head

\* The search that a call starts with.
Begun == IF need > Size THEN NoSlot ELSE Searching

Init ==
    /\ used \in SUBSET Cells
    /\ head \in 0 .. Size
    /\ need \in 1 .. Size + 1
    /\ headCur = StartAt /\ tested = 0 /\ slot = Begun

\* The run would pass the end: back to cell 0.
Wrap ==
    /\ slot = Searching /\ headCur + need > Size
    /\ tested' = tested + (Size - headCur)
    /\ headCur' = 0
    /\ UNCHANGED <<used, head, need, slot>>

\* Faulty: the last cell of the run is not looked at.
Found_LastUnseen ==
    /\ slot = Searching /\ headCur + need <= Size
    /\ \A i \in 0 .. need - 2 : headCur + i \notin used
    /\ slot' = headCur
    /\ UNCHANGED <<used, head, need, headCur, tested>>

\* Every cell of the run is free.
Found ==
    /\ slot = Searching /\ headCur + need <= Size
    /\ \A i \in 0 .. need - 1 : headCur + i \notin used
    /\ slot' = headCur
    /\ UNCHANGED <<used, head, need, headCur, tested>>

\* Faulty: the search gives up one cell early.
GivesUp_Early(n) == n >= Size - 1

\* n_tested >= cells.size().
GivesUp(n) == n >= Size

\* Faulty: the cells of a run that does not fit are not counted as tested.
Skip_NotCounted(i) ==
    /\ slot = Searching /\ headCur + need <= Size
    /\ headCur + i \in used
    /\ \A j \in 0 .. i - 1 : headCur + j \notin used
    /\ headCur' = headCur + i + 1
    /\ slot' = IF GivesUp(tested) THEN NoSlot ELSE Searching
    /\ UNCHANGED <<used, head, need, tested>>

\* Cell i of the run is in use: on to the cell after it.
Skip(i) ==
    /\ slot = Searching /\ headCur + need <= Size
    /\ headCur + i \in used
    /\ \A j \in 0 .. i - 1 : headCur + j \notin used
    /\ headCur' = headCur + i + 1
    /\ tested' = tested + i + 1
    /\ slot' = IF GivesUp(tested') THEN NoSlot ELSE Searching
    /\ UNCHANGED <<used, head, need>>

Step == Wrap \/ Found \/ \E i \in 0 .. need - 1 : Skip(i)

Spec == Init /\ [][Step]_svars /\ WF_svars(Step)

-----------------------------------------------------------------------------
(* Properties.                                                             *)

\* A run of need free cells starts at s.
Fits(s) == s + need <= Size /\ \A i \in s .. s + need - 1 : i \notin used

\* Types of the search's state.
SearchTypeOK ==
    /\ used \subseteq Cells /\ head \in 0 .. Size /\ need \in 1 .. Size + 1
    /\ headCur \in 0 .. Size /\ tested \in Nat
    /\ slot \in {Searching, NoSlot} \union Cells

\* The cells find_slot returns are free and within the cache.
SlotIsFree == slot \in Cells => Fits(slot)

\* find_slot refuses a ubatch only if no run of free cells is long enough,
\* wherever the search started and however often it wrapped.
RefusedOnlyIfFull == slot = NoSlot => \A s \in Cells : ~ Fits(s)

\* The answer of find_slot is right, whichever it is: a free run within the cache,
\* or none because there is none.
SearchCorrect == SlotIsFree /\ RefusedOnlyIfFull

\* The search ends: the loop, whose wrap does not test n_tested, does not run
\* for ever.
SearchEnds == <>(slot # Searching)

\* What the search has ruled out: the run of starts since it began; after a wrap
\* the starts from the beginning and everything from the first start on; after a
\* second wrap all.
Covered ==
    \/ /\ headCur >= StartAt /\ tested = headCur - StartAt
       /\ \A s \in StartAt .. headCur - 1 : ~ Fits(s)
    \/ /\ tested = Size - StartAt + headCur
       /\ \A s \in Cells : s < headCur \/ s >= StartAt => ~ Fits(s)
    \/ \A s \in Cells : ~ Fits(s)

\* The inductive invariant of the search.
SearchInv ==
    /\ SearchTypeOK /\ SlotIsFree /\ RefusedOnlyIfFull
    /\ slot = Searching => need <= Size /\ Covered
=============================================================================
