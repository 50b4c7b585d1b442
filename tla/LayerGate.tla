----------------------------- MODULE LayerGate -----------------------------
(***************************************************************************)
(* What a swap-in promises (docs/INTEGRATION.md: the backend must block a  *)
(* layer's compute until that layer's chunks are restored).  Pieces come   *)
(* back one at a time in any order; the layers are computed in order, each *)
(* only when all of its pieces are back; the decode may fail on the way;   *)
(* the cycle closes when everything is back and the decode has ended.      *)
(***************************************************************************)
EXTENDS Naturals

CONSTANTS
    NumLayers,       \* layers 0 .. NumLayers - 1
    Pieces,          \* what can be swapped out: KV chunks and weight layers
    LayerOf(_)       \* the layer a piece belongs to

VARIABLES
    missing,         \* the pieces that are not back yet
    next,            \* the next layer to compute
    failed,          \* the decode has failed
    closed           \* the swap-in has returned

vars == <<missing, next, failed, closed>>

Init == missing \in SUBSET Pieces /\ next = 0 /\ failed = FALSE /\ closed = FALSE

Restore(x) ==
    /\ x \in missing
    /\ missing' = missing \ {x}
    /\ UNCHANGED <<next, failed, closed>>

Compute ==
    /\ next < NumLayers /\ ~failed
    /\ \A x \in missing : LayerOf(x) # next
    /\ next' = next + 1
    /\ UNCHANGED <<missing, failed, closed>>

Fail ==
    /\ next < NumLayers /\ ~failed
    /\ failed' = TRUE
    /\ UNCHANGED <<missing, next, closed>>

Close ==
    /\ missing = {} /\ (next = NumLayers \/ failed) /\ ~closed
    /\ closed' = TRUE
    /\ UNCHANGED <<missing, next, failed>>

Next == (\E x \in Pieces : Restore(x)) \/ Compute \/ Fail \/ Close

Spec == Init /\ [][Next]_vars
=============================================================================
