--------------------------- MODULE MCSlotSearch ---------------------------
(***************************************************************************)
(* SlotSearch on every set of used cells, every head and every length.     *)
(***************************************************************************)
EXTENDS SlotSearch
=============================================================================
