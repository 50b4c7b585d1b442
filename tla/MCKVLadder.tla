---------------------------- MODULE MCKVLadder ----------------------------
(***************************************************************************)
(* Instances of KVLadder for TLC.  Byte sizes keep the proportions of the  *)
(* 8-bit FLEXGEN build: a raw chunk is 32 units, its compressed form 16    *)
(* and its metadata 1.                                                     *)
(***************************************************************************)
EXTENDS KVLadderInv

\* Shares of the resident bytes a caller asks to free: one that is reached
\* by compression alone, ones in the middle, and everything.
MCTargets == {0, 2, 5, 8}
=============================================================================
