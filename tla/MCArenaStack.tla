---------------------------- MODULE MCArenaStack ----------------------------
(***************************************************************************)
(* Instances of ArenaStack for TLC.                                        *)
(***************************************************************************)
EXTENDS ArenaStack
=============================================================================
