-------------------------- MODULE MCLadderForecast --------------------------
(***************************************************************************)
(* Instance of LadderForecast for TLC: the sizes of the 8-bit FLEXGEN      *)
(* build (15/32 of a raw chunk freed) and targets fine enough to stop at   *)
(* every chunk and layer of the ladder.                                    *)
(***************************************************************************)
EXTENDS LadderForecast

MCTargets == 0 .. TargetDen
=============================================================================
