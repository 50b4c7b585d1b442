-------------------------- MODULE MCWeightBuffers --------------------------
(***************************************************************************)
(* Instances of WeightBuffers for TLC.                                     *)
(***************************************************************************)
EXTENDS WeightBuffers

\* Layers of one size, or a last layer that a mixed quantisation makes larger or
\* smaller than the first.
UniformOrNot == {[l \in Layers |-> IF l = NumLayers - 1 THEN s ELSE "same"] :
                    s \in {"same", "larger", "smaller"}}
=============================================================================
