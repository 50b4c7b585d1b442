----------------------------- MODULE MCLoadWalk -----------------------------
(***************************************************************************)
(* Instances of LoadWalk for TLC.                                          *)
(***************************************************************************)
EXTENDS LoadWalk

\* Every vector of bounds that does not increase: even ones and, with a balance
\* reserve on the first layers, uneven ones.
AllPlans == {p \in [Layers -> 0 .. NumChunks] : \A k, l \in Layers : k <= l => p[k] >= p[l]}
=============================================================================
