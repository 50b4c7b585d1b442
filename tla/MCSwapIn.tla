------------------------------ MODULE MCSwapIn ------------------------------
(***************************************************************************)
(* Instances of SwapIn for TLC.                                            *)
(***************************************************************************)
EXTENDS SwapIn

\* One FREE thread and two threads in every other group, the least that
\* default_core_configs gives them.
MCWorkers == [g \in Groups |-> IF g = "FREE" THEN 1 ELSE 2]

\* Everything resident; a layer with two compressed chunks beside one with one;
\* every kind of piece out.
MCStops == {<<0, 0, 0>>, <<3, 0, 1>>, <<2, 1, 1>>, <<1, 2, 1>>, <<0, 2, 2>>}

\* A graph computation may fail in every variant.  A decode may be refused
\* where it is called after the restore; where it is started first see the
\* run on refused decodes.
MCFailures == {<<f, "computing">> : f \in Flows}
              \cup {<<f, "refused">> : f \in Flows \ {"overlap", "no_alloc_overlap"}}

OneOfEach == {<<1, 1, 1>>}
Refused == {<<f, "refused">> : f \in Flows}
=============================================================================
