---------------------------- MODULE MCThreadPool ----------------------------
(***************************************************************************)
(* Instances of ThreadPool for TLC.                                        *)
(***************************************************************************)
EXTENDS ThreadPool

\* Two DECOMP threads and the one FREE thread of default_core_configs.
MCNumWorkers == [g \in Groups |-> IF g = "DECOMP" THEN 2 ELSE 1]
=============================================================================
