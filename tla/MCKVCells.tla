----------------------------- MODULE MCKVCells ----------------------------
(***************************************************************************)
(* KVCells for a small cache.                                              *)
(***************************************************************************)
EXTENDS KVCells

\* A batch that fills a chunk, in a full ubatch and a short one, and one of a
\* single token, after which the other crosses the end of the chunk.  Together
\* they pass the end of the cache.  Their tokens differ: a row of one is stale
\* for the other.
MCBatches == {<<"a", "a", "a">>, <<"b">>}
=============================================================================
