--------------------------- MODULE MCShardEngine ---------------------------
(* ShardEngine for TLC: two processes of two threads on one directory. *)
EXTENDS ShardEngine, TLC

CONSTANTS p, q, t, u, k, l

MCSymmetry ==
  Permutations({p, q}) \cup Permutations({t, u}) \cup Permutations({k, l})
=============================================================================
