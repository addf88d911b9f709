--------------------------- MODULE MCCacheDispatch ---------------------------
(* CacheDispatch for TLC: the processes are interchangeable. *)
EXTENDS CacheDispatch, TLC

Symmetry == Permutations(Procs)
=============================================================================
