---------------------------- MODULE MCCacheStore ----------------------------
(* CacheStore for TLC: callers and calls are interchangeable. *)
EXTENDS CacheStoreRefines, TLC

Symmetry == Permutations(Callers) \cup Permutations(Calls)
=============================================================================
