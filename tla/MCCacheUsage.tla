---------------------------- MODULE MCCacheUsage ----------------------------
(* A small instance of the cache with the order of use, for TLC.            *)
EXTENDS CacheUsage

Symmetry == Permutations(Nodes) \cup Permutations(Keys)
              \cup Permutations(Entries) \cup Permutations(Threads)
=============================================================================
