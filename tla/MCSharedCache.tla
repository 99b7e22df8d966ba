--------------------------- MODULE MCSharedCache ----------------------------
(* Small instances of the shared cache for TLC.                             *)
EXTENDS SharedCacheHistory

Symmetry == Permutations(Nodes) \cup Permutations(Keys)
              \cup Permutations(Entries) \cup Permutations(Threads)
=============================================================================
