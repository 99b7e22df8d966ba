------------------------------ MODULE MCCache -------------------------------
(* Small instances of the cache for TLC.                                    *)
EXTENDS CacheRetention

\* Addresses and entries are only compared for equality.
Symmetry == Permutations(Nodes) \cup Permutations(Entries)
=============================================================================
