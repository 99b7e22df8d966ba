------------------------------ MODULE MCProxy -------------------------------
(* Small instances of the proxy for TLC.                                    *)
EXTENDS Proxy, TLC

CacheControl(directives, shared, age) ==
  <<[name |-> "Cache-Control", directives |-> directives,
     s_maxage |-> shared, max_age |-> age]>>

\* A lifetime that is shorter for shared caches, and one that a second line
\* takes back.
MCPolicies == {CacheControl({}, 1, 2),
               CacheControl({}, NoAge, 1) \o CacheControl({"no-store"}, NoAge, NoAge)}

\* Origins that say nothing about caching, or nothing that can be read.
MCSilent == {<<>>, <<[name |-> "unreadable"]>>}

Symmetry == Permutations(Threads) \cup Permutations(Hosts)
              \cup Permutations(Uris) \cup Permutations(Ports)
=============================================================================
