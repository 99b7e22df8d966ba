------------------------------- MODULE Cache --------------------------------
(***************************************************************************)
(* Class Cache with every member function as one atomic step, which is     *)
(* what its shared_mutex is there for: SharedCache takes the same steps    *)
(* under the lock and is shown to implement this module.  size() and       *)
(* isValid() change nothing and are read off the state.                    *)
(***************************************************************************)
EXTENDS CacheOps

CONSTANT Threads       \* the connection threads

VARIABLES cache,       \* the object *proxy_cache
          got          \* got[t]: what the last get of thread t returned

vars == <<cache, got>>

Init ==
  /\ cache = EmptyCache
  /\ got = [t \in Threads |-> Nullopt]

Get(t, k) ==
  /\ got' = [got EXCEPT ![t] = Lookup(cache, k)]
  /\ UNCHANGED cache

Put(k, e) ==
  LET filled == Insert(MakeRoom(cache), k, e)
  IN /\ \E n \in FreeNodes(filled, k) : cache' = UpdateAccessOrder(filled, k, n)
     /\ UNCHANGED got

\* remove of an absent key does nothing.
RemoveKey(k) ==
  /\ k \in Stored(cache)
  /\ cache' = EraseOrder(EraseEntry(cache, k), k)
  /\ UNCHANGED got

Clear ==
  /\ cache' = EmptyCache
  /\ UNCHANGED got

Next ==
  \/ \E t \in Threads, k \in Keys : Get(t, k)
  \/ \E k \in Keys, e \in Entries : Put(k, e)
  \/ \E k \in Keys : RemoveKey(k)
  \/ Clear

Spec == Init /\ [][Next]_vars

-----------------------------------------------------------------------------

TypeOK ==
  /\ cache \in Caches
  /\ got \in [Threads -> Entries \cup {Nullopt}]

\* Between two member functions the map, the list and the iterators agree: no
\* iterator of key_to_iterator_ dangles after any sequence of puts, evictions
\* and removals, so updateAccessOrder and remove never erase through a stale
\* one, and no key is lost from the list or in it twice.
Coherent == CoherentCache(cache)

\* The cache never holds more than max_entries_ responses (one if that is 0:
\* evictOldest has nothing to evict when the first put arrives).
Bounded ==
  Cardinality(Stored(cache)) <= IF MaxEntries = 0 THEN 1 ELSE MaxEntries

-----------------------------------------------------------------------------
(* The list the cache amounts to.                                           *)

Contents ==
  [i \in DOMAIN cache.access_order |->
     LET k == cache.access_order[i].key
     IN [key |-> k, entry |-> cache.cache_map[k]]]

Contract == INSTANCE CacheContract WITH responses <- Contents

\* The three containers together behave as one list of responses ordered by
\* their last put: what get returns, what put evicts and what remove leaves
\* is what the list says, whatever was stored, replaced or removed before.
\* A refinement does not see the arguments of a call: that the entry at the
\* front is the one put was given is GetReturnsLatest of CacheRetention.
ImplementsContract == Contract!Spec
=============================================================================
