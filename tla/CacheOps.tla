------------------------------ MODULE CacheOps ------------------------------
(***************************************************************************)
(* The containers of class Cache (cache.hpp) and what its member functions *)
(* do to them.  A cache is a record with the three containers as fields:   *)
(*                                                                         *)
(*   cache_map        unordered_map<string, CacheEntry>                    *)
(*   access_order     list<string>, front first.  Its nodes have an        *)
(*                    identity of their own, because key_to_iterator_      *)
(*                    stores iterators, that is, addresses of nodes        *)
(*   key_to_iterator  unordered_map<string, list<string>::iterator>        *)
(*                                                                         *)
(* The operators are functions of such a record, so that Cache can compose *)
(* them into one atomic step and SharedCache can take them one by one      *)
(* under the lock.                                                         *)
(***************************************************************************)
EXTENDS Naturals, Sequences, FiniteSets, SequencesExt

CONSTANTS Keys,        \* URLs: the host name followed by the request URI
          Entries,     \* values of type CacheEntry
          Nodes,       \* addresses the allocator may give to a list node
          MaxEntries,  \* max_entries_; main constructs the cache with 1000
          Nullopt      \* std::nullopt, what get returns for an absent key

ASSUME MaxEntriesAssumption == MaxEntries \in Nat
ASSUME NulloptAssumption == Nullopt \notin Entries

Node == [id : Nodes, key : Keys]

\* The maps of the three containers: partial functions on the keys.
Maps(S) == UNION {[K -> S] : K \in SUBSET Keys}

Caches == [cache_map : Maps(Entries),
           access_order : Seq(Node),
           key_to_iterator : Maps(Nodes)]

NoEntries == [k \in {} |-> Nullopt]
NoIterators == [k \in {} |-> Nullopt]

EmptyCache == [cache_map |-> NoEntries,
               access_order |-> <<>>,
               key_to_iterator |-> NoIterators]

Stored(c) == DOMAIN c.cache_map

-----------------------------------------------------------------------------
(* unordered_map::erase(key), unordered_map::operator[](key) = value and    *)
(* list::erase(iterator), external to the repository.                       *)

Erase(map, k) == Restrict(map, DOMAIN map \ {k})

Assign(map, k, v) == [x \in DOMAIN map \cup {k} |-> IF x = k THEN v ELSE map[x]]

\* Erasing through an iterator whose node is gone is undefined; this
\* definition then leaves the list alone, and Coherent says it never happens.
ListErase(order, it) == RemoveFirstMatch(order, LAMBDA node : node.id = it)

-----------------------------------------------------------------------------
(* Member functions.                                                        *)

\* Variants of EvictOldest: the iterator stays; the other end of the list.
EvictKeepingIterator(c) ==
  IF c.access_order = <<>>
  THEN c
  ELSE [cache_map |-> Erase(c.cache_map, Last(c.access_order).key),
        access_order |-> Front(c.access_order),
        key_to_iterator |-> c.key_to_iterator]

EvictNewest(c) ==
  IF c.access_order = <<>>
  THEN c
  ELSE LET newest_key == Head(c.access_order).key
       IN [cache_map |-> Erase(c.cache_map, newest_key),
           access_order |-> Tail(c.access_order),
           key_to_iterator |-> Erase(c.key_to_iterator, newest_key)]

EvictOldest(c) ==
  IF c.access_order = <<>>
  THEN c
  ELSE LET oldest_key == Last(c.access_order).key
       IN [cache_map |-> Erase(c.cache_map, oldest_key),
           access_order |-> Front(c.access_order),
           key_to_iterator |-> Erase(c.key_to_iterator, oldest_key)]

\* Variant of MakeRoom: off by one.
MakeRoomLate(c) ==
  IF Cardinality(Stored(c)) > MaxEntries THEN EvictOldest(c) ELSE c

\* put makes room before it looks whether the key is already stored.
MakeRoom(c) ==
  IF Cardinality(Stored(c)) >= MaxEntries THEN EvictOldest(c) ELSE c

\* Variant of Insert: emplace instead of assignment.
InsertNew(c, k, e) ==
  IF k \in Stored(c) THEN c ELSE [c EXCEPT !.cache_map = Assign(@, k, e)]

Insert(c, k, e) == [c EXCEPT !.cache_map = Assign(@, k, e)]

\* access_order once the node of k, if it has one, is unlinked.
Unlinked(c, k) ==
  IF k \in DOMAIN c.key_to_iterator
  THEN ListErase(c.access_order, c.key_to_iterator[k])
  ELSE c.access_order

\* The addresses push_front may get: any but those of the nodes still linked.
FreeNodes(c, k) ==
  {n \in Nodes : \A i \in DOMAIN Unlinked(c, k) : Unlinked(c, k)[i].id # n}

\* Variants of UpdateAccessOrder: push_back; a key that has a node keeps it.
UpdateAtBack(c, k, n) ==
  [cache_map |-> c.cache_map,
   access_order |-> Append(Unlinked(c, k), [id |-> n, key |-> k]),
   key_to_iterator |-> Assign(c.key_to_iterator, k, n)]

UpdateIfNew(c, k, n) ==
  IF k \in DOMAIN c.key_to_iterator
  THEN c
  ELSE [cache_map |-> c.cache_map,
        access_order |-> <<[id |-> n, key |-> k]>> \o c.access_order,
        key_to_iterator |-> Assign(c.key_to_iterator, k, n)]

UpdateAccessOrder(c, k, n) ==
  [cache_map |-> c.cache_map,
   access_order |-> <<[id |-> n, key |-> k]>> \o Unlinked(c, k),
   key_to_iterator |-> Assign(c.key_to_iterator, k, n)]

\* The two halves of remove: the entry first, then its node and iterator.
EraseEntry(c, k) == [c EXCEPT !.cache_map = Erase(@, k)]

EraseOrder(c, k) ==
  [cache_map |-> c.cache_map,
   access_order |-> Unlinked(c, k),
   key_to_iterator |-> Erase(c.key_to_iterator, k)]

\* Variant of Lookup: operator[], which makes an empty entry.
LookupOrEmpty(c, k) == IF k \in Stored(c) THEN c.cache_map[k] ELSE <<>>

Lookup(c, k) == IF k \in Stored(c) THEN c.cache_map[k] ELSE Nullopt

-----------------------------------------------------------------------------
(* What the three containers must agree on between two member functions.    *)

\* Every iterator points to a linked node that holds its key: none dangles.
IteratorsValid(c) ==
  \A k \in DOMAIN c.key_to_iterator :
     \E i \in DOMAIN c.access_order :
        c.access_order[i] = [id |-> c.key_to_iterator[k], key |-> k]

\* Every linked node is the one its key's iterator points to: no orphan, and
\* no key twice in the list.
NodesIndexed(c) ==
  \A i \in DOMAIN c.access_order :
     LET node == c.access_order[i]
     IN /\ node.key \in DOMAIN c.key_to_iterator
        /\ c.key_to_iterator[node.key] = node.id

\* Two nodes never share an address.
NodesDistinct(c) ==
  \A i, j \in DOMAIN c.access_order :
     c.access_order[i].id = c.access_order[j].id => i = j

\* The list and the iterators cover exactly the stored keys.
SameKeys(c) == DOMAIN c.key_to_iterator = Stored(c)

ListIndexed(c) == IteratorsValid(c) /\ NodesIndexed(c) /\ NodesDistinct(c)

CoherentCache(c) == ListIndexed(c) /\ SameKeys(c)

=============================================================================
